----------------------------- MODULE KernelProofs -----------------------------
(***************************************************************************)
(* Theorems about Kernels: the routes of items in conveyors of any size,   *)
(* the methods of an accelerated conveyor, and division by multiplication  *)
(* for words of any width.                                                 *)
(***************************************************************************)
EXTENDS Kernels, Sequences, FiniteSetTheorems, WellFoundedInduction, TLAPS

(* Digits.  A PE is a number with two or three digits in base n, the size of *)
(* a local group; the digits say its place in the grid.                      *)

\* Division with remainder.
LEMMA Divided ==
  ASSUME NEW x \in Nat, NEW n \in Nat \ {0}
  PROVE  /\ x = n * (x \div n) + (x % n)
         /\ x \div n \in Nat /\ x % n \in 0 .. n-1
OBVIOUS

\* A number given by its two digits.
LEMMA TwoDigits ==
  ASSUME NEW n \in Nat \ {0}, NEW q \in Nat, NEW r \in 0 .. n-1
  PROVE  /\ n*q + r \in Nat
         /\ (n*q + r) \div n = q /\ (n*q + r) % n = r
OBVIOUS

\* The number with three digits.
Number(n, u, m, l) == n*n*u + n*m + l

\* A number given by its three digits.
LEMMA ThreeDigits ==
  ASSUME NEW n \in Nat \ {0}, NEW u \in Nat, NEW m \in 0 .. n-1, NEW l \in 0 .. n-1
  PROVE  LET x == Number(n, u, m, l) IN
         /\ x \in Nat /\ x = n * (n*u + m) + l
         /\ x \div n = n*u + m /\ x % n = l
         /\ (x \div n) % n = m /\ x \div (n*n) = u
<1> DEFINE x == Number(n, u, m, l)
           s == n*n
           r == n*m + l
<1>1. n*u + m \in Nat /\ (n*u + m) % n = m
  BY TwoDigits
<1>2. x = n * (n*u + m) + l
  BY DEF Number
<1>3. x \in Nat /\ x \div n = n*u + m /\ x % n = l
  <2> DEFINE q == n*u + m
  <2>1. q \in Nat /\ x = n*q + l
    BY <1>1, <1>2
  <2> HIDE DEF q, x
  <2>2. n*q + l \in Nat /\ (n*q + l) \div n = q /\ (n*q + l) % n = l
    BY <2>1, TwoDigits
  <2> QED
    BY <2>1, <2>2 DEF q
<1>4. x = s*u + r
  BY DEF Number
<1>5. s \in Nat \ {0} /\ r \in Nat
  OBVIOUS
<1>6. r <= s - 1
  <2>1. n*m <= n*(n-1)
    OBVIOUS
  <2>2. n*(n-1) = n*n - n
    OBVIOUS
  <2> QED
    BY <2>1, <2>2
<1>7. x \div s = u
  <2>1. r \in 0 .. s-1
    BY <1>5, <1>6
  <2> HIDE DEF s, r, x
  <2> QED
    BY <1>4, <1>5, <2>1, TwoDigits
<1> QED
  BY <1>1, <1>2, <1>3, <1>7 DEF s

\* The digits of a number.
LEMMA DigitsOf ==
  ASSUME NEW n \in Nat \ {0}, NEW x \in Nat
  PROVE  LET u == x \div (n*n)
             m == (x \div n) % n
             l == x % n
         IN /\ u \in Nat /\ m \in 0 .. n-1 /\ l \in 0 .. n-1
            /\ x = Number(n, u, m, l) /\ x \div n = n*u + m
<1> DEFINE q == x \div n
           u == q \div n
           m == q % n
           l == x % n
<1>1. x = n*q + l /\ q \in Nat /\ l \in 0 .. n-1
  BY Divided
<1>2. q = n*u + m /\ u \in Nat /\ m \in 0 .. n-1
  BY <1>1, Divided
<1>3. x = Number(n, u, m, l)
  <2> HIDE DEF q, u, m, l
  <2> QED
    BY <1>1, <1>2 DEF Number
<1>4. x \div (n*n) = u
  <2> HIDE DEF u, m, l
  <2> QED
    BY <1>1, <1>2, <1>3, ThreeDigits
<1> QED
  BY <1>1, <1>2, <1>3, <1>4
-----------------------------------------------------------------------------
(* The operators of a route, for each order of conveyor *)

\* One hop: straight to the destination.
LEMMA VectorRoute ==
  ASSUME shape.order = 1, NEW p, NEW r, NEW s, NEW t
  PROVE  /\ Journey!Friend(0, p, r) = r /\ Journey!Me(0, p) = p
         /\ Journey!GroupSize(0) = shape.procs
         /\ Journey!Route(p).next = p
         /\ Journey!origin_from_tag(t, s) = s
<1>1. /\ Journey!Friend(0, p, r) = r /\ Journey!Me(0, p) = p
      /\ Journey!GroupSize(0) = shape.procs
  BY DEF Journey!Friend, Journey!Me, Journey!GroupSize
<1>2. Journey!Route(p) = [tag |-> 0, next |-> p]
  BY DEF Journey!Route
<1>3. Journey!origin_from_tag(t, s) = s
  BY DEF Journey!origin_from_tag
<1> QED
  BY <1>1, <1>2, <1>3

\* Two hops: along the row of the grid, then along the column.
LEMMA MatrixGroups ==
  ASSUME shape.order = 2, NEW p, NEW r
  PROVE  /\ Journey!Friend(0, p, r) = shape.local * (p \div shape.local) + r
         /\ Journey!Friend(1, p, r) = p + (r - p \div shape.local) * shape.local
         /\ Journey!Me(0, p) = p % shape.local
         /\ Journey!Me(1, p) = p \div shape.local
         /\ Journey!GroupSize(0) = shape.local
         /\ Journey!GroupSize(1) = shape.procs \div shape.local
  BY DEF Journey!Friend, Journey!Me, Journey!GroupSize, Journey!IsLocal, Journey!n_rows

\* Two hops: what the tags say.
LEMMA MatrixTags ==
  ASSUME shape.order = 2, NEW p, NEW s, NEW t, NEW k
  PROVE  /\ Journey!Route(p) = [tag |-> p \div shape.local, next |-> p % shape.local]
         /\ Journey!Pivot(k, s, t) = [tag |-> s, next |-> t]
         /\ Journey!ElasticPivot(k, s, t) = [tag |-> s, next |-> t]
         /\ Journey!origin_from_tag(t, s) = s * shape.local + t
<1>1. Journey!Route(p) = [tag |-> p \div shape.local, next |-> p % shape.local]
  BY DEF Journey!Route
<1>2. Journey!Pivot(k, s, t) = [tag |-> s, next |-> t]
  BY DEF Journey!Pivot
<1>3. Journey!ElasticPivot(k, s, t) = [tag |-> s, next |-> t]
  BY DEF Journey!ElasticPivot
<1>4. Journey!origin_from_tag(t, s) = s * shape.local + t
  BY DEF Journey!origin_from_tag
<1> QED
  BY <1>1, <1>2, <1>3, <1>4

\* What a packet keeps of a tag, by the bytes it gives to it.
LEMMA KeptBytes ==
  ASSUME NEW k, NEW t
  PROVE  /\ Journey!TagBytes(k) = 4 => Journey!Kept(k, t) = t
         /\ Journey!TagBytes(k) = 2 => Journey!Kept(k, t) = t % 65536
         /\ Journey!TagBytes(k) = 1 => Journey!Kept(k, t) = t % 256
<1>1. ASSUME Journey!TagBytes(k) = 4 PROVE Journey!Kept(k, t) = t
  <2>1. 4 # 0 /\ 4 # 1 /\ 4 # 2
    OBVIOUS
  <2> QED
    BY <1>1, <2>1 DEF Journey!Kept
<1>2. ASSUME Journey!TagBytes(k) = 2 PROVE Journey!Kept(k, t) = t % 65536
  <2>1. 2 # 0 /\ 2 # 1 /\ 2 # 4
    OBVIOUS
  <2> QED
    BY <1>2, <2>1 DEF Journey!Kept
<1>3. ASSUME Journey!TagBytes(k) = 1 PROVE Journey!Kept(k, t) = t % 256
  <2>1. 1 # 0 /\ 1 # 2 /\ 1 # 4
    OBVIOUS
  <2> QED
    BY <1>3, <2>1 DEF Journey!Kept
<1> QED
  BY <1>1, <1>2, <1>3

\* Two hops: the tag of the first has its full width.
LEMMA MatrixKept ==
  ASSUME shape.order = 2
  PROVE  \A t \in Nat : Journey!Kept(0, t) = t
<1>1. Journey!TagBytes(0) = 4
  BY DEF Journey!TagBytes
<1> QED
  BY <1>1, KeptBytes

\* Two hops: the tag of the second holds the ranks of a local group that is not
\* too large for it.
LEMMA NarrowKept ==
  ASSUME shape.order = 2, shape.local \in Nat \ {0},
         shape.shrink => shape.local <= 256 \/ shape.procs \div shape.local > 256,
         shape.procs \in Nat
  PROVE  \A t \in 0 .. shape.local-1 : Journey!Kept(1, t) = t
<1>1. Journey!TagBytes(1) = IF shape.shrink /\ shape.procs \div shape.local <= 256 THEN 1 ELSE 4
  BY DEF Journey!TagBytes, Journey!n_rows
<1> SUFFICES ASSUME NEW t \in 0 .. shape.local-1 PROVE Journey!Kept(1, t) = t
  OBVIOUS
<1>2. CASE Journey!TagBytes(1) = 4
  BY KeptBytes, <1>2
<1>3. CASE Journey!TagBytes(1) # 4
  <2>1. /\ shape.shrink /\ shape.procs \div shape.local <= 256
        /\ Journey!TagBytes(1) = 1
    BY <1>1, <1>3, Zenon
  <2>2. shape.procs \div shape.local \in Nat
    BY Divided
  <2>3. Journey!TagBytes(1) = 1 /\ shape.local <= 256
    BY <2>1, <2>2
  <2>4. t % 256 = t
    BY <2>3
  <2> QED
    BY KeptBytes, <2>3, <2>4
<1> QED
  BY <1>2, <1>3

\* Three hops: within a local group, between the groups, within another.
LEMMA TensorGroups ==
  ASSUME shape.order = 3, NEW p, NEW r
  PROVE  /\ \A k \in {0, 2} :
              /\ Journey!Friend(k, p, r) = shape.local * (p \div shape.local) + r
              /\ Journey!Me(k, p) = p % shape.local
              /\ Journey!GroupSize(k) = shape.local
         /\ Journey!Friend(1, p, r) = shape.local*shape.local*r
               + shape.local * (p % shape.local) + ((p \div shape.local) % shape.local)
         /\ Journey!Me(1, p) = p \div (shape.local*shape.local)
         /\ Journey!GroupSize(1) = 1 + (shape.procs - 1) \div (shape.local*shape.local)
  BY DEF Journey!Friend, Journey!Me, Journey!GroupSize, Journey!IsLocal, Journey!squared

\* Three hops: what the tags say.
LEMMA TensorTags ==
  ASSUME shape.order = 3, NEW p, NEW s, NEW t
  PROVE  /\ Journey!Route(p) =
              [tag  |-> 256 * (p \div (shape.local*shape.local)) + (p % shape.local),
               next |-> (p \div shape.local)
                          - shape.local * (p \div (shape.local*shape.local))]
         /\ Journey!Pivot(0, s, t) =
              [tag |-> s*Journey!FieldSize + (t % 256), next |-> t \div 256]
         /\ Journey!Pivot(1, s, t) =
              [tag |-> s*256 + (t \div Journey!FieldSize), next |-> t % Journey!FieldSize]
         /\ Journey!ElasticPivot(0, s, t) =
              [tag |-> s*256 + (t % 256), next |-> t \div 256]
         /\ Journey!ElasticPivot(1, s, t) =
              [tag |-> s*256 + (t \div 256), next |-> t % 256]
         /\ Journey!origin_from_tag(t, s) =
              shape.local*shape.local * (t \div 256) + shape.local*s + (t % 256)
<1>0. 3 # 1 /\ 3 # 2 /\ 0 # 1
  OBVIOUS
<1>1. Journey!Route(p) =
        [tag  |-> 256 * (p \div (shape.local*shape.local)) + (p % shape.local),
         next |-> (p \div shape.local)
                    - shape.local * (p \div (shape.local*shape.local))]
  BY <1>0, Zenon DEF Journey!Route, Journey!squared
<1>2. Journey!Pivot(0, s, t) =
        [tag |-> s*Journey!FieldSize + (t % 256), next |-> t \div 256]
  BY <1>0, Zenon DEF Journey!Pivot
<1>3. Journey!Pivot(1, s, t) =
        [tag |-> s*256 + (t \div Journey!FieldSize), next |-> t % Journey!FieldSize]
  BY <1>0, Zenon DEF Journey!Pivot
<1>4. Journey!ElasticPivot(0, s, t) =
        [tag |-> s*256 + (t % 256), next |-> t \div 256]
  BY <1>0, Zenon DEF Journey!ElasticPivot
<1>5. Journey!ElasticPivot(1, s, t) =
        [tag |-> s*256 + (t \div 256), next |-> t % 256]
  BY <1>0, Zenon DEF Journey!ElasticPivot
<1>6. Journey!origin_from_tag(t, s) =
        shape.local*shape.local * (t \div 256) + shape.local*s + (t % 256)
  BY <1>0, Zenon DEF Journey!origin_from_tag, Journey!squared
<1> QED
  BY <1>1, <1>2, <1>3, <1>4, <1>5, <1>6

\* The tag of the remote hop holds both of its fields.
LEMMA TensorKept ==
  ASSUME shape.order = 3, shape.local \in 1 .. 256
  PROVE  /\ Journey!FieldSize \in {16, 256}
         /\ shape.local <= Journey!FieldSize
         /\ ~shape.shrink => Journey!FieldSize = 256
         /\ \A t \in Nat : Journey!Kept(0, t) = t /\ Journey!Kept(2, t) = t
         /\ \A a, b \in 0 .. shape.local-1 :
              Journey!Kept(1, a*Journey!FieldSize + b) = a*Journey!FieldSize + b
<1>0. 3 # 1 /\ 3 # 2 /\ 0 # 1 /\ 2 # 1 /\ 4 # 0 /\ 4 # 1 /\ 4 # 2 /\ 2 # 0 /\ 1 # 0
  OBVIOUS
<1>1. Journey!TagBytes(0) = 4 /\ Journey!TagBytes(2) = 4
  BY <1>0, Zenon DEF Journey!TagBytes
<1>2. \A t \in Nat : Journey!Kept(0, t) = t /\ Journey!Kept(2, t) = t
  BY <1>1, KeptBytes
<1>3. /\ ~shape.shrink => Journey!TagBytes(1) = 4
      /\ shape.shrink /\ shape.local > 16 => Journey!TagBytes(1) = 2
      /\ shape.shrink /\ ~(shape.local > 16) => Journey!TagBytes(1) = 1
  BY <1>0, Zenon DEF Journey!TagBytes
<1>4. Journey!FieldSize = IF Journey!TagBytes(1) = 1 THEN 16 ELSE 256
  BY DEF Journey!FieldSize
<1>5. CASE ~shape.shrink
  <2>1. Journey!TagBytes(1) = 4 /\ Journey!FieldSize = 256
    BY <1>3, <1>4, <1>5, <1>0
  <2> QED
    BY KeptBytes, <1>2, <1>5, <2>1
<1>6. CASE shape.shrink /\ shape.local > 16
  <2>1. Journey!TagBytes(1) = 2 /\ Journey!FieldSize = 256
    BY <1>3, <1>4, <1>6, <1>0
  <2>2. ASSUME NEW a \in 0 .. shape.local-1, NEW b \in 0 .. shape.local-1
        PROVE  Journey!Kept(1, a*256 + b) = a*256 + b
    <3>1. (a*256 + b) % 65536 = a*256 + b
      OBVIOUS
    <3> QED
      BY KeptBytes, <2>1, <3>1
  <2> QED
    BY <1>2, <1>6, <2>1, <2>2
<1>7. CASE shape.shrink /\ ~(shape.local > 16)
  <2>1. Journey!TagBytes(1) = 1 /\ Journey!FieldSize = 16
    BY <1>3, <1>4, <1>7, <1>0
  <2>2. ASSUME NEW a \in 0 .. shape.local-1, NEW b \in 0 .. shape.local-1
        PROVE  Journey!Kept(1, a*16 + b) = a*16 + b
    <3>1. (a*16 + b) % 256 = a*16 + b
      BY <1>7
    <3> QED
      BY KeptBytes, <2>1, <3>1
  <2> QED
    BY <1>2, <1>7, <2>1, <2>2
<1> QED
  BY <1>5, <1>6, <1>7

-----------------------------------------------------------------------------
(* Where an item is *)

Upper(n, p)  == p \div (n*n)
Middle(n, p) == (p \div n) % n
Lower(n, p)  == p % n

\* PEs of one row of the grid exist together.
LEMMA Rows ==
  ASSUME NEW n \in Nat \ {0}, NEW c \in Nat \ {0}, c % n = 0,
         NEW p \in 0 .. c-1, NEW r \in 0 .. n-1
  PROVE  /\ n * (p \div n) + r \in 0 .. c-1
         /\ p \div n \in 0 .. (c \div n)-1
<1> DEFINE q == p \div n
           w == c \div n
<1>0. p \in Nat
  OBVIOUS
<1>1. p = n*q + (p % n) /\ q \in Nat /\ p % n \in 0 .. n-1
  BY <1>0, Divided
<1>2. c = n*w /\ w \in Nat
  BY Divided
<1> HIDE DEF q, w
<1>3. q < w
  <2> SUFFICES ASSUME q >= w PROVE FALSE
    BY <1>1, <1>2
  <2>1. n*q >= n*w
    BY <1>1, <1>2
  <2> QED
    BY <1>1, <1>2, <2>1
<1>4. n*q + r < n*w
  <2>1. n*(q+1) <= n*w
    BY <1>1, <1>2, <1>3
  <2>2. n*(q+1) = n*q + n
    BY <1>1
  <2> QED
    BY <1>1, <1>2, <2>1, <2>2
<1>5. n*q + r \in Nat
  BY <1>1
<1> QED
  BY <1>1, <1>2, <1>3, <1>4, <1>5 DEF q, w

\* Division keeps the order.
LEMMA DivideMonotone ==
  ASSUME NEW n \in Nat \ {0}, NEW p \in Nat, NEW m \in Nat, p <= m
  PROVE  p \div n <= m \div n
<1> DEFINE q == p \div n
           w == m \div n
<1>1. p = n*q + (p % n) /\ q \in Nat /\ p % n \in 0 .. n-1
  BY Divided
<1>2. m = n*w + (m % n) /\ w \in Nat /\ m % n \in 0 .. n-1
  BY Divided
<1> HIDE DEF q, w
<1>3. SUFFICES ASSUME q > w PROVE FALSE
  BY <1>1, <1>2 DEF q, w
<1>4. n*q >= n*(w+1)
  BY <1>1, <1>2, <1>3
<1>5. n*(w+1) = n*w + n
  BY <1>2
<1> QED
  BY <1>1, <1>2, <1>4, <1>5

\* The digits of PE p of a tensor of c PEs, and the PEs of its row.
IsPlace(n, c, p) ==
  /\ Upper(n, p) \in 0 .. (c-1) \div (n*n)
  /\ Upper(n, p) \in Nat
  /\ Middle(n, p) \in 0 .. n-1 /\ Lower(n, p) \in 0 .. n-1
  /\ p = Number(n, Upper(n, p), Middle(n, p), Lower(n, p))
  /\ (p \div n) - n * Upper(n, p) = Middle(n, p)
  /\ \A r \in 0 .. n-1 :
       /\ Number(n, Upper(n, p), Middle(n, p), r) = n * (p \div n) + r
       /\ Number(n, Upper(n, p), Middle(n, p), r) \in 0 .. c-1

LEMMA Place ==
  ASSUME NEW n \in Nat \ {0}, NEW c \in Nat \ {0}, c % n = 0, NEW p \in 0 .. c-1
  PROVE  IsPlace(n, c, p)
<1> DEFINE u == Upper(n, p)
           m == Middle(n, p)
           l == Lower(n, p)
           q == p \div n
<1>0. p \in Nat
  OBVIOUS
<1>1. /\ u \in Nat /\ m \in 0 .. n-1 /\ l \in 0 .. n-1
      /\ p = Number(n, u, m, l) /\ q = n*u + m
  BY <1>0, DigitsOf DEF Upper, Middle, Lower
<1>2. u <= (c-1) \div (n*n)
  <2>1. n*n \in Nat \ {0} /\ c-1 \in Nat /\ p \in Nat /\ p <= c-1
    OBVIOUS
  <2> QED
    BY <2>1, DivideMonotone DEF Upper
<1>3. (c-1) \div (n*n) \in Nat
  <2>1. n*n \in Nat \ {0} /\ c-1 \in Nat
    OBVIOUS
  <2> QED
    BY <2>1, Divided
<1>4. ASSUME NEW r \in 0 .. n-1
      PROVE  Number(n, u, m, r) = n*q + r /\ Number(n, u, m, r) \in 0 .. c-1
  <2>1. n*q + r \in 0 .. c-1
    BY Rows
  <2> HIDE DEF u, m, l, q
  <2>2. n*n*u + n*m + r = n*(n*u + m) + r
    BY <1>1
  <2> QED
    BY <1>1, <2>1, <2>2 DEF Number
<1> HIDE DEF u, m, l, q
<1>5. q - n*u = m
  BY <1>1
<1> QED
  BY <1>1, <1>2, <1>3, <1>4, <1>5 DEF u, m, l, q, IsPlace

\* The porters of a PE of a tensor, by its digits.
LEMMA TensorHops ==
  ASSUME shape.order = 3, shape.local \in Nat \ {0}, NEW u \in Nat,
         NEW m \in 0 .. shape.local-1, NEW l \in 0 .. shape.local-1, NEW r \in Nat
  PROVE  LET p == Number(shape.local, u, m, l) IN
         /\ \A k \in {0, 2} : /\ Journey!Friend(k, p, r) = Number(shape.local, u, m, r)
                               /\ Journey!Me(k, p) = l
         /\ Journey!Friend(1, p, r) = Number(shape.local, r, l, m)
         /\ Journey!Me(1, p) = u
<1> SUFFICES ASSUME NEW n \in Nat \ {0}, n = shape.local
             PROVE  LET p == Number(n, u, m, l) IN
                    /\ \A k \in {0, 2} : /\ Journey!Friend(k, p, r) = Number(n, u, m, r)
                                          /\ Journey!Me(k, p) = l
                    /\ Journey!Friend(1, p, r) = Number(n, r, l, m)
                    /\ Journey!Me(1, p) = u
  OBVIOUS
<1> DEFINE p == Number(n, u, m, l)
<1>0. n \in Nat \ {0} /\ m \in 0 .. n-1 /\ l \in 0 .. n-1
  OBVIOUS
<1>1. /\ p \div n = n*u + m /\ p % n = l
      /\ (p \div n) % n = m /\ p \div (n*n) = u
  <2>1. p \div n = n*u + m
    BY <1>0, ThreeDigits
  <2>2. p % n = l
    BY <1>0, ThreeDigits
  <2>3. (p \div n) % n = m
    BY <1>0, ThreeDigits
  <2>4. p \div (n*n) = u
    BY <1>0, ThreeDigits
  <2> QED
    BY <2>1, <2>2, <2>3, <2>4
<1>2. /\ \A k \in {0, 2} : /\ Journey!Friend(k, p, r) = n * (p \div n) + r
                            /\ Journey!Me(k, p) = p % n
      /\ Journey!Friend(1, p, r) = n*n*r + n * (p % n) + ((p \div n) % n)
      /\ Journey!Me(1, p) = p \div (n*n)
  BY TensorGroups
<1>3. n \in Nat
  OBVIOUS
<1> HIDE DEF p
<1>4. n * (n*u + m) + r = Number(n, u, m, r)
  BY <1>3 DEF Number
<1>5. n*n*r + n*l + m = Number(n, r, l, m)
  BY DEF Number
<1> QED
  BY <1>1, <1>2, <1>4, <1>5 DEF p

-----------------------------------------------------------------------------
(* The invariant: after each hop, where the item is and what its packet says *)

OnVector ==
  hop = 0 => here = dest /\ source = src

\* The rank of the sender of an item, as the last packet of a matrix holds it.
LastTag == Journey!Kept(1, src % shape.local)

OnMatrix ==
  LET n == shape.local IN
  /\ hop = 0 => /\ here = n * (src \div n) + (dest % n)
                /\ source = src % n /\ tag = dest \div n
  /\ hop = 1 => here = dest /\ source = src \div n /\ tag = LastTag

OnTensor ==
  LET n == shape.local IN
  /\ hop = 0 => /\ here = Number(n, Upper(n, src), Middle(n, src), Middle(n, dest))
                /\ source = Lower(n, src)
                /\ tag = 256 * Upper(n, dest) + Lower(n, dest)
  /\ hop = 1 => /\ here = Number(n, Upper(n, dest), Middle(n, dest), Middle(n, src))
                /\ source = Upper(n, src)
                /\ tag = Lower(n, src) * Journey!FieldSize + Lower(n, dest)
  /\ hop = 2 => /\ here = dest /\ source = Middle(n, src)
                /\ tag = 256 * Upper(n, src) + Lower(n, src)

PathInv ==
  /\ shape \in Shapes /\ src \in shape.ends /\ dest \in shape.ends
  /\ hop \in -1 .. shape.order-1
  /\ hop = -1 => here = src
  /\ from # Journey!Nobody /\ Journey!SenderFits => from = src
  /\ shape.order = 1 => OnVector
  /\ shape.order = 2 => OnMatrix
  /\ shape.order = 3 => OnTensor

\* What the invariant tells of the conveyor and the ends of the way.
LEMMA ShapeFacts ==
  ASSUME PathInv
  PROVE  /\ shape.procs \in Nat \ {0} /\ shape.local \in Nat \ {0}
         /\ shape.order \in 1 .. 3
         /\ shape.elastic => ~shape.shrink
         /\ src \in 0 .. shape.procs-1 /\ dest \in 0 .. shape.procs-1
         /\ shape.order > 1 => shape.procs % shape.local = 0
         /\ shape.order = 3 => shape.local <= 256
<1>1. shape \in Shapes /\ src \in shape.ends /\ dest \in shape.ends
  BY DEF PathInv
<1>2. /\ shape.procs \in Nat \ {0} /\ shape.local \in Nat \ {0}
      /\ shape.order \in 1 .. 3 /\ shape.ends \subseteq 0 .. shape.procs-1
  BY <1>1, ShapesAssumption
<1>c. shape.elastic => ~shape.shrink
  BY <1>1, ShapesAssumption
<1>3. /\ shape.order > 1 => shape.procs % shape.local = 0
      /\ shape.order = 3 => shape.local <= 256
  BY <1>1, ShapesAssumption
<1>4. src \in 0 .. shape.procs-1 /\ dest \in 0 .. shape.procs-1
  BY <1>1, <1>2
<1> QED
  BY <1>2, <1>c, <1>3, <1>4

\* Both ends of the way have digits.
LEMMA TensorPlaces ==
  ASSUME PathInv, shape.order = 3
  PROVE  /\ IsPlace(shape.local, shape.procs, src)
         /\ IsPlace(shape.local, shape.procs, dest)
<1>1. /\ shape.local \in Nat \ {0} /\ shape.procs \in Nat \ {0}
      /\ shape.procs % shape.local = 0
      /\ src \in 0 .. shape.procs-1 /\ dest \in 0 .. shape.procs-1
  BY ShapeFacts
<1> QED
  BY <1>1, Place, Zenon

-----------------------------------------------------------------------------
(* Steps *)

\* What a move assigns.
LEMMA Moved ==
  ASSUME NEW k, NEW r, Journey!Move(k, r)
  PROVE  /\ here' = Journey!Friend(k, here, r.next) /\ source' = Journey!Me(k, here)
         /\ tag' = Journey!Kept(k, r.tag) /\ hop' = k
         /\ shape' = shape /\ src' = src /\ dest' = dest /\ from' = from
  BY DEF Journey!Move

\* The way of an item does not change what its sender's rank is nor whether it fits.
LEMMA SenderStays ==
  ASSUME shape' = shape, src' = src
  PROVE  LastTag' = LastTag /\ Journey!SenderFits' = Journey!SenderFits
BY DEF LastTag, Journey!SenderFits, Journey!Kept, Journey!TagBytes, Journey!n_rows, Journey!Me,
       Journey!IsLocal, Journey!squared

\* convey_push keeps the invariant.
LEMMA PushStep ==
  ASSUME PathInv, Journey!Push
  PROVE  PathInv'
<1>1. hop = -1 /\ Journey!Move(0, Journey!Route(dest))
  BY DEF Journey!Push
<1>2. /\ here' = Journey!Friend(0, here, Journey!Route(dest).next)
      /\ source' = Journey!Me(0, here)
      /\ tag' = Journey!Kept(0, Journey!Route(dest).tag) /\ hop' = 0
      /\ shape' = shape /\ src' = src /\ dest' = dest /\ from' = from
  BY <1>1, Moved
<1>3. here = src
  BY <1>1 DEF PathInv
<1>4. /\ shape' \in Shapes /\ src' \in shape'.ends /\ dest' \in shape'.ends
      /\ hop' \in -1 .. shape'.order-1 /\ (hop' = -1 => here' = src')
      /\ (from' # Journey!Nobody /\ Journey!SenderFits' => from' = src')
  <2>1. hop' \in -1 .. shape.order-1 /\ hop' # -1
    BY <1>2, ShapeFacts
  <2> QED
    BY <1>2, <2>1, SenderStays DEF PathInv
<1>5. ASSUME shape.order = 1 PROVE OnVector'
  <2>1. here' = dest /\ source' = src
    BY <1>2, <1>3, <1>5, VectorRoute
  <2> QED
    BY <1>2, <2>1 DEF OnVector
<1>6. ASSUME shape.order = 2 PROVE OnMatrix'
  <2> DEFINE n == shape.local
  <2>1. Journey!Route(dest) = [tag |-> dest \div n, next |-> dest % n]
    BY <1>6, MatrixTags
  <2>2. here' = n * (src \div n) + (dest % n) /\ source' = src % n
    BY <1>2, <1>3, <1>6, <2>1, MatrixGroups
  <2>3. dest \div n \in Nat
    <3>1. dest \in Nat /\ n \in Nat \ {0}
      BY ShapeFacts
    <3> QED
      BY <3>1, Divided
  <2>4. tag' = dest \div n
    BY <1>2, <1>6, <2>1, <2>3, ShapeFacts, MatrixKept
  <2>5. shape'.local = n /\ src' = src /\ dest' = dest /\ hop' # 1
    BY <1>2
  <2> QED
    BY <2>2, <2>4, <2>5 DEF OnMatrix
<1>7. ASSUME shape.order = 3 PROVE OnTensor'
  <2> DEFINE n == shape.local
  <2>1. Journey!Route(dest) =
          [tag  |-> 256 * Upper(n, dest) + Lower(n, dest),
           next |-> (dest \div n) - n * Upper(n, dest)]
    BY <1>7, TensorTags DEF Upper, Lower
  <2>2. n \in 1 .. 256 /\ n \in Nat \ {0}
    BY <1>7, ShapeFacts
  <2>3. /\ Upper(n, dest) \in Nat /\ Middle(n, dest) \in 0 .. n-1
        /\ Lower(n, dest) \in 0 .. n-1
        /\ (dest \div n) - n * Upper(n, dest) = Middle(n, dest)
    BY <1>7, TensorPlaces DEF IsPlace
  <2>4. /\ Upper(n, src) \in Nat /\ Middle(n, src) \in 0 .. n-1
        /\ Lower(n, src) \in 0 .. n-1
        /\ src = Number(n, Upper(n, src), Middle(n, src), Lower(n, src))
    BY <1>7, TensorPlaces DEF IsPlace
  <2>5. Journey!Route(dest).next = Middle(n, dest)
    BY <2>1, <2>3
  <2>6. /\ here' = Number(n, Upper(n, src), Middle(n, src), Middle(n, dest))
        /\ source' = Lower(n, src)
    BY <1>2, <1>3, <1>7, <2>2, <2>3, <2>4, <2>5, TensorHops
  <2>7. 256 * Upper(n, dest) + Lower(n, dest) \in Nat
    BY <2>3
  <2>8. tag' = 256 * Upper(n, dest) + Lower(n, dest)
    BY <1>2, <1>7, <2>1, <2>2, <2>7, ShapeFacts, TensorKept
  <2>9. shape'.local = n /\ src' = src /\ dest' = dest /\ hop' = 0
    BY <1>2
  <2> QED
    BY <2>6, <2>8, <2>9 DEF OnTensor
<1> QED
  BY <1>2, <1>4, <1>5, <1>6, <1>7 DEF PathInv

\* The matrix's one pivot.
LEMMA MatrixPivot ==
  ASSUME PathInv, shape.order = 2, hop = 0
  PROVE  /\ Journey!NextHop = [tag |-> src % shape.local, next |-> dest \div shape.local]
         /\ Journey!Friend(1, here, dest \div shape.local) = dest
         /\ Journey!Me(1, here) = src \div shape.local
         /\ dest \div shape.local \in 0 .. Journey!GroupSize(1)-1
<1> DEFINE n == shape.local
           a == src \div n
           d == dest \div n
           l == dest % n
<1>1. here = n * a + l /\ source = src % n /\ tag = d
  BY DEF PathInv, OnMatrix
<1>2. Journey!NextHop = [tag |-> src % n, next |-> d]
  BY <1>1, MatrixTags DEF Journey!NextHop
<1>3. /\ n \in Nat \ {0} /\ src \in Nat /\ dest \in Nat
      /\ shape.procs \in Nat \ {0} /\ shape.procs % n = 0
      /\ dest \in 0 .. shape.procs-1
  BY ShapeFacts
<1>4. a \in Nat /\ d \in Nat /\ l \in 0 .. n-1 /\ dest = n*d + l
  BY <1>3, Divided
<1>5. here \div n = a
  <2>1. n \in Nat \ {0} /\ a \in Nat /\ l \in 0 .. n-1 /\ here = n * a + l
    BY <1>1, <1>3, <1>4
  <2> HIDE DEF n, a, d, l
  <2>2. (n * a + l) \div n = a
    BY <2>1, TwoDigits, Zenon
  <2> QED
    BY <2>1, <2>2
<1>6. Journey!Friend(1, here, d) = here + (d - here \div n) * n /\ Journey!Me(1, here) = here \div n
  BY MatrixGroups
<1>7. here + (d - a) * n = dest
  <2> HIDE DEF n, a, d, l
  <2> QED
    BY <1>1, <1>3, <1>4
<1>8. d \in 0 .. Journey!GroupSize(1)-1
  <2>1. d \in 0 .. (shape.procs \div n)-1
    <3>1. 0 \in 0 .. n-1
      BY <1>3
    <3> QED
      BY <1>3, <3>1, Rows
  <2> QED
    BY <2>1, MatrixGroups
<1> QED
  BY <1>2, <1>5, <1>6, <1>7, <1>8

\* The first pivot of a tensor.
LEMMA TensorPivotMid ==
  ASSUME PathInv, shape.order = 3, hop = 0
  PROVE  LET n == shape.local
             t == Lower(n, src) * Journey!FieldSize + Lower(n, dest)
         IN /\ Journey!NextHop = [tag |-> t, next |-> Upper(n, dest)]
            /\ Journey!Kept(1, t) = t
<1> DEFINE n == shape.local
           F == Journey!FieldSize
           d == Upper(n, dest)
           l == Lower(n, dest)
<1>1. source = Lower(n, src) /\ tag = 256 * d + l
  BY DEF PathInv, OnTensor
<1>2. n \in 1 .. 256 /\ (shape.elastic => ~shape.shrink)
  BY ShapeFacts
<1>3. d \in Nat /\ l \in 0 .. n-1 /\ Lower(n, src) \in 0 .. n-1
  BY TensorPlaces DEF IsPlace
<1>4. tag % 256 = l /\ tag \div 256 = d
  <2>1. l \in 0 .. 256-1
    BY <1>2, <1>3
  <2> HIDE DEF d, l
  <2> QED
    BY <1>1, <1>3, <2>1
<1>5. ~shape.shrink => F = 256
  BY <1>2, TensorKept
<1>6. Journey!NextHop = IF shape.elastic
                      THEN [tag |-> source*256 + (tag % 256), next |-> tag \div 256]
                      ELSE [tag |-> source*F + (tag % 256), next |-> tag \div 256]
  <2>1. Journey!NextHop = IF shape.elastic THEN Journey!ElasticPivot(0, source, tag)
                        ELSE Journey!Pivot(0, source, tag)
    BY DEF Journey!NextHop
  <2>2. Journey!ElasticPivot(0, source, tag) =
          [tag |-> source*256 + (tag % 256), next |-> tag \div 256]
    BY TensorTags
  <2>3. Journey!Pivot(0, source, tag) =
          [tag |-> source*F + (tag % 256), next |-> tag \div 256]
    BY 3 # 1, 3 # 2, 0 # 1, Zenon DEF Journey!Pivot
  <2> QED
    BY <2>1, <2>2, <2>3, Zenon
<1>7. Journey!NextHop = [tag |-> source*F + (tag % 256), next |-> tag \div 256]
  BY <1>2, <1>5, <1>6
<1>8. Journey!Kept(1, Lower(n, src) * F + l) = Lower(n, src) * F + l
  BY <1>2, <1>3, TensorKept
<1> QED
  BY <1>1, <1>4, <1>7, <1>8

\* The second pivot of a tensor.
LEMMA TensorPivotLate ==
  ASSUME PathInv, shape.order = 3, hop = 1
  PROVE  LET n == shape.local
             t == 256 * Upper(n, src) + Lower(n, src)
         IN /\ Journey!NextHop = [tag |-> t, next |-> Lower(n, dest)]
            /\ Journey!Kept(2, t) = t
<1> DEFINE n == shape.local
           F == Journey!FieldSize
           l == Lower(n, dest)
           b == Lower(n, src)
           u == Upper(n, src)
<1>1. source = u /\ tag = b*F + l
  BY DEF PathInv, OnTensor
<1>2. n \in 1 .. 256 /\ (shape.elastic => ~shape.shrink)
  BY ShapeFacts
<1>3. u \in Nat /\ l \in 0 .. n-1 /\ b \in 0 .. n-1
  BY TensorPlaces DEF IsPlace
<1>4. F \in {16, 256} /\ n <= F
  BY <1>2, TensorKept
<1>5. tag % F = l /\ tag \div F = b
  <2>1. l \in 0 .. F-1 /\ F \in Nat \ {0} /\ b \in Nat
    BY <1>2, <1>3, <1>4
  <2> HIDE DEF F, b, l
  <2>2. CASE F = 16
    BY <1>1, <2>1, <2>2
  <2>3. CASE F = 256
    BY <1>1, <2>1, <2>3
  <2> QED
    BY <1>4, <2>2, <2>3
<1>6. ~shape.shrink => F = 256
  BY <1>2, TensorKept
<1>7. Journey!NextHop = IF shape.elastic
                      THEN [tag |-> source*256 + (tag \div 256), next |-> tag % 256]
                      ELSE [tag |-> source*256 + (tag \div F), next |-> tag % F]
  <2>1. Journey!NextHop = IF shape.elastic THEN Journey!ElasticPivot(1, source, tag)
                        ELSE Journey!Pivot(1, source, tag)
    BY DEF Journey!NextHop
  <2>2. Journey!ElasticPivot(1, source, tag) =
          [tag |-> source*256 + (tag \div 256), next |-> tag % 256]
    BY TensorTags
  <2>3. Journey!Pivot(1, source, tag) =
          [tag |-> source*256 + (tag \div F), next |-> tag % F]
    BY TensorTags
  <2> QED
    BY <2>1, <2>2, <2>3, Zenon
<1>8. Journey!NextHop = [tag |-> source*256 + (tag \div F), next |-> tag % F]
  BY <1>2, <1>6, <1>7
<1>9. u*256 + b = 256*u + b /\ 256*u + b \in Nat
  BY <1>3
<1>10. Journey!Kept(2, 256*u + b) = 256*u + b
  BY <1>2, <1>9, TensorKept
<1> QED
  BY <1>1, <1>5, <1>8, <1>9, <1>10

\* The pivots keep the invariant.
LEMMA PivotStep ==
  ASSUME PathInv, Journey!PivotOn
  PROVE  PathInv'
<1>1. hop \in 0 .. shape.order-2 /\ Journey!Move(hop + 1, Journey!NextHop)
  BY DEF Journey!PivotOn
<1>2. /\ here' = Journey!Friend(hop + 1, here, Journey!NextHop.next)
      /\ source' = Journey!Me(hop + 1, here)
      /\ tag' = Journey!Kept(hop + 1, Journey!NextHop.tag) /\ hop' = hop + 1
      /\ shape' = shape /\ src' = src /\ dest' = dest /\ from' = from
  BY <1>1, Moved
<1>3. shape.order \in 1 .. 3
  BY ShapeFacts
<1>4. /\ shape' \in Shapes /\ src' \in shape'.ends /\ dest' \in shape'.ends
      /\ hop' \in -1 .. shape'.order-1 /\ (hop' = -1 => here' = src')
      /\ (from' # Journey!Nobody /\ Journey!SenderFits' => from' = src')
  <2>1. hop' \in -1 .. shape.order-1 /\ hop' # -1
    BY <1>1, <1>2, <1>3
  <2> QED
    BY <1>2, <2>1, SenderStays DEF PathInv
<1>5. shape.order # 1
  BY <1>1, <1>3
<1>6. ASSUME shape.order = 2 PROVE OnMatrix'
  <2>1. hop = 0
    BY <1>1, <1>6
  <2>2. hop + 1 = 1
    BY <2>1
  <2>3. /\ Journey!NextHop = [tag |-> src % shape.local, next |-> dest \div shape.local]
        /\ Journey!Friend(1, here, dest \div shape.local) = dest
        /\ Journey!Me(1, here) = src \div shape.local
    BY <1>6, <2>1, MatrixPivot
  <2>4. hop' = 1 /\ here' = dest /\ source' = src \div shape.local
        /\ tag' = LastTag
    BY <1>2, <2>2, <2>3 DEF LastTag
  <2>5. shape'.local = shape.local /\ src' = src /\ dest' = dest /\ LastTag' = LastTag
    BY <1>2, SenderStays
  <2> QED
    BY <2>4, <2>5 DEF OnMatrix
<1>7. ASSUME shape.order = 3, hop = 0 PROVE OnTensor'
  <2> DEFINE n == shape.local
  <2>1. hop + 1 = 1
    BY <1>7
  <2>2. /\ Journey!NextHop.next = Upper(n, dest)
        /\ Journey!NextHop.tag = Lower(n, src) * Journey!FieldSize + Lower(n, dest)
        /\ Journey!Kept(1, Journey!NextHop.tag) = Journey!NextHop.tag
    BY <1>7, TensorPivotMid
  <2>3. here = Number(n, Upper(n, src), Middle(n, src), Middle(n, dest))
    BY <1>7 DEF PathInv, OnTensor
  <2>4. /\ Upper(n, src) \in Nat /\ Upper(n, dest) \in Nat
        /\ Middle(n, src) \in 0 .. n-1 /\ Middle(n, dest) \in 0 .. n-1
    BY <1>7, TensorPlaces DEF IsPlace
  <2>5. n \in Nat \ {0}
    BY ShapeFacts
  <2>6. /\ Journey!Friend(1, here, Upper(n, dest))
             = Number(n, Upper(n, dest), Middle(n, dest), Middle(n, src))
        /\ Journey!Me(1, here) = Upper(n, src)
    BY <1>7, <2>3, <2>4, <2>5, TensorHops
  <2>7. /\ hop' = 1
        /\ here' = Number(n, Upper(n, dest), Middle(n, dest), Middle(n, src))
        /\ source' = Upper(n, src)
        /\ tag' = Lower(n, src) * Journey!FieldSize + Lower(n, dest)
    BY <1>2, <2>1, <2>2, <2>6
  <2>8. shape'.local = n /\ src' = src /\ dest' = dest
    BY <1>2
  <2>9. (Journey!FieldSize)' = Journey!FieldSize
    BY <1>2 DEF Journey!FieldSize, Journey!TagBytes, Journey!n_rows
  <2> QED
    BY <2>7, <2>8, <2>9 DEF OnTensor
<1>8. ASSUME shape.order = 3, hop = 1 PROVE OnTensor'
  <2> DEFINE n == shape.local
  <2>1. hop + 1 = 2
    BY <1>8
  <2>2. /\ Journey!NextHop.next = Lower(n, dest)
        /\ Journey!NextHop.tag = 256 * Upper(n, src) + Lower(n, src)
        /\ Journey!Kept(2, Journey!NextHop.tag) = Journey!NextHop.tag
    BY <1>8, TensorPivotLate
  <2>3. here = Number(n, Upper(n, dest), Middle(n, dest), Middle(n, src))
    BY <1>8 DEF PathInv, OnTensor
  <2>4. /\ Upper(n, dest) \in Nat /\ Lower(n, dest) \in 0 .. n-1
        /\ Middle(n, src) \in 0 .. n-1 /\ Middle(n, dest) \in 0 .. n-1
        /\ dest = Number(n, Upper(n, dest), Middle(n, dest), Lower(n, dest))
    BY <1>8, TensorPlaces DEF IsPlace
  <2>5. n \in Nat \ {0} /\ Lower(n, dest) \in Nat
    BY <2>4, ShapeFacts
  <2>6. Journey!Friend(2, here, Lower(n, dest)) = dest /\ Journey!Me(2, here) = Middle(n, src)
    BY <1>8, <2>3, <2>4, <2>5, TensorHops
  <2>7. /\ hop' = 2 /\ here' = dest /\ source' = Middle(n, src)
        /\ tag' = 256 * Upper(n, src) + Lower(n, src)
    BY <1>2, <2>1, <2>2, <2>6
  <2>8. shape'.local = n /\ src' = src /\ dest' = dest
    BY <1>2
  <2> QED
    BY <2>7, <2>8 DEF OnTensor
<1>9. shape.order = 3 => OnTensor'
  BY <1>1, <1>7, <1>8
<1> QED
  BY <1>2, <1>4, <1>5, <1>6, <1>9 DEF PathInv

\* The rank of the sender of an item in a matrix.
LEMMA MatrixRank ==
  ASSUME shape.order = 2
  PROVE  Journey!Me(0, src) = src % shape.local
BY DEF Journey!Me, Journey!IsLocal

\* What the last packet tells the puller is the PE that pushed the item, if its
\* tag has room for it.
LEMMA OriginFound ==
  ASSUME PathInv, hop = shape.order-1
  PROVE  /\ Journey!SenderFits => Journey!origin_from_tag(tag, source) = src
         /\ here = dest
<1>1. shape.order \in 1 .. 3 /\ shape.local \in Nat \ {0} /\ src \in Nat
  BY ShapeFacts
<1>2. CASE shape.order = 1
  <2>1. here = dest /\ source = src
    BY <1>2 DEF PathInv, OnVector
  <2> QED
    BY <1>2, <2>1, VectorRoute
<1>3. CASE shape.order = 2
  <2>1. here = dest /\ source = src \div shape.local /\ tag = LastTag
    BY <1>3 DEF PathInv, OnMatrix
  <2>4. Journey!SenderFits => tag = src % shape.local
    BY <1>3, <2>1, MatrixRank DEF LastTag, Journey!SenderFits
  <2>2. Journey!origin_from_tag(tag, source) = source * shape.local + tag
    BY <1>3, MatrixTags
  <2>3. src = shape.local * (src \div shape.local) + (src % shape.local)
        /\ src \div shape.local \in Nat
    BY <1>1, Divided
  <2> QED
    BY <1>1, <2>1, <2>2, <2>3, <2>4
<1>4. CASE shape.order = 3
  <2> DEFINE n == shape.local
             u == Upper(n, src)
             m == Middle(n, src)
             l == Lower(n, src)
  <2>1. here = dest /\ source = m /\ tag = 256 * u + l
    BY <1>4 DEF PathInv, OnTensor
  <2>2. Journey!origin_from_tag(tag, source) = n*n * (tag \div 256) + n*source + (tag % 256)
    <3>1. 3 # 1 /\ 3 # 2
      OBVIOUS
    <3> QED
      BY <1>4, <3>1, Zenon DEF Journey!origin_from_tag, Journey!squared
  <2>3. u \in Nat /\ m \in 0 .. n-1 /\ l \in 0 .. n-1 /\ src = Number(n, u, m, l)
    BY <1>4, TensorPlaces DEF IsPlace
  <2>4. n <= 256
    BY <1>4, ShapeFacts
  <2>5. tag \div 256 = u /\ tag % 256 = l
    <3>1. l \in 0 .. 255
      BY <1>1, <2>3, <2>4
    <3> HIDE DEF n, u, m, l
    <3> QED
      BY <2>1, <2>3, <3>1
  <2> HIDE DEF n, u, m, l
  <2> QED
    BY <2>1, <2>2, <2>3, <2>5 DEF Number
<1> QED
  BY <1>1, <1>2, <1>3, <1>4

\* convey_pull keeps the invariant.
LEMMA PullStep ==
  ASSUME PathInv, Journey!Pull
  PROVE  PathInv'
<1>1. /\ hop = shape.order-1 /\ from' = Journey!origin_from_tag(tag, source)
      /\ shape' = shape /\ src' = src /\ dest' = dest /\ here' = here
      /\ hop' = hop /\ source' = source /\ tag' = tag
  BY DEF Journey!Pull
<1>2. Journey!SenderFits => from' = src
  BY <1>1, OriginFound
<1>3. /\ shape' \in Shapes /\ src' \in shape'.ends /\ dest' \in shape'.ends
      /\ hop' \in -1 .. shape'.order-1 /\ (hop' = -1 => here' = src')
      /\ (from' # Journey!Nobody /\ Journey!SenderFits' => from' = src')
  BY <1>1, <1>2, SenderStays DEF PathInv
<1>4. shape.order = 1 => OnVector'
  BY <1>1 DEF PathInv, OnVector
<1>5. shape.order = 2 => OnMatrix'
  BY <1>1, SenderStays DEF PathInv, OnMatrix
<1>6. shape.order = 3 => OnTensor'
  <2>1. (Journey!FieldSize)' = Journey!FieldSize
    BY <1>1 DEF Journey!FieldSize, Journey!TagBytes, Journey!n_rows
  <2> QED
    BY <1>1, <2>1 DEF PathInv, OnTensor
<1> QED
  BY <1>1, <1>3, <1>4, <1>5, <1>6 DEF PathInv

\* The invariant of the composition.
RouteInv == kernel = "route" => PathInv

\* The item has not left.
LEMMA RouteInit == KernelInit => RouteInv
<1> SUFFICES ASSUME KernelInit, kernel = "route" PROVE PathInv
  BY DEF RouteInv
<1>1. Journey!Init
  BY DEF KernelInit
<1>2. /\ shape \in Shapes /\ src \in shape.ends /\ dest \in shape.ends
      /\ here = src /\ hop = -1 /\ from = Journey!Nobody
  BY <1>1 DEF Journey!Init
<1>3. shape.order \in 1 .. 3
  BY <1>2, ShapesAssumption
<1>4. hop \in -1 .. shape.order-1 /\ hop # 0 /\ hop # 1 /\ hop # 2
  BY <1>2, <1>3
<1> QED
  BY <1>2, <1>4 DEF PathInv, OnVector, OnMatrix, OnTensor

\* The other kernels do not touch the item.
LEMMA RouteNext == RouteInv /\ [KernelNext]_kernelvars => RouteInv'
<1> SUFFICES ASSUME RouteInv, [KernelNext]_kernelvars, kernel' = "route" PROVE PathInv'
  BY DEF RouteInv
<1>1. CASE RouteStep
  <2>1. kernel = "route" /\ PathInv
    BY <1>1 DEF RouteStep, RouteInv
  <2>2. Journey!Push \/ Journey!PivotOn \/ Journey!Pull
    BY <1>1 DEF RouteStep
  <2> QED
    BY <2>1, <2>2, PushStep, PivotStep, PullStep
<1>2. ASSUME kernel' = kernel, UNCHANGED routeVars PROVE PathInv'
  <2>1. PathInv
    BY <1>2 DEF RouteInv
  <2>2. /\ shape' = shape /\ src' = src /\ dest' = dest /\ here' = here
        /\ hop' = hop /\ source' = source /\ tag' = tag /\ from' = from
    BY <1>2 DEF routeVars
  <2>3. (Journey!FieldSize)' = Journey!FieldSize
    BY <2>2 DEF Journey!FieldSize, Journey!TagBytes, Journey!n_rows
  <2> QED
    BY <2>1, <2>2, <2>3, SenderStays DEF PathInv, OnVector, OnMatrix, OnTensor
<1>3. CASE ParamsStep
  BY <1>2, <1>3 DEF ParamsStep
<1>4. CASE CodecStep
  BY <1>2, <1>4 DEF CodecStep
<1>5. CASE AccelStep
  BY <1>2, <1>5 DEF AccelStep
<1>6. CASE DivisionStep
  BY <1>2, <1>6 DEF DivisionStep
<1>7. CASE UNCHANGED kernelvars
  BY <1>2, <1>7 DEF kernelvars
<1> QED
  BY <1>1, <1>3, <1>4, <1>5, <1>6, <1>7 DEF KernelNext

-----------------------------------------------------------------------------
(* What follows from the invariant *)

\* The item is at a PE that exists.
LEMMA AtExists ==
  ASSUME PathInv
  PROVE  here \in 0 .. shape.procs-1
<1>1. /\ shape.order \in 1 .. 3 /\ hop \in -1 .. shape.order-1
      /\ src \in 0 .. shape.procs-1 /\ dest \in 0 .. shape.procs-1
      /\ (hop = -1 => here = src) /\ (hop = shape.order-1 => here = dest)
  BY ShapeFacts, OriginFound DEF PathInv
<1>2. CASE shape.order = 2 /\ hop = 0
  <2> DEFINE n == shape.local
             c == shape.procs
             r == dest % n
  <2>1. here = n * (src \div n) + r
    BY <1>2 DEF PathInv, OnMatrix
  <2>2. /\ n \in Nat \ {0} /\ c \in Nat \ {0} /\ c % n = 0 /\ dest \in Nat
        /\ src \in 0 .. c-1
    BY <1>2, ShapeFacts
  <2>3. r \in 0 .. n-1
    BY <2>2, Divided
  <2> HIDE DEF n, c, r
  <2>4. n * (src \div n) + r \in 0 .. c-1
    BY <2>2, <2>3, Rows
  <2> QED
    BY <2>1, <2>4 DEF c
<1>3. CASE shape.order = 3 /\ hop = 0
  <2>1. here = Number(shape.local, Upper(shape.local, src), Middle(shape.local, src),
                    Middle(shape.local, dest))
    BY <1>3 DEF PathInv, OnTensor
  <2> QED
    BY <1>3, <2>1, TensorPlaces DEF IsPlace
<1>4. CASE shape.order = 3 /\ hop = 1
  <2>1. here = Number(shape.local, Upper(shape.local, dest), Middle(shape.local, dest),
                    Middle(shape.local, src))
    BY <1>4 DEF PathInv, OnTensor
  <2> QED
    BY <1>4, <2>1, TensorPlaces DEF IsPlace
<1>5. \/ hop = -1 \/ hop = shape.order-1
      \/ shape.order = 2 /\ hop = 0
      \/ (shape.order = 3 /\ hop = 0) \/ (shape.order = 3 /\ hop = 1)
  <2>1. CASE shape.order = 1
    BY <1>1, <2>1
  <2>2. CASE shape.order = 2
    <3>1. hop = -1 \/ hop = 0 \/ hop = shape.order-1
      BY <1>1, <2>2
    <3> QED
      BY <2>2, <3>1
  <2>3. CASE shape.order = 3
    <3>1. hop = -1 \/ hop = 0 \/ hop = 1 \/ hop = shape.order-1
      BY <1>1, <2>3
    <3> QED
      BY <2>3, <3>1
  <2> QED
    BY <1>1, <2>1, <2>2, <2>3
<1> QED
  BY <1>1, <1>2, <1>3, <1>4, <1>5

\* Both ends of a hop agree on it.
LEMMA Mutual ==
  ASSUME PathInv, NEW k \in 0 .. shape.order-1
  PROVE  Journey!Friend(k, Journey!Friend(k, here, Journey!Me(k, dest)), Journey!Me(k, here)) = here
<1>1. shape.order \in 1 .. 3
  BY ShapeFacts
<1>2. /\ shape.local \in Nat \ {0} /\ here \in Nat /\ dest \in Nat
      /\ here \in 0 .. shape.procs-1
  BY ShapeFacts, AtExists
<1>3. CASE shape.order = 1
  BY <1>3, VectorRoute
<1>4. CASE shape.order = 2
  <2> DEFINE n == shape.local
             a == here \div n
             l == here % n
             d == dest \div n
             r == dest % n
  <2>1. /\ here = n*a + l /\ a \in Nat /\ l \in 0 .. n-1
        /\ dest = n*d + r /\ d \in Nat /\ r \in 0 .. n-1
    BY <1>2, Divided
  <2>2. CASE k = 0
    <3>1. Journey!Me(0, dest) = r /\ Journey!Me(0, here) = l /\ Journey!Friend(0, here, r) = n*a + r
      BY <1>4, MatrixGroups
    <3>2. Journey!Friend(0, n*a + r, l) = n * ((n*a + r) \div n) + l
      BY <1>4, MatrixGroups
    <3>3. (n*a + r) \div n = a
      <4>1. n \in Nat \ {0} /\ a \in Nat /\ r \in 0 .. n-1
        BY <1>2, <2>1
      <4> HIDE DEF n, a, r
      <4> QED
        BY <4>1, TwoDigits, Zenon
    <3> QED
      BY <2>1, <2>2, <3>1, <3>2, <3>3
  <2>3. CASE k = 1
    <3>1. /\ Journey!Me(1, dest) = d /\ Journey!Me(1, here) = a
          /\ Journey!Friend(1, here, d) = here + (d - a) * n
      BY <1>4, MatrixGroups
    <3>2. here + (d - a) * n = n*d + l
      <4> HIDE DEF n, a, d, l, r
      <4> QED
        BY <1>2, <2>1 DEF n
    <3>3. Journey!Friend(1, n*d + l, a) = (n*d + l) + (a - (n*d + l) \div n) * n
      BY <1>4, MatrixGroups
    <3>4. (n*d + l) \div n = d
      <4>1. n \in Nat \ {0} /\ d \in Nat /\ l \in 0 .. n-1
        BY <1>2, <2>1
      <4> HIDE DEF n, d, l
      <4> QED
        BY <4>1, TwoDigits, Zenon
    <3>5. (n*d + l) + (a - d) * n = n*a + l
      <4> HIDE DEF n, a, d, l, r
      <4> QED
        BY <1>2, <2>1 DEF n
    <3> QED
      BY <2>1, <2>3, <3>1, <3>2, <3>3, <3>4, <3>5
  <2> QED
    BY <1>4, <2>2, <2>3
<1>5. CASE shape.order = 3
  <2> DEFINE n == shape.local
             u == Upper(n, here)
             m == Middle(n, here)
             l == Lower(n, here)
             d == Upper(n, dest)
             r == Lower(n, dest)
  <2>1. IsPlace(n, shape.procs, here) /\ IsPlace(n, shape.procs, dest)
    <3>1. /\ n \in Nat \ {0} /\ shape.procs \in Nat \ {0} /\ shape.procs % n = 0
          /\ here \in 0 .. shape.procs-1 /\ dest \in 0 .. shape.procs-1
      BY <1>2, <1>5, ShapeFacts
    <3> QED
      BY <3>1, Place, Zenon
  <2>2. /\ here = Number(n, u, m, l) /\ u \in Nat /\ m \in 0 .. n-1 /\ l \in 0 .. n-1
        /\ d \in Nat /\ r \in 0 .. n-1
    BY <2>1 DEF IsPlace
  <2>3. /\ Journey!Me(1, here) = u /\ Journey!Me(1, dest) = d
        /\ \A j \in {0, 2} : Journey!Me(j, here) = l /\ Journey!Me(j, dest) = r
    BY <1>5, TensorGroups DEF Upper, Lower
  <2>4. n \in Nat \ {0} /\ l \in Nat /\ r \in Nat
    BY <1>2, <2>2
  <2>5. CASE k = 1
    <3>1. Journey!Friend(1, here, d) = Number(n, d, l, m)
      BY <1>5, <2>2, <2>4, TensorHops
    <3>2. Journey!Friend(1, Number(n, d, l, m), u) = Number(n, u, m, l)
      BY <1>5, <2>2, <2>4, TensorHops
    <3> QED
      BY <2>2, <2>3, <2>5, <3>1, <3>2
  <2>6. CASE k \in {0, 2}
    <3>1. Journey!Friend(k, here, r) = Number(n, u, m, r)
      BY <1>5, <2>2, <2>4, <2>6, TensorHops
    <3>2. Journey!Friend(k, Number(n, u, m, r), l) = Number(n, u, m, l)
      BY <1>5, <2>2, <2>4, <2>6, TensorHops
    <3> QED
      BY <2>2, <2>3, <2>6, <3>1, <3>2
  <2> QED
    BY <1>5, <2>5, <2>6
<1> QED
  BY <1>1, <1>3, <1>4, <1>5

\* The source is a rank of the group that the item came through.
LEMMA SourceExists ==
  ASSUME PathInv, hop # -1
  PROVE  source \in 0 .. Journey!GroupSize(hop)-1
<1>1. /\ shape.order \in 1 .. 3 /\ hop \in 0 .. shape.order-1
      /\ shape.local \in Nat \ {0} /\ src \in 0 .. shape.procs-1
      /\ shape.procs \in Nat \ {0}
  BY ShapeFacts DEF PathInv
<1>2. CASE shape.order = 1
  <2>1. hop = 0 /\ source = src
    BY <1>1, <1>2 DEF PathInv, OnVector
  <2> QED
    BY <1>1, <1>2, <2>1, VectorRoute
<1>3. CASE shape.order = 2 /\ hop = 0
  <2>1. source = src % shape.local /\ Journey!GroupSize(0) = shape.local
    BY <1>3, MatrixGroups DEF PathInv, OnMatrix
  <2>2. src \in Nat
    BY <1>1
  <2> QED
    BY <1>1, <1>3, <2>1, <2>2, Divided
<1>4. CASE shape.order = 2 /\ hop = 1
  <2> DEFINE n == shape.local
             c == shape.procs
  <2>1. source = src \div n /\ Journey!GroupSize(1) = c \div n
    BY <1>4, MatrixGroups DEF PathInv, OnMatrix
  <2>2. /\ n \in Nat \ {0} /\ c \in Nat \ {0} /\ c % n = 0 /\ 0 \in 0 .. n-1
        /\ src \in 0 .. c-1
    BY <1>1, <1>4, ShapeFacts
  <2>3. src \div n \in 0 .. (c \div n)-1
    <3> HIDE DEF n, c
    <3> QED
      BY <2>2, Rows
  <2> QED
    BY <1>4, <2>1, <2>3
<1>5. CASE shape.order = 3
  <2> DEFINE n == shape.local
  <2>1. /\ Journey!GroupSize(0) = n /\ Journey!GroupSize(2) = n
        /\ Journey!GroupSize(1) = 1 + (shape.procs-1) \div (n*n)
    BY <1>5, TensorGroups
  <2>2. /\ Upper(n, src) \in 0 .. (shape.procs-1) \div (n*n)
        /\ Middle(n, src) \in 0 .. n-1 /\ Lower(n, src) \in 0 .. n-1
    BY <1>5, TensorPlaces DEF IsPlace
  <2>3. /\ hop = 0 => source = Lower(n, src)
        /\ hop = 1 => source = Upper(n, src)
        /\ hop = 2 => source = Middle(n, src)
    BY <1>5 DEF PathInv, OnTensor
  <2>4. hop = 0 \/ hop = 1 \/ hop = 2
    BY <1>1, <1>5
  <2>5. (shape.procs-1) \div (n*n) \in Nat
    <3>1. n*n \in Nat \ {0} /\ shape.procs-1 \in Nat
      BY <1>1
    <3> QED
      BY <3>1, Divided
  <2>6. ASSUME NEW w \in Nat, NEW x \in 0 .. w PROVE x \in 0 .. (1 + w)-1
    BY <2>6
  <2>7. Upper(n, src) \in 0 .. (1 + (shape.procs-1) \div (n*n)) - 1
    BY <2>2, <2>5, <2>6
  <2> QED
    BY <2>1, <2>2, <2>3, <2>4, <2>7
<1> QED
  BY <1>1, <1>2, <1>3, <1>4, <1>5

\* The next rank is one of the group that the item goes through.
LEMMA NextExists ==
  ASSUME PathInv, hop \in 0 .. shape.order-2
  PROVE  Journey!NextHop.next \in 0 .. Journey!GroupSize(hop+1)-1
<1>1. shape.order \in 1 .. 3 /\ shape.local \in Nat \ {0} /\ shape.procs \in Nat \ {0}
  BY ShapeFacts
<1>2. CASE shape.order = 2
  <2>1. hop = 0 /\ hop + 1 = 1
    BY <1>2
  <2> QED
    BY <1>2, <2>1, MatrixPivot
<1>3. CASE shape.order = 3 /\ hop = 0
  <2> DEFINE n == shape.local
             w == (shape.procs-1) \div (n*n)
  <2>1. Journey!NextHop.next = Upper(n, dest) /\ hop + 1 = 1
    BY <1>3, TensorPivotMid
  <2>2. Upper(n, dest) \in 0 .. w
    BY <1>3, TensorPlaces DEF IsPlace
  <2>3. Journey!GroupSize(1) = 1 + w
    BY <1>3, TensorGroups
  <2>4. w \in Nat
    <3>1. n*n \in Nat \ {0} /\ shape.procs-1 \in Nat
      BY <1>1
    <3> QED
      BY <3>1, Divided
  <2> HIDE DEF w
  <2>5. (1 + w)-1 = w
    BY <2>4
  <2> QED
    BY <2>1, <2>2, <2>3, <2>5
<1>4. CASE shape.order = 3 /\ hop = 1
  <2>1. Journey!NextHop.next = Lower(shape.local, dest) /\ hop + 1 = 2
    BY <1>4, TensorPivotLate
  <2>2. Lower(shape.local, dest) \in 0 .. shape.local-1
    BY <1>4, TensorPlaces DEF IsPlace
  <2>3. Journey!GroupSize(2) = shape.local
    BY <1>4, TensorGroups
  <2> QED
    BY <2>1, <2>2, <2>3
<1> QED
  BY <1>1, <1>2, <1>3, <1>4

\* In a conveyor of any size and order, elastic or not, an item reaches the PE
\* it is for; every hop on the way leads to a rank of its group and to a PE that
\* exists, and both ends agree on it; and the puller learns which PE pushed it if
\* the tag has room for the rank of the sender.
THEOREM ItemsArriveHolds == KernelSpec => []ItemsArrive
<1>1. RouteInv => ItemsArrive
  <2> SUFFICES ASSUME PathInv
               PROVE  /\ Journey!RightPlace /\ Journey!RanksExist /\ Journey!HopsAreMutual
                      /\ Journey!SenderFits => Journey!RightOrigin
    BY DEF RouteInv, ItemsArrive
  <2>1. Journey!RightPlace
    BY OriginFound DEF Journey!RightPlace
  <2>2. Journey!SenderFits => Journey!RightOrigin
    BY DEF Journey!RightOrigin, PathInv
  <2>3. Journey!RanksExist
    BY AtExists, SourceExists, NextExists DEF Journey!RanksExist, Journey!Procs
  <2>4. Journey!HopsAreMutual
    BY Mutual DEF Journey!HopsAreMutual, Journey!Hop
  <2> QED
    BY <2>1, <2>2, <2>3, <2>4
<1> QED
  BY <1>1, RouteInit, RouteNext, PTL DEF KernelSpec

\* The matrices whose tags hold the rank of every sender: the local groups have
\* no more than 256 PEs, or there are more than 256 groups, or tags are long.
NarrowMatrices ==
  \A h \in Shapes : h.order = 2 /\ h.shrink => h.local <= 256 \/ h.procs \div h.local > 256

\* Where no matrix has wider groups, the puller of every item learns which PE
\* pushed it: the shapes that the constructor would have to reject are the only
\* ones that break the promise of convey_pull().
THEOREM OriginsFoundIfNarrow ==
  ASSUME NarrowMatrices
  PROVE  KernelSpec => []OriginsFound
<1>1. RouteInv => OriginsFound
  <2> SUFFICES ASSUME PathInv PROVE Journey!RightOrigin
    BY DEF RouteInv, OriginsFound
  <2>1. ASSUME shape.order = 2 PROVE Journey!Kept(1, Journey!Me(0, src)) = Journey!Me(0, src)
    <3>1. shape \in Shapes
      BY DEF PathInv
    <3>2. shape.shrink => shape.local <= 256 \/ shape.procs \div shape.local > 256
      BY <2>1, <3>1, NarrowMatrices DEF NarrowMatrices
    <3>3. /\ shape.local \in Nat \ {0} /\ shape.procs \in Nat /\ src \in Nat
      BY ShapeFacts
    <3>4. src % shape.local \in 0 .. shape.local-1
      BY <3>3, Divided
    <3>5. Journey!Kept(1, src % shape.local) = src % shape.local
      BY <2>1, <3>2, <3>3, <3>4, NarrowKept
    <3> QED
      BY <2>1, <3>5, MatrixRank
  <2>2. Journey!SenderFits
    BY <2>1 DEF Journey!SenderFits
  <2> QED
    BY <2>2 DEF PathInv, Journey!RightOrigin
<1> QED
  BY <1>1, RouteInit, RouteNext, PTL DEF KernelSpec
-----------------------------------------------------------------------------
(* The methods of an accelerated conveyor *)

\* The functions that are compiled for items of a size are those that fill the
\* tables at its index.
LEMMA IndexOfItem ==
  ASSUME NEW item \in Nat \ {0}
  PROVE  /\ Accel!item_index(item) \in Int
         /\ Accel!item_index(item) < 0 \/ Accel!Item(Accel!item_index(item)) = item
<1>1. CASE item > 32 \/ item % 4 # 0
  BY <1>1 DEF Accel!item_index
<1>2. CASE ~(item > 32 \/ item % 4 # 0)
  <2>1. Accel!item_index(item) = item \div 4 - 1
    BY <1>2 DEF Accel!item_index
  <2>2. item = 4 * (item \div 4) /\ item \div 4 \in Nat /\ item \div 4 >= 1
    BY <1>2
  <2> QED
    BY <2>1, <2>2 DEF Accel!Item
<1> QED
  BY <1>1, <1>2

\* The stride that a method is compiled for is that of the porter.
LEMMA StrideOfPacket ==
  ASSUME NEW t \in {0, 1, 2, 4}, NEW item \in Nat
  PROVE  Accel!Packet(t, item) = Accel!porter_stride(t, item)
<1>1. CASE t = 0
  BY <1>1 DEF Accel!Packet, Accel!porter_stride
<1>2. CASE t # 0
  <2> DEFINE units == (item + t - 1) \div t
  <2>1. units \in Int
    BY <1>2
  <2>2. Accel!Packet(t, item) = t * (1 + units)
    BY <1>2 DEF Accel!Packet
  <2>3. Accel!porter_stride(t, item) = t + t * units
    BY <1>2 DEF Accel!porter_stride
  <2> HIDE DEF units
  <2> QED
    BY <2>1, <2>2, <2>3
<1> QED
  BY <1>1, <1>2

\* A push method that is chosen is one for the conveyor, its tags and its items.
LEMMA PushSelected ==
  ASSUME NEW ord \in 1 .. 3, NEW t \in {0, 1, 2, 4}, NEW item \in Nat \ {0}
  PROVE  Accel!select_push(ord, t, item) \in {Accel!NULL, Accel!Push(ord, t, item)}
<1> DEFINE i == Accel!item_index(item)
           m == Accel!select_push(ord, t, item)
<1>1. CASE i < 0
  <2>1. m = Accel!NULL
    BY <1>1, IndexOfItem DEF Accel!select_push
  <2> QED
    BY <2>1
<1>2. CASE ~(i < 0)
  <2>1. Accel!Item(i) = item /\ i \in Nat /\ i >= 0 /\ ~(i < 0)
    BY <1>2, IndexOfItem
  <2> HIDE DEF i
  <2>2. /\ Accel!push_functions(i)[1] = Accel!Push(1, 0, item)
        /\ Accel!push_functions(i)[2] = Accel!Push(1, 4, item)
        /\ Accel!push_functions(i)[3] = Accel!Push(2, 1, item)
        /\ Accel!push_functions(i)[4] = Accel!Push(2, 4, item)
        /\ Accel!push_functions(i)[5] = Accel!Push(3, 4, item)
    BY <2>1 DEF Accel!push_functions
  <2>3. CASE ord = 1 /\ t = 0
    BY <2>1, <2>2, <2>3 DEF Accel!select_push, i
  <2>4. CASE ord = 1 /\ t = 4
    BY <2>1, <2>2, <2>4 DEF Accel!select_push, i
  <2>5. CASE ord = 2 /\ t = 1
    BY <2>1, <2>2, <2>5 DEF Accel!select_push, i
  <2>6. CASE ord = 2 /\ t = 4
    BY <2>1, <2>2, <2>6 DEF Accel!select_push, i
  <2>7. CASE ord = 3 /\ t = 4
    BY <2>1, <2>2, <2>7 DEF Accel!select_push, i
  <2>8. CASE /\ ~(ord = 1 /\ t = 0) /\ ~(ord = 1 /\ t = 4) /\ ~(ord = 2 /\ t = 1)
             /\ ~(ord = 2 /\ t = 4) /\ ~(ord = 3 /\ t = 4)
    BY <2>1, <2>8 DEF Accel!select_push, i
  <2> QED
    BY <2>3, <2>4, <2>5, <2>6, <2>7, <2>8
<1> QED
  BY <1>1, <1>2

\* So is a pull method.
LEMMA PullSelected ==
  ASSUME NEW ord \in 1 .. 3, NEW t \in {0, 1, 2, 4}, NEW item \in Nat \ {0}
  PROVE  Accel!select_pull(ord, t, item) \in {Accel!NULL, Accel!Pull(ord, t, item)}
<1> DEFINE i == Accel!item_index(item)
           m == Accel!select_pull(ord, t, item)
<1>1. CASE i < 0
  <2>1. m = Accel!NULL
    BY <1>1, IndexOfItem DEF Accel!select_pull
  <2> QED
    BY <2>1
<1>2. CASE ~(i < 0)
  <2>1. Accel!Item(i) = item /\ i \in Nat /\ i >= 0 /\ ~(i < 0)
    BY <1>2, IndexOfItem
  <2> HIDE DEF i
  <2>2. /\ Accel!pull_functions(i)[1] = Accel!Pull(1, 0, item)
        /\ Accel!pull_functions(i)[2] = Accel!Pull(2, 4, item)
        /\ Accel!pull_functions(i)[3] = Accel!Pull(3, 4, item)
        /\ Accel!pull_functions(i)[4] = Accel!Pull(2, 1, item)
    BY <2>1 DEF Accel!pull_functions
  <2>3. CASE ord = 2 /\ t = 1
    BY <2>1, <2>2, <2>3 DEF Accel!select_pull, i
  <2>4. CASE ord = 1 /\ t = 0
    BY <2>1, <2>2, <2>4 DEF Accel!select_pull, i
  <2>5. CASE ord = 2 /\ t = 4
    BY <2>1, <2>2, <2>5 DEF Accel!select_pull, i
  <2>6. CASE ord = 3 /\ t = 4
    BY <2>1, <2>2, <2>6 DEF Accel!select_pull, i
  <2>7. CASE ~(ord = 2 /\ t = 1) /\ t # (IF ord = 1 THEN 0 ELSE 4)
    BY <2>1, <2>7 DEF Accel!select_pull, i
  <2> QED
    BY <2>3, <2>4, <2>5, <2>6, <2>7
<1> QED
  BY <1>1, <1>2

\* The pivot of a matrix is one for its tags, and for any item or that at hand.
LEMMA MidSelected ==
  ASSUME NEW t \in {1, 4}, NEW item \in Nat \ {0}
  PROVE  Accel!select_pivot_mid(t, item) \in
           {Accel!Pivot("mid", t, 0), Accel!Pivot("mid", t, item)}
<1> DEFINE i == Accel!item_index(item)
<1>1. CASE i < 0
  BY <1>1, IndexOfItem DEF Accel!select_pivot_mid
<1>2. CASE ~(i < 0)
  <2>1. Accel!Item(i) = item /\ i \in Nat /\ i >= 0 /\ ~(i < 0)
    BY <1>2, IndexOfItem
  <2> HIDE DEF i
  <2>2. /\ Accel!pivot_functions(i)[1] = Accel!Pivot("mid", 1, item)
        /\ Accel!pivot_functions(i)[2] = Accel!Pivot("mid", 4, item)
    BY <2>1 DEF Accel!pivot_functions
  <2> QED
    BY <2>1, <2>2 DEF Accel!select_pivot_mid, i
<1> QED
  BY <1>1, <1>2

\* So is the first pivot of a tensor.
LEMMA EarlySelected ==
  ASSUME NEW t \in {1, 2, 4}, NEW item \in Nat \ {0}
  PROVE  Accel!select_pivot_early(t, item) \in
           {Accel!Pivot("early", t, 0), Accel!Pivot("early", t, item)}
<1> DEFINE i == Accel!item_index(item)
<1>1. CASE i < 0
  BY <1>1, IndexOfItem DEF Accel!select_pivot_early
<1>2. CASE ~(i < 0)
  <2>1. Accel!Item(i) = item /\ i \in Nat /\ i >= 0 /\ ~(i < 0)
    BY <1>2, IndexOfItem
  <2> HIDE DEF i
  <2>2. /\ Accel!pivot_functions(i)[3] = Accel!Pivot("early", 1, item)
        /\ Accel!pivot_functions(i)[4] = Accel!Pivot("early", 2, item)
        /\ Accel!pivot_functions(i)[5] = Accel!Pivot("early", 4, item)
    BY <2>1 DEF Accel!pivot_functions
  <2>3. Accel!select_pivot_early(t, item) = Accel!pivot_functions(i)[3 + Accel!log(t)]
    BY <2>1 DEF Accel!select_pivot_early, i
  <2>4. 3 + Accel!log(t) = IF t = 1 THEN 3 ELSE IF t = 2 THEN 4 ELSE 5
    BY DEF Accel!log
  <2> QED
    BY <2>2, <2>3, <2>4
<1> QED
  BY <1>1, <1>2

\* And the second.
LEMMA LateSelected ==
  ASSUME NEW t \in {1, 2, 4}, NEW item \in Nat \ {0}
  PROVE  Accel!select_pivot_late(t, item) \in
           {Accel!Pivot("late", t, 0), Accel!Pivot("late", t, item)}
<1> DEFINE i == Accel!item_index(item)
<1>1. CASE i < 0
  BY <1>1, IndexOfItem DEF Accel!select_pivot_late
<1>2. CASE ~(i < 0)
  <2>1. Accel!Item(i) = item /\ i \in Nat /\ i >= 0 /\ ~(i < 0)
    BY <1>2, IndexOfItem
  <2> HIDE DEF i
  <2>2. /\ Accel!pivot_functions(i)[6] = Accel!Pivot("late", 1, item)
        /\ Accel!pivot_functions(i)[7] = Accel!Pivot("late", 2, item)
        /\ Accel!pivot_functions(i)[8] = Accel!Pivot("late", 4, item)
    BY <2>1 DEF Accel!pivot_functions
  <2>3. Accel!select_pivot_late(t, item) = Accel!pivot_functions(i)[6 + Accel!log(t)]
    BY <2>1 DEF Accel!select_pivot_late, i
  <2>4. 6 + Accel!log(t) = IF t = 1 THEN 6 ELSE IF t = 2 THEN 7 ELSE 8
    BY DEF Accel!log
  <2> QED
    BY <2>2, <2>3, <2>4
<1> QED
  BY <1>1, <1>2

\* The conveyor is one that was set up, with the standard methods outside of a
\* session and in it with methods that fit.
AccelInv == kernel = "accel" =>
  /\ conveyor = [tags |-> conveyor.tags, item |-> conveyor.item, push |-> conveyor.push,
                 pull |-> conveyor.pull, pivots |-> conveyor.pivots]
  /\ conveyor.tags \in Widths /\ conveyor.item \in ItemSizes \cup {0}
  /\ conveyor.item = 0 => conveyor.push = Accel!Standard /\ conveyor.pull = Accel!Standard
  /\ Accel!MethodsFit

\* The widths of the tags of each order of conveyor.
LEMMA TagWidths ==
  ASSUME NEW t \in Widths
  PROVE  /\ Len(t) \in 1 .. 3 /\ \A i \in 1 .. Len(t) : t[i] \in {0, 1, 2, 4}
         /\ Len(t) > 1 => t[1] = 4
         /\ Len(t) = 2 => t[2] \in {1, 4}
         /\ Len(t) = 3 => t[2] \in {1, 2, 4} /\ t[3] = 4
<1>1. t \in {<<0>>, <<4>>, <<4, 1>>, <<4, 4>>, <<4, 1, 4>>, <<4, 2, 4>>, <<4, 4, 4>>}
  BY AccelAssumption
<1>2. CASE t \in {<<0>>, <<4>>}
  <2>1. PICK a \in {0, 4} : t = <<a>>
    BY <1>2
  <2>2. Len(t) = 1 /\ t[1] = a
    BY <2>1
  <2> QED
    BY <2>2
<1>3. CASE t \in {<<4, 1>>, <<4, 4>>}
  <2>1. PICK a \in {1, 4} : t = <<4, a>>
    BY <1>3
  <2>2. Len(t) = 2 /\ t[1] = 4 /\ t[2] = a
    BY <2>1
  <2> QED
    BY <2>2
<1>4. CASE t \in {<<4, 1, 4>>, <<4, 2, 4>>, <<4, 4, 4>>}
  <2>1. PICK a \in {1, 2, 4} : t = <<4, a, 4>>
    BY <1>4
  <2>2. Len(t) = 3 /\ t[1] = 4 /\ t[2] = a /\ t[3] = 4
    BY <2>1
  <2> QED
    BY <2>2
<1> QED
  BY <1>1, <1>2, <1>3, <1>4

\* A push or pull method that is chosen, if it is not the standard one, fits.
LEMMA ChosenFits ==
  ASSUME NEW t \in Widths, NEW item \in ItemSizes
  PROVE  LET push == Accel!Better(Accel!Standard, Accel!select_push(Len(t), t[1], item))
             pull == Accel!Better(Accel!Standard, Accel!select_pull(Len(t), t[Len(t)], item))
         IN /\ push # Accel!Standard =>
                 /\ push.order = Len(t) /\ push.tag = t[1] /\ push.item = item
                 /\ push.stride = Accel!porter_stride(t[1], item)
            /\ pull # Accel!Standard =>
                 /\ pull.order = Len(t) /\ pull.tag = t[Len(t)] /\ pull.item = item
                 /\ pull.stride = Accel!porter_stride(t[Len(t)], item)
<1> DEFINE n == Len(t)
           a == t[1]
           b == t[n]
           f == Accel!select_push(n, a, item)
           g == Accel!select_pull(n, b, item)
<1>1. n \in 1 .. 3 /\ a \in {0, 1, 2, 4} /\ b \in {0, 1, 2, 4} /\ item \in Nat \ {0}
  <2>1. n \in 1 .. 3 /\ \A i \in 1 .. n : t[i] \in {0, 1, 2, 4}
    BY TagWidths
  <2>2. 1 \in 1 .. n /\ n \in 1 .. n
    BY <2>1
  <2>3. item \in Nat \ {0}
    BY AccelAssumption
  <2> HIDE DEF n
  <2> QED
    BY <2>1, <2>2, <2>3
<1> HIDE DEF n, a, b
<1>2. f \in {Accel!NULL, Accel!Push(n, a, item)}
  BY <1>1, PushSelected
<1>3. g \in {Accel!NULL, Accel!Pull(n, b, item)}
  BY <1>1, PullSelected
<1>4. /\ Accel!Packet(a, item) = Accel!porter_stride(a, item)
      /\ Accel!Packet(b, item) = Accel!porter_stride(b, item)
  BY <1>1, StrideOfPacket
<1> HIDE DEF f, g
<1>5. LET push == Accel!Better(Accel!Standard, f)
      IN push # Accel!Standard =>
                 /\ push.order = n /\ push.tag = a /\ push.item = item
                 /\ push.stride = Accel!porter_stride(a, item)
  BY <1>2, <1>4 DEF Accel!Better, Accel!Push, Accel!NULL, Accel!Standard
<1>6. LET pull == Accel!Better(Accel!Standard, g)
      IN pull # Accel!Standard =>
                 /\ pull.order = n /\ pull.tag = b /\ pull.item = item
                 /\ pull.stride = Accel!porter_stride(b, item)
  BY <1>3, <1>4 DEF Accel!Better, Accel!Pull, Accel!NULL, Accel!Standard
<1> QED
  BY <1>5, <1>6 DEF f, g, n, a, b

\* A pivot between porters with two tags, for items of a size.
PivotServes(p, name, reads, writes, item) ==
  /\ p # Accel!NULL /\ p.name = name /\ p.reads = reads /\ p.writes = writes
  /\ p.item # 0 => p.item = item /\ p.stride = Accel!porter_stride(reads, item)

\* A pivot for tags serves between porters with these tags.
LEMMA PivotForTags ==
  ASSUME NEW name \in {"mid", "early", "late"}, NEW w \in {1, 2, 4},
         NEW item \in Nat \ {0},
         NEW p \in {Accel!Pivot(name, w, 0), Accel!Pivot(name, w, item)}
  PROVE  IF name = "late" THEN PivotServes(p, name, w, 4, item)
                          ELSE PivotServes(p, name, 4, w, item)
<1> DEFINE r == IF name = "late" THEN w ELSE 4
<1>1. /\ p # Accel!NULL /\ p.name = name /\ p.reads = r
      /\ p.writes = (IF name = "late" THEN 4 ELSE w)
      /\ p.item \in {0, item}
      /\ p.item # 0 => p.stride = Accel!Packet(r, item)
  <2>1. CASE p = Accel!Pivot(name, w, 0)
    BY <2>1 DEF Accel!Pivot, Accel!NULL
  <2>2. CASE p = Accel!Pivot(name, w, item)
    BY <2>2 DEF Accel!Pivot, Accel!NULL
  <2> QED
    BY <2>1, <2>2
<1>2. Accel!Packet(r, item) = Accel!porter_stride(r, item)
  <2>1. r \in {0, 1, 2, 4}
    OBVIOUS
  <2> HIDE DEF r
  <2> QED
    BY <2>1, StrideOfPacket
<1>3. PivotServes(p, name, r, IF name = "late" THEN 4 ELSE w, item)
  <2> HIDE DEF r
  <2> QED
    BY <1>1, <1>2 DEF PivotServes
<1> QED
  BY <1>3

\* The pivots of a session are those that the hops need, and fit.
LEMMA PivotsFit ==
  ASSUME NEW t \in Widths, NEW item \in ItemSizes
  PROVE  LET pivots == Accel!PivotsFor(t, item)
         IN /\ Len(t) = 2 => PivotServes(pivots[1], "mid", t[1], t[2], item)
            /\ Len(t) = 3 => /\ PivotServes(pivots[1], "early", t[1], t[2], item)
                             /\ PivotServes(pivots[2], "late", t[2], t[3], item)
<1> DEFINE pivots == Accel!PivotsFor(t, item)
           w == t[2]
<1>0. item \in Nat \ {0}
  BY AccelAssumption
<1>1. ASSUME Len(t) = 2
      PROVE  PivotServes(pivots[1], "mid", 4, w, item) /\ t[1] = 4
  <2>1. t[1] = 4 /\ w \in {1, 4}
    BY <1>1, TagWidths
  <2>2. pivots[1] = Accel!select_pivot_mid(w, item)
    BY <1>1 DEF Accel!PivotsFor
  <2> HIDE DEF pivots, w
  <2>3. pivots[1] \in {Accel!Pivot("mid", w, 0), Accel!Pivot("mid", w, item)}
    BY <1>0, <2>1, <2>2, MidSelected
  <2> QED
    BY <1>0, <2>1, <2>3, PivotForTags
<1>2. ASSUME Len(t) = 3
      PROVE  /\ t[1] = 4 /\ t[3] = 4
             /\ PivotServes(pivots[1], "early", 4, w, item)
             /\ PivotServes(pivots[2], "late", w, 4, item)
  <2>1. t[1] = 4 /\ w \in {1, 2, 4} /\ t[3] = 4
    BY <1>2, TagWidths
  <2>2. /\ pivots[1] = Accel!select_pivot_early(w, item)
        /\ pivots[2] = Accel!select_pivot_late(w, item)
    BY <1>2 DEF Accel!PivotsFor
  <2> HIDE DEF pivots, w
  <2>3. pivots[1] \in {Accel!Pivot("early", w, 0), Accel!Pivot("early", w, item)}
    BY <1>0, <2>1, <2>2, EarlySelected
  <2>4. pivots[2] \in {Accel!Pivot("late", w, 0), Accel!Pivot("late", w, item)}
    BY <1>0, <2>1, <2>2, LateSelected
  <2>5. PivotServes(pivots[1], "early", 4, w, item)
    BY <1>0, <2>1, <2>3, PivotForTags
  <2>6. PivotServes(pivots[2], "late", w, 4, item)
    BY <1>0, <2>1, <2>4, PivotForTags
  <2> QED
    BY <2>1, <2>5, <2>6
<1> HIDE DEF pivots
<1> QED
  BY <1>1, <1>2 DEF pivots, w

\* The methods that a session begins with fit.
LEMMA BeginFits ==
  ASSUME AccelInv, kernel = "accel", kernel' = kernel, Accel!Begin
  PROVE  AccelInv'
<1> DEFINE t == conveyor.tags
           n == Len(t)
<1>1. /\ conveyor = [tags |-> t, item |-> conveyor.item, push |-> conveyor.push,
                     pull |-> conveyor.pull, pivots |-> conveyor.pivots]
      /\ t \in Widths /\ conveyor.push = Accel!Standard /\ conveyor.pull = Accel!Standard
  BY DEF AccelInv, Accel!Begin
<1>2. n \in 1 .. 3
  BY <1>1, TagWidths
<1>3. (n-1) + 1 = n /\ 0 + 1 = 1
  BY <1>2
<1>4. PICK item \in ItemSizes :
        conveyor' = [conveyor EXCEPT
         !.item = item,
         !.push = Accel!Better(@, Accel!select_push(n, t[1], item)),
         !.pull = Accel!Better(@, Accel!select_pull(n, t[n], item)),
         !.pivots = Accel!PivotsFor(t, item)]
  BY <1>3 DEF Accel!Begin, Accel!order, Accel!tags
<1> DEFINE f == Accel!Better(Accel!Standard, Accel!select_push(n, t[1], item))
           g == Accel!Better(Accel!Standard, Accel!select_pull(n, t[n], item))
           v == Accel!PivotsFor(t, item)
<1>5. conveyor' = [tags |-> t, item |-> item, push |-> f, pull |-> g, pivots |-> v]
  BY <1>1, <1>4
<1>6. /\ f # Accel!Standard =>
            /\ f.order = n /\ f.tag = t[1] /\ f.item = item
            /\ f.stride = Accel!porter_stride(t[1], item)
      /\ g # Accel!Standard =>
            /\ g.order = n /\ g.tag = t[n] /\ g.item = item
            /\ g.stride = Accel!porter_stride(t[n], item)
  BY <1>1, ChosenFits
<1>7. item # 0
  BY AccelAssumption
<1> HIDE DEF f, g
<1>8. /\ conveyor'.tags = t /\ conveyor'.item = item /\ conveyor'.push = f
      /\ conveyor'.pull = g /\ conveyor'.pivots = v
  BY <1>5
<1>9. /\ n = 2 => PivotServes(v[1], "mid", t[1], t[2], item)
      /\ n = 3 => /\ PivotServes(v[1], "early", t[1], t[2], item)
                  /\ PivotServes(v[2], "late", t[2], t[3], item)
  BY <1>1, PivotsFit
<1> HIDE DEF v, t, n
<1>10. Accel!MethodsFit'
  <2>0. conveyor'.tags = t
    BY <1>8
  <2>1. /\ Accel!order' = Len(t) /\ Accel!tags(0)' = t[1] /\ Accel!tags(1)' = t[2]
        /\ Accel!tags(1 + 1)' = t[3] /\ Accel!tags(Accel!order - 1)' = t[n]
    <3>1. 0 + 1 = 1 /\ 1 + 1 = 2 /\ 1 + 1 + 1 = 3 /\ n-1 + 1 = n
      BY <1>2
    <3>2. Accel!order' = Len(t)
      BY <2>0, Zenon DEF Accel!order
    <3>3. ASSUME NEW k PROVE Accel!tags(k)' = t[k + 1]
      BY <2>0, Zenon DEF Accel!tags
    <3>4. Accel!tags(0)' = t[0 + 1]
      BY <3>3, Zenon
    <3>5. Accel!tags(1)' = t[1 + 1]
      BY <3>3, Zenon
    <3>6. Accel!tags(1 + 1)' = t[1 + 1 + 1]
      BY <3>3, Zenon
    <3>7. Accel!tags(Accel!order - 1)' = t[n-1 + 1]
      <4>1. Accel!tags(Accel!order - 1)' = conveyor'.tags[Accel!order' - 1 + 1]
        BY Zenon DEF Accel!tags
      <4>2. Accel!order' = n
        BY <3>2, Zenon DEF n
      <4> QED
        BY <2>0, <4>1, <4>2, Zenon
    <3> QED
      BY <3>1, <3>2, <3>4, <3>5, <3>6, <3>7
  <2>2. Accel!order' = n
    BY <2>1 DEF n
  <2>3. Accel!Fits(conveyor.push, 0)' /\ Accel!Fits(conveyor.pull, Accel!order - 1)'
    <3>1. Accel!Fits(conveyor.push, 0)'
      BY <1>6, <1>8, <2>1, <2>2, Zenon DEF Accel!Fits
    <3>2. /\ conveyor'.pull = g /\ conveyor'.item = item /\ Accel!order' = n
          /\ Accel!tags(Accel!order - 1)' = t[n]
      BY <1>8, <2>1, <2>2
    <3>3. Accel!Fits(conveyor.pull, Accel!order - 1)'
      BY <1>6, <3>2, Zenon DEF Accel!Fits
    <3> QED
      BY <3>1, <3>3
  <2>4. n = 2 => Accel!PivotFits(conveyor.pivots[1], "mid", 0)'
    <3>1. 0 + 1 = 1
      OBVIOUS
    <3> QED
      BY <1>9, <1>8, <2>1, <3>1, Zenon DEF Accel!PivotFits, PivotServes
  <2>5. n = 3 => /\ Accel!PivotFits(conveyor.pivots[1], "early", 0)'
                 /\ Accel!PivotFits(conveyor.pivots[2], "late", 1)'
    <3>1. 0 + 1 = 1
      OBVIOUS
    <3>2. n = 3 => Accel!PivotFits(conveyor.pivots[1], "early", 0)'
      BY <1>9, <1>8, <2>1, <3>1, Zenon DEF Accel!PivotFits, PivotServes
    <3>3. n = 3 => Accel!PivotFits(conveyor.pivots[2], "late", 1)'
      BY <1>9, <1>8, <2>1, Zenon DEF Accel!PivotFits, PivotServes
    <3> QED
      BY <3>2, <3>3, Zenon
  <2> QED
    BY <2>2, <2>3, <2>4, <2>5 DEF Accel!MethodsFit
<1>11. conveyor'.item # 0 /\ conveyor'.item \in ItemSizes /\ conveyor'.tags \in Widths
  BY <1>7, <1>8, <1>1
<1>12. conveyor' = [tags |-> conveyor'.tags, item |-> conveyor'.item,
                    push |-> conveyor'.push, pull |-> conveyor'.pull,
                    pivots |-> conveyor'.pivots]
  BY <1>5
<1> QED
  BY <1>10, <1>11, <1>12 DEF AccelInv

\* The initial states.
LEMMA AccelStart == KernelInit => AccelInv
<1> SUFFICES ASSUME KernelInit, kernel = "accel"
             PROVE  AccelInv
  BY DEF AccelInv
<1>1. Accel!AccelInit
  BY DEF KernelInit
<1> QED
  BY <1>1 DEF Accel!AccelInit, AccelInv, Accel!MethodsFit

\* Every step.
LEMMA AccelNext == AccelInv /\ [KernelNext]_kernelvars => AccelInv'
<1> SUFFICES ASSUME AccelInv, [KernelNext]_kernelvars, kernel' = "accel"
             PROVE  AccelInv'
  BY DEF AccelInv
<1>1. CASE UNCHANGED <<kernel, conveyor>>
  BY <1>1 DEF AccelInv, Accel!MethodsFit, Accel!Fits, Accel!PivotFits, Accel!order,
              Accel!tags
<1>2. CASE AccelStep
  <2>1. kernel = "accel" /\ kernel' = kernel /\ (Accel!Begin \/ Accel!Reset)
    BY <1>2 DEF AccelStep
  <2>2. CASE Accel!Begin
    BY <2>1, <2>2, BeginFits
  <2>3. CASE Accel!Reset
    <3>1. /\ conveyor = [tags |-> conveyor.tags, item |-> conveyor.item,
                         push |-> conveyor.push, pull |-> conveyor.pull,
                         pivots |-> conveyor.pivots]
          /\ conveyor.tags \in Widths
      BY <2>1 DEF AccelInv
    <3>2. conveyor' = [tags |-> conveyor.tags, item |-> 0, push |-> Accel!Standard,
                       pull |-> Accel!Standard, pivots |-> Accel!NoPivots]
      BY <3>1, <2>3 DEF Accel!Reset
    <3> QED
      BY <3>1, <3>2 DEF AccelInv, Accel!MethodsFit
  <2> QED
    BY <2>1, <2>2, <2>3
<1>3. ParamsStep => UNCHANGED <<kernel, conveyor>>
  BY DEF ParamsStep
<1>4. RouteStep => UNCHANGED <<kernel, conveyor>>
  BY DEF RouteStep
<1>5. CodecStep => UNCHANGED <<kernel, conveyor>>
  BY DEF CodecStep
<1>6. DivisionStep => UNCHANGED <<kernel, conveyor>>
  BY DEF DivisionStep
<1>7. UNCHANGED kernelvars => UNCHANGED <<kernel, conveyor>>
  BY DEF kernelvars
<1> QED
  BY <1>1, <1>2, <1>3, <1>4, <1>5, <1>6, <1>7 DEF KernelNext

\* In every session of an accelerated conveyor, whatever the size of its items,
\* the push, pull and pivot functions chosen for it take for granted what its
\* porters do, and no pivot that a hop needs is missing.
THEOREM MethodsFitHolds == KernelSpec => []MethodsFit
<1>1. AccelInv => MethodsFit
  BY DEF AccelInv, MethodsFit
<1> QED
  BY <1>1, AccelStart, AccelNext, PTL DEF KernelSpec
-----------------------------------------------------------------------------
(* Division by multiplication *)

\* A set of natural numbers that is not empty has a least one.
LEMMA LeastNumber ==
  ASSUME NEW T \in SUBSET Nat, T # {}
  PROVE  \E n \in T : \A m \in Nat : m < n => m \notin T
<1>1. \E n \in T : \A m \in T : <<m, n>> \notin OpToRel(<, Nat)
  BY WFMin, NatLessThanWellFounded, Zenon
<1>2. PICK n \in T : \A m \in T : <<m, n>> \notin OpToRel(<, Nat)
  BY <1>1
<1>3. \A m \in Nat : m < n => <<m, n>> \in OpToRel(<, Nat)
  BY DEF OpToRel
<1> QED
  BY <1>2, <1>3

\* Powers of two, which count the subsets of a set.
LEMMA PowerDoubles ==
  ASSUME NEW n \in Nat
  PROVE  2^n \in Nat \ {0} /\ 2^(n + 1) = 2 * 2^n
<1> DEFINE S == 1 .. n
           T == 1 .. n+1
           A == SUBSET S
           B == {U \in SUBSET T : n+1 \in U}
<1>1. /\ IsFiniteSet(S) /\ Cardinality(S) = n
      /\ IsFiniteSet(T) /\ Cardinality(T) = n+1
  <2>1. ASSUME NEW k \in Nat
        PROVE  IsFiniteSet(1 .. k) /\ Cardinality(1 .. k) = k
    BY FS_Interval
  <2> QED
    BY <2>1
<1>2. IsFiniteSet(A) /\ Cardinality(A) = 2^n
  <2> HIDE DEF S
  <2> QED
    BY <1>1, FS_SUBSET
<1>3. IsFiniteSet(SUBSET T) /\ Cardinality(SUBSET T) = 2^(n + 1)
  <2> HIDE DEF T
  <2> QED
    BY <1>1, FS_SUBSET
<1>4. SUBSET T = A \cup B
  <2>1. T = S \cup {n+1}
    OBVIOUS
  <2> HIDE DEF S, T
  <2> QED
    BY <2>1
<1>5. A \cap B = {}
  <2>1. n+1 \notin S
    OBVIOUS
  <2> HIDE DEF S, T
  <2> QED
    BY <2>1
<1>6. IsFiniteSet(B) /\ Cardinality(B) = Cardinality(A)
  <2> DEFINE f == [U \in A |-> U \cup {n+1}]
  <2>1. T = S \cup {n+1} /\ n+1 \notin S
    OBVIOUS
  <2> HIDE DEF S, T
  <2>2. f \in [A -> B]
    BY <2>1
  <2>3. \A U, V \in A : f[U] = f[V] => U = V
    BY <2>1
  <2>4. \A V \in B : V \ {n+1} \in A /\ f[V \ {n+1}] = V
    BY <2>1
  <2> HIDE DEF f, A, B
  <2>5. f \in Bijection(A, B)
    BY <2>2, <2>3, <2>4 DEF Bijection, Injection, Surjection, IsInjective
  <2>6. ExistsBijection(A, B)
    BY <2>5 DEF ExistsBijection
  <2> QED
    BY <1>2, <2>6, FS_Bijection
<1> HIDE DEF S, T, A, B
<1>7. Cardinality(A \cup B) = Cardinality(A) + Cardinality(B)
  <2>1. Cardinality(A \cup B) = Cardinality(A) + Cardinality(B) - Cardinality(A \cap B)
    BY <1>2, <1>6, FS_Union
  <2>2. Cardinality(A \cap B) = 0
    BY <1>5, FS_EmptySet
  <2>3. Cardinality(A) \in Nat /\ Cardinality(B) \in Nat
    BY <1>2, <1>6, FS_CardinalityType
  <2> QED
    BY <2>1, <2>2, <2>3
<1>8. Cardinality(A) \in Nat \ {0}
  <2>1. Cardinality(A) \in Nat
    BY <1>2, FS_CardinalityType
  <2>2. A # {}
    BY DEF A
  <2> QED
    BY <1>2, <2>1, <2>2, FS_EmptySet
<1>9. 2^(n + 1) = Cardinality(A) + Cardinality(A)
  BY <1>3, <1>4, <1>6, <1>7
<1> QED
  BY <1>2, <1>8, <1>9

\* The greater factor gives the greater product.
LEMMA TimesGrows ==
  ASSUME NEW a \in Int, NEW b \in Int, NEW c \in Nat, a <= b
  PROVE  c*a <= c*b /\ a*c <= b*c
OBVIOUS

\* A quotient is known by its bounds.
LEMMA QuotientBetween ==
  ASSUME NEW y \in Nat, NEW d \in Nat \ {0}, NEW q \in Nat,
         d*q <= y, y < d*q + d
  PROVE  y \div d = q
<1> DEFINE r == y - d*q
<1>1. r \in 0 .. d-1 /\ y = d*q + r
  OBVIOUS
<1> HIDE DEF r
<1> QED
  BY <1>1, TwoDigits

\* A number of bits is one of the powers of two that it is between.
LEMMA TopBit ==
  ASSUME NEW n \in Division!Word, n # 0
  PROVE  LET k == Division!top_bit(n)
         IN k \in 0 .. Width-1 /\ 2^k <= n /\ n < 2^(k + 1)
<1> DEFINE T == {k \in Nat : n < 2^(k + 1)}
<1>0. Width-1 \in Nat /\ Width \in Nat /\ Width-1 + 1 = Width
  BY WidthAssumption
<1>1. n \in Nat \ {0} /\ n < 2^Width
  <2>1. 2^Width \in Nat
    BY <1>0, PowerDoubles
  <2> QED
    BY <2>1 DEF Division!Word
<1>2. Width-1 \in T
  BY <1>0, <1>1
<1>3. PICK k \in T : \A j \in Nat : j < k => j \notin T
  <2>1. T \in SUBSET Nat /\ T # {}
    BY <1>2
  <2> HIDE DEF T
  <2> QED
    BY <2>1, LeastNumber
<1>5. k \in Nat /\ n < 2^(k + 1)
  OBVIOUS
<1>6. k \in 0 .. Width-1
  BY <1>0, <1>2, <1>3, <1>5
<1>7. 2^k <= n
  <2>1. CASE k = 0
    BY <1>1, <2>1
  <2>2. CASE k # 0
    <3>1. k-1 \in Nat /\ k-1 < k /\ k-1 + 1 = k
      BY <1>5, <2>2
    <3>2. ~(n < 2^(k-1 + 1))
      BY <3>1, <1>3
    <3>3. ~(n < 2^k)
      BY <3>1, <3>2
    <3>4. 2^k \in Nat
      BY <1>5, PowerDoubles
    <3> QED
      BY <1>1, <3>3, <3>4
  <2> QED
    BY <2>1, <2>2
<1> QED
  BY <1>5, <1>6, <1>7 DEF Division!top_bit

\* The power of a sum.
LEMMA PowerOfSum ==
  ASSUME NEW a \in Nat, NEW b \in Nat
  PROVE  2^(a + b) = 2^a * 2^b
<1> DEFINE Bad == {k \in Nat : 2^(a + k) # 2^a * 2^k}
<1> SUFFICES ASSUME Bad # {} PROVE FALSE
  OBVIOUS
<1>1. PICK k \in Bad : \A j \in Nat : j < k => j \notin Bad
  <2>1. Bad \in SUBSET Nat
    OBVIOUS
  <2> HIDE DEF Bad
  <2> QED
    BY <2>1, LeastNumber
<1>2. k \in Nat /\ 2^(a + k) # 2^a * 2^k
  OBVIOUS
<1>3. k # 0
  <2>1. 2^a \in Nat
    BY PowerDoubles
  <2>2. a + 0 = a /\ 2^0 = 1 /\ 2^a * 1 = 2^a
    BY <2>1
  <2> QED
    BY <1>2, <2>2
<1>4. k-1 \in Nat /\ k-1 + 1 = k /\ a + (k-1) \in Nat /\ a + (k-1) + 1 = a + k
  BY <1>2, <1>3
<1>5. 2^(a + (k-1)) = 2^a * 2^(k-1)
  <2>1. k-1 < k
    BY <1>2
  <2>2. k-1 \notin Bad
    BY <1>1, <1>4, <2>1
  <2> QED
    BY <1>4, <2>2
<1> DEFINE p == 2^a
           q == 2^(k-1)
           s == 2^(a + (k-1))
<1>6. 2^(k-1 + 1) = 2 * q /\ 2^(a + (k-1) + 1) = 2 * s /\ p \in Nat /\ q \in Nat
  BY <1>4, PowerDoubles
<1>7. 2^k = 2 * q /\ 2^(a + k) = 2 * s /\ s = p * q
  BY <1>4, <1>5, <1>6
<1>8. 2^(a + k) # p * 2^k
  BY <1>2
<1> HIDE DEF p, q, s
<1>9. 2 * (p*q) # p * (2*q)
  BY <1>7, <1>8
<1> QED
  BY <1>6, <1>9

\* The reciprocal of a number n of bits, of which Q is the power of two above:
\* it has one bit more than a word, for which P is the number of values.
LEMMA Reciprocal ==
  ASSUME NEW P \in Nat \ {0}, NEW H \in Nat \ {0}, 2*H <= P,
         NEW n \in Nat \ {0}, H < n, n < 2*H
  PROVE  LET M == 1 + (P * (2*H) - 1) \div n
         IN /\ M \in P .. 2*P - 1
            /\ \E e \in 0 .. n-1 : n * M = P * (2*H) + e
<1> DEFINE Q == 2*H
           y == P*Q - 1
           c == y \div n
           s == y % n
           M == 1 + c
<1>0. Q \in Nat \ {0} /\ n <= Q /\ n < Q
  OBVIOUS
<1>1. y \in Nat
  <2>1. P*Q >= 1
    BY <1>0
  <2>2. P*Q \in Nat
    BY <1>0
  <2> QED
    BY <2>1, <2>2
<1>2. y = n*c + s /\ c \in Nat /\ s \in 0 .. n-1
  <2> HIDE DEF y
  <2> QED
    BY <1>1, Divided
<1>3. n * M = P*Q + (n-1-s) /\ n-1-s \in 0 .. n-1
  <2>1. n*M = n + n*c
    BY <1>2
  <2>2. n*c = P*Q - 1 - s
    <3>1. y = P*Q - 1 /\ P*Q \in Nat
      BY <1>0
    <3> HIDE DEF y, c, s, Q
    <3> QED
      BY <1>2, <3>1
  <2> HIDE DEF M, Q, c, s, y
  <2>3. P*Q \in Nat /\ n*c \in Nat
    BY <1>0, <1>2
  <2> QED
    BY <1>2, <2>1, <2>2, <2>3
<1>4. P <= M
  <2> SUFFICES ASSUME M <= P-1 PROVE FALSE
    BY <1>2
  <2> HIDE DEF c, s, y
  <2>1. n*M <= n*(P-1)
    <3>1. M \in Int /\ P-1 \in Int
      BY <1>2
    <3> HIDE DEF M
    <3> QED
      BY <3>1, TimesGrows
  <2>2. n*(P-1) <= Q*(P-1)
    <3>1. P-1 \in Nat /\ n \in Int /\ Q \in Int
      BY <1>0
    <3> HIDE DEF Q
    <3> QED
      BY <1>0, <3>1, TimesGrows
  <2>3. Q*(P-1) = P*Q - Q
    BY <1>0
  <2> HIDE DEF Q, M
  <2>4. P*Q \in Nat /\ n*M \in Int /\ n*(P-1) \in Int /\ Q*(P-1) \in Int
    <3>1. M \in Int
      BY <1>2 DEF M
    <3> QED
      BY <1>0, <3>1
  <2> QED
    BY <1>0, <1>3, <2>1, <2>2, <2>3, <2>4
<1>5. M <= 2*P - 1
  <2> SUFFICES ASSUME 2*P <= M PROVE FALSE
    BY <1>2
  <2> HIDE DEF c, s, y
  <2>1. n*(2*P) <= n*M
    <3>1. M \in Int /\ 2*P \in Int
      BY <1>2
    <3> HIDE DEF M
    <3> QED
      BY <3>1, TimesGrows
  <2>2. (H+1)*(2*P) <= n*(2*P)
    <3>1. 2*P \in Nat /\ H+1 \in Int /\ n \in Int /\ H+1 <= n
      OBVIOUS
    <3> QED
      BY <3>1, TimesGrows
  <2>3. (H+1)*(2*P) = P*Q + 2*P
    OBVIOUS
  <2> HIDE DEF Q, M
  <2>4. P*Q \in Nat /\ n*M \in Int /\ n*(2*P) \in Int /\ (H+1)*(2*P) \in Int
    <3>1. M \in Int
      BY <1>2 DEF M
    <3> QED
      BY <1>0, <3>1
  <2>5. n <= P
    BY <1>0 DEF Q
  <2> QED
    BY <1>3, <2>1, <2>2, <2>3, <2>4, <2>5
<1>6. M \in P .. 2*P - 1
  BY <1>2, <1>4, <1>5
<1> QED
  BY <1>3, <1>6

\* A division by a product, in two steps.
LEMMA QuotientOfQuotient ==
  ASSUME NEW y \in Nat, NEW P \in Nat \ {0}, NEW Q \in Nat \ {0}, NEW q \in Nat,
         (P*Q)*q <= y, y < (P*Q)*q + P*Q
  PROVE  (y \div P) \div Q = q
<1> DEFINE z == y \div P
           s == y % P
<1>1. y = P*z + s /\ z \in Nat /\ s \in 0 .. P-1
  BY Divided
<1> HIDE DEF z, s
<1>2. Q*q <= z
  <2> SUFFICES ASSUME z <= Q*q - 1 PROVE FALSE
    BY <1>1
  <2>1. P*z <= P*(Q*q - 1)
    BY <1>1, TimesGrows
  <2>2. P*(Q*q - 1) = (P*Q)*q - P
    OBVIOUS
  <2>3. P*z \in Nat /\ (P*Q)*q \in Nat
    BY <1>1
  <2> QED
    BY <1>1, <2>1, <2>2, <2>3
<1>3. z < Q*q + Q
  <2> SUFFICES ASSUME Q*q + Q <= z PROVE FALSE
    BY <1>1
  <2>1. P*(Q*q + Q) <= P*z
    BY <1>1, TimesGrows
  <2>2. P*(Q*q + Q) = (P*Q)*q + P*Q
    OBVIOUS
  <2>3. P*z \in Nat /\ (P*Q)*q \in Nat /\ P*Q \in Nat
    BY <1>1
  <2> QED
    BY <1>1, <2>1, <2>2, <2>3
<1>4. z \div Q = q
  BY <1>1, <1>2, <1>3, QuotientBetween
<1> QED
  BY <1>4 DEF z

\* Multiplication by the reciprocal divides.
LEMMA ByReciprocal ==
  ASSUME NEW P \in Nat \ {0}, NEW Q \in Nat \ {0}, NEW n \in Nat \ {0}, n < Q,
         NEW M \in Nat, NEW e \in 0 .. n-1, n*M = P*Q + e, NEW x \in 0 .. P-1
  PROVE  ((x*M) \div P) \div Q = x \div n
<1> DEFINE q == x \div n
           r == x % n
           R == P*Q
<1>0. x \in Nat
  OBVIOUS
<1>1. x = n*q + r /\ q \in Nat /\ r \in 0 .. n-1
  BY <1>0, Divided
<1>2. R \in Nat \ {0}
  OBVIOUS
<1> HIDE DEF q, r
<1>3. n*(x*M) = n*(R*q) + (r*R + x*e)
  <2>1. n*(x*M) = x*(n*M)
    OBVIOUS
  <2>2. x*(n*M) = x*R + x*e
    OBVIOUS
  <2>3. x*R = n*(R*q) + r*R
    <3>1. x*R = (n*q + r)*R
      BY <1>1
    <3> HIDE DEF R
    <3>2. (n*q + r)*R = n*(R*q) + r*R
      BY <1>1, <1>2
    <3> QED
      BY <3>1, <3>2
  <2> HIDE DEF R
  <2>4. x*R \in Int /\ x*e \in Int /\ n*(R*q) \in Int /\ r*R \in Int
    BY <1>1, <1>2
  <2> QED
    BY <2>1, <2>2, <2>3, <2>4
<1>4. r*R + x*e < n*R
  <2>1. r*R <= (n-1)*R
    <3>1. r \in Int /\ n-1 \in Int /\ r <= n-1 /\ R \in Nat
      BY <1>1, <1>2
    <3> HIDE DEF R
    <3> QED
      BY <3>1, TimesGrows
  <2>2. x*e < R
    <3>1. x*e <= x*(Q-1)
      <4>1. x \in Nat /\ e \in Int /\ Q-1 \in Int /\ e <= Q-1
        OBVIOUS
      <4> QED
        BY <4>1, TimesGrows
    <3>2. x*(Q-1) <= (P-1)*(Q-1)
      <4>1. x \in Int /\ P-1 \in Int /\ Q-1 \in Nat /\ x <= P-1
        OBVIOUS
      <4> QED
        BY <4>1, TimesGrows
    <3>3. (P-1)*(Q-1) < P*Q
      OBVIOUS
    <3>4. x*e \in Int /\ x*(Q-1) \in Int /\ (P-1)*(Q-1) \in Int
      OBVIOUS
    <3> QED
      BY <1>2, <3>1, <3>2, <3>3, <3>4
  <2> HIDE DEF R
  <2>3. (n-1)*R = n*R - R
    BY <1>2
  <2>4. r*R \in Int /\ x*e \in Int /\ n*R \in Int
    BY <1>1, <1>2
  <2> QED
    BY <1>2, <2>1, <2>2, <2>3, <2>4
<1>5. 0 <= r*R + x*e
  <2>1. 0 <= r*R /\ 0 <= x*e /\ r*R \in Int /\ x*e \in Int
    BY <1>1, <1>2
  <2> QED
    BY <2>1
<1> HIDE DEF R
<1> DEFINE y == x*M
           u == r*R + x*e
<1>6. y \in Nat /\ u \in Int /\ n*y = n*(R*q) + u /\ 0 <= u /\ u < n*R
  BY <1>1, <1>2, <1>3, <1>4, <1>5
<1> HIDE DEF y, u
<1>7. R*q \in Nat
  BY <1>1, <1>2
<1>8. R*q <= y
  <2> DEFINE a == R*q
  <2>1. a \in Nat
    BY <1>7
  <2> SUFFICES ASSUME y <= a - 1 PROVE FALSE
    BY <1>6, <2>1
  <2> HIDE DEF a
  <2>2. n*y <= n*(a - 1)
    BY <1>6, <2>1, TimesGrows
  <2>3. n*(a-1) = n*a - n /\ n*a \in Int /\ n*y \in Int
    BY <1>6, <2>1
  <2>4. n*y = n*a + u
    BY <1>6 DEF a
  <2> QED
    BY <1>6, <2>2, <2>3, <2>4
<1>9. y < R*q + R
  <2> DEFINE a == R*q
  <2>1. a \in Nat
    BY <1>7
  <2> SUFFICES ASSUME a + R <= y PROVE FALSE
    BY <1>2, <1>6, <2>1
  <2> HIDE DEF a
  <2>2. n*(a + R) <= n*y
    BY <1>2, <1>6, <2>1, TimesGrows
  <2>3. n*(a+R) = n*a + n*R /\ n*a \in Int /\ n*y \in Int /\ n*R \in Int
    BY <1>2, <1>6, <2>1
  <2>4. n*y = n*a + u
    BY <1>6 DEF a
  <2> QED
    BY <1>6, <2>2, <2>3, <2>4
<1>10. (y \div P) \div Q = q
  BY <1>1, <1>6, <1>8, <1>9, QuotientOfQuotient DEF R
<1> QED
  BY <1>10 DEF y, q

\* What is prepared for a number divides every number of bits by it.
LEMMA PreparedDivides ==
  ASSUME NEW n \in Division!Word, NEW x \in Division!Word
  PROVE  /\ Division!prep(n).value = n
         /\ Division!divbymul32(x, Division!prep(n)) = IF n = 0 THEN 0 ELSE x \div n
<1> DEFINE P == 2^Width
           k == Division!top_bit(n)
           H == 2^k
           d == Division!prep(n)
<1>1. Width \in Nat \ {0} /\ P \in Nat \ {0}
  BY WidthAssumption, PowerDoubles
<1>2. n \in 0 .. P-1 /\ x \in 0 .. P-1
  BY DEF Division!Word
<1> HIDE DEF P
<1>3. x \in Nat /\ n \in Nat
  BY <1>2
<1>4. ASSUME NEW s, NEW v, d = [value |-> n, shift |-> s, magic |-> v]
      PROVE  /\ d.value = n
             /\ Division!divbymul32(x, d) = ((x*v) \div P + x) \div 2^s
  BY <1>4 DEF Division!divbymul32, P
<1>5. ASSUME NEW s, d = [value |-> n, shift |-> s, magic |-> 0]
      PROVE  d.value = n /\ Division!divbymul32(x, d) = x \div 2^s
  <2>1. x*0 = 0
    BY <1>3
  <2>2. 0 \div P = 0
    BY <1>1
  <2>3. 0 + x = x
    BY <1>3
  <2>4. (x*0) \div P + x = x
    BY <2>1, <2>2, <2>3
  <2>5. d.value = n /\ Division!divbymul32(x, d) = ((x*0) \div P + x) \div 2^s
    BY <1>4, <1>5
  <2> QED
    BY <2>4, <2>5
<1>6. CASE n = 0
  <2>1. d = [value |-> n, shift |-> Width, magic |-> 0]
    BY <1>6 DEF Division!prep
  <2>2. x \div P = 0
    <3>1. P*0 <= x /\ x < P*0 + P
      BY <1>1, <1>2
    <3> QED
      BY <1>1, <1>3, <3>1, QuotientBetween
  <2>3. d.value = n /\ Division!divbymul32(x, d) = x \div P
    BY <1>5, <2>1 DEF P
  <2> QED
    BY <1>6, <2>2, <2>3
<1>7. CASE n # 0
  <2>1. k \in 0 .. Width-1 /\ H <= n /\ n < 2^(k + 1)
    BY <1>7, TopBit
  <2>2. k \in Nat
    BY <1>1, <2>1
  <2>3. H \in Nat \ {0} /\ 2^(k + 1) = 2*H
    BY <2>2, PowerDoubles
  <2>4. CASE n = H
    <3>1. d = [value |-> n, shift |-> k, magic |-> 0]
      BY <1>7, <2>4 DEF Division!prep
    <3>2. d.value = n /\ Division!divbymul32(x, d) = x \div H
      BY <1>5, <3>1
    <3> QED
      BY <1>7, <2>4, <3>2
  <2>5. CASE n # H
    <3> DEFINE M == 1 + (P * (2*H) - 1) \div n
    <3>1. d = [value |-> n, shift |-> k + 1, magic |-> M % P]
      <4>1. Width + 1 + k = Width + (k + 1) /\ k + 1 \in Nat
        BY <1>1, <2>2
      <4>2. 2^(Width + 1 + k) = P * (2*H)
        BY <1>1, <2>3, <4>1, PowerOfSum DEF P
      <4>3. d = [value |-> n, shift |-> k + 1,
                 magic |-> (1 + (2^(Width + 1 + k) - 1) \div n) % 2^Width]
        BY <1>7, <2>5 DEF Division!prep
      <4> QED
        BY <4>2, <4>3 DEF P
    <3>2. 2*H <= P
      <4> DEFINE j == Width - (k + 1)
      <4>1. j \in Nat /\ k + 1 \in Nat /\ (k + 1) + j = Width
        BY <1>1, <2>1
      <4> HIDE DEF j
      <4>2. P = (2*H) * 2^j
        BY <2>3, <4>1, PowerOfSum DEF P
      <4>3. 2^j \in Nat \ {0}
        BY <4>1, PowerDoubles
      <4> DEFINE w == 2^j
      <4> HIDE DEF w, H, k
      <4>4. w \in Int /\ 1 <= w /\ P = (2*H) * w
        BY <4>2, <4>3 DEF w
      <4>5. 2*H \in Nat /\ 1 \in Int
        BY <2>3
      <4>6. (2*H)*1 <= (2*H)*w
        BY <4>4, <4>5, TimesGrows
      <4>7. (2*H)*1 = 2*H
        BY <2>3
      <4> QED
        BY <4>4, <4>6, <4>7
    <3> HIDE DEF H, k, d
    <3>3. n \in Nat \ {0} /\ H < n /\ n < 2*H
      BY <1>3, <1>7, <2>1, <2>3, <2>5
    <3>4. M \in P .. 2*P - 1 /\ \E e \in 0 .. n-1 : n * M = P * (2*H) + e
      BY <1>1, <2>3, <3>2, <3>3, Reciprocal
    <3> HIDE DEF M
    <3>5. M % P = M - P
      <4>1. M = P*1 + (M - P) /\ M - P \in 0 .. P-1
        BY <1>1, <3>4
      <4> DEFINE b == M - P
      <4>2. M = P*1 + b /\ b \in 0 .. P-1
        BY <4>1
      <4> HIDE DEF b
      <4>3. (P*1 + b) % P = b
        BY <1>1, <4>2, TwoDigits
      <4> QED
        BY <4>2, <4>3 DEF b
    <3>6. (x*(M - P)) \div P + x = (x*M) \div P
      <4> DEFINE y == x*(M - P)
                 c == y \div P
                 s == y % P
      <4>1. M - P \in Nat /\ M \in Nat
        BY <1>1, <3>4
      <4>2. y \in Nat
        BY <1>3, <4>1
      <4>3. x*M = y + P*x
        BY <1>1, <1>3, <4>1
      <4> HIDE DEF y
      <4>4. y = P*c + s /\ c \in Nat /\ s \in 0 .. P-1
        BY <1>1, <4>2, Divided
      <4> HIDE DEF c, s
      <4>5. x*M = P*(c + x) + s /\ c + x \in Nat
        BY <1>1, <1>3, <4>3, <4>4
      <4> DEFINE q == c + x
      <4>6. q \in Nat /\ x*M = P*q + s
        BY <4>5
      <4> HIDE DEF q
      <4>7. (x*M) \div P = q
        BY <1>1, <4>4, <4>6, TwoDigits
      <4> QED
        BY <4>7 DEF q, c, y
    <3>7. Division!divbymul32(x, d) = ((x*M) \div P) \div (2*H) /\ d.value = n
      <4>1. /\ d.value = n
            /\ Division!divbymul32(x, d) = ((x*(M % P)) \div P + x) \div 2^(k + 1)
        BY <1>4, <3>1
      <4> QED
        BY <2>3, <3>5, <3>6, <4>1
    <3>8. ((x*M) \div P) \div (2*H) = x \div n
      <4>1. PICK e \in 0 .. n-1 : n * M = P * (2*H) + e
        BY <3>4
      <4> DEFINE Q == 2*H
      <4>2. Q \in Nat \ {0} /\ n < Q /\ n*M = P*Q + e
        BY <2>3, <3>3, <4>1
      <4>3. M \in Nat
        BY <1>1, <3>4
      <4> HIDE DEF Q
      <4>4. ((x*M) \div P) \div Q = x \div n
        BY <1>1, <1>2, <3>3, <4>2, <4>3, ByReciprocal
      <4> QED
        BY <4>4 DEF Q
    <3>9. n # 0
      BY <1>7
    <3>10. d.value = n /\ Division!divbymul32(x, d) = x \div n
      BY <3>7, <3>8
    <3> QED
      BY <3>9, <3>10 DEF d
  <2> QED
    BY <2>4, <2>5
<1> QED
  BY <1>6, <1>7

\* What is prepared is for a number of bits, and the last division was exact.
DivisionInv == kernel = "division" =>
  /\ \E n \in Division!Word : divisor = Division!prep(n)
  /\ Division!Exact

\* The initial states.
LEMMA DivisionStart == KernelInit => DivisionInv
<1> SUFFICES ASSUME KernelInit, kernel = "division"
             PROVE  DivisionInv
  BY DEF DivisionInv
<1>1. Division!DivisionInit
  BY DEF KernelInit
<1>2. PICK n \in Division!Word : divisor = Division!prep(n)
  BY <1>1 DEF Division!DivisionInit
<1>3. answer.quotient = 0 /\ answer.numerator = 0
  BY <1>1 DEF Division!DivisionInit, Division!None
<1>4. n \in Nat
  <2>1. 2^Width \in Nat
    BY WidthAssumption, PowerDoubles
  <2> QED
    BY <2>1 DEF Division!Word
<1>5. divisor.value = n
  BY <1>2, PreparedDivides
<1>6. n # 0 => 0 \div n = 0
  BY <1>4
<1> QED
  BY <1>2, <1>3, <1>5, <1>6 DEF DivisionInv, Division!Exact

\* Every step.
LEMMA DivisionNext == DivisionInv /\ [KernelNext]_kernelvars => DivisionInv'
<1> SUFFICES ASSUME DivisionInv, [KernelNext]_kernelvars, kernel' = "division"
             PROVE  DivisionInv'
  BY DEF DivisionInv
<1>1. CASE UNCHANGED <<kernel, divisor, answer>>
  BY <1>1 DEF DivisionInv, Division!Exact
<1>2. CASE DivisionStep
  <2>1. kernel = "division" /\ Division!Divide
    BY <1>2 DEF DivisionStep
  <2>2. PICK n \in Division!Word : divisor = Division!prep(n)
    BY <2>1 DEF DivisionInv
  <2>3. PICK x \in Division!Word :
          answer' = [numerator |-> x, quotient |-> Division!divbymul32(x, divisor)]
    BY <2>1 DEF Division!Divide
  <2>4. divisor' = divisor
    BY <2>1 DEF Division!Divide
  <2>5. /\ divisor.value = n
        /\ Division!divbymul32(x, divisor) = IF n = 0 THEN 0 ELSE x \div n
    BY <2>2, PreparedDivides
  <2>6. /\ answer'.numerator = x
        /\ answer'.quotient = IF n = 0 THEN 0 ELSE x \div n
    BY <2>3, <2>5
  <2> QED
    BY <2>2, <2>4, <2>5, <2>6 DEF DivisionInv, Division!Exact
<1>3. ParamsStep => UNCHANGED <<kernel, divisor, answer>>
  BY DEF ParamsStep, divisionVars
<1>4. RouteStep => UNCHANGED <<kernel, divisor, answer>>
  BY DEF RouteStep, divisionVars
<1>5. CodecStep => UNCHANGED <<kernel, divisor, answer>>
  BY DEF CodecStep, divisionVars
<1>6. AccelStep => UNCHANGED <<kernel, divisor, answer>>
  BY DEF AccelStep, divisionVars
<1>7. UNCHANGED kernelvars => UNCHANGED <<kernel, divisor, answer>>
  BY DEF kernelvars, divisionVars
<1> QED
  BY <1>1, <1>2, <1>3, <1>4, <1>5, <1>6, <1>7 DEF KernelNext

\* One multiplication and one shift divide exactly: for words of any width, every
\* divisor of that width and every numerator, and by zero they yield zero.
THEOREM ExactHolds == KernelSpec => []Exact
<1>1. DivisionInv => Exact
  BY DEF DivisionInv, Exact
<1> QED
  BY <1>1, DivisionStart, DivisionNext, PTL DEF KernelSpec
=============================================================================
