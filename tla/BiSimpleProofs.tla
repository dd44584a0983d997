----------------------------- MODULE BiSimpleProofs -----------------------------
(***************************************************************************)
(* Theorems about BiSimple, the simple conveyor alone and under a          *)
(* biconveyor, for any number of PEs, any capacities and any client: no    *)
(* buffer overflows, and between the PEs there are FIFO links.  A          *)
(* biconveyor answers queries in the order in which they were pushed, in   *)
(* sessions that start with a ring that is empty and not too short for its *)
(* position; and without a sorter there is a reply to each query.          *)
(***************************************************************************)
EXTENDS BiSimple, FiniteSetTheorems, SequenceTheorems, WellFoundedInduction, TLAPS

-----------------------------------------------------------------------------
(* The inductive invariant *)

State == {"dormant", "working", "endgame", "cleanup", "complete"}
Standpoint == {"client", "agree", "begin", "answer"}
Entry == [dest : PE, item : Nat]
Buffer == [items : Seq(Nat), next : Nat]
Ballot == [cannot_comm : BOOLEAN, desire_comm : BOOLEAN, further_comm : BOOLEAN]

Types ==
  /\ opt \in Options /\ bi \in BOOLEAN
  /\ send \in [PE -> [PE -> Seq(Nat)]]
  /\ recv \in [PE -> [PE -> Buffer]]
  /\ circle \in [PE -> Seq(Entry)]
  /\ pull_from \in [PE -> 0 .. N]
  /\ nonempty \in [PE -> BOOLEAN] /\ overflow \in [PE -> BOOLEAN]
  /\ quiet \in [PE -> BOOLEAN] /\ over \in [PE -> BOOLEAN]
  /\ state \in [PE -> State] /\ at \in [PE -> Standpoint]
  /\ vote \in [PE -> Ballot]
  /\ pushed \in [PE -> [PE -> Nat]]
  /\ got \in [PE -> [PE -> Seq(Nat)]]
  /\ round \in [PE -> Nat]

\* How many of the first n entries of a circular buffer are for d.
Count(c, d, n) == Cardinality({m \in 1 .. n : c[m].dest = d})

\* The items of s are those that come after the first k of a link.
Follows(s, k) == \A i \in 1 .. Len(s) : s[i] = k + i

\* The entries for d in a circular buffer are those that come after the first k.
Queued(c, d, k) == \A n \in 1 .. Len(c) : c[n].dest = d => c[n].item = k + Count(c, d, n)

\* A link: the items that its destination has taken, the buffer from which it
\* takes them, the send buffer and the circular buffer follow each other.
Chain(g, items, next, sd, c, d, np) ==
  LET held == Len(g) - next + Len(items)
  IN /\ next <= Len(items) /\ next <= Len(g)
     /\ Follows(g, 0)
     /\ Follows(items, Len(g) - next)
     /\ Follows(sd, held)
     /\ Queued(c, d, held + Len(sd))
     /\ np = held + Len(sd) + Count(c, d, Len(c))

\* The items in the send buffer that are not replies.
Outgoing(p, d) == IF at[p] = "answer" THEN <<>> ELSE send[p][d]

ChainOf(p, d) == Chain(got[d][p], recv[d][p].items, recv[d][p].next,
                       Outgoing(p, d), circle[p], d, pushed[p][d])

\* Room in the buffers; a sorter fills a send buffer only with overflow set, and
\* replies may fill one.
Room(p) ==
  /\ \A d \in PE : /\ Len(send[p][d]) <= Capacity
                   /\ Len(recv[p][d].items) <= Capacity
                   /\ pushed[p][d] <= Quota[p][d]
                   /\ at[p] # "answer" /\ opt.scatter /\ ~overflow[p]
                        => Len(send[p][d]) < Capacity
  /\ Len(circle[p]) <= Circle
  /\ ~opt.scatter => circle[p] = <<>>

\* Has d taken all that it has received from p?
Read(d, p) == recv[d][p].next = Len(recv[d][p].items)

\* Where a PE that stands at a place may be in its round.
Course(p) ==
  /\ at[p] # "answer" => \A s \in PE : s < pull_from[p] => Read(p, s)
  /\ state[p] # "working" => over[p]
  /\ at[p] # "agree" => (over[p] => state[p] # "working")
  /\ at[p] = "agree" => /\ ~quiet[p] /\ state[p] \in {"working", "endgame"}
                        /\ (~vote[p].cannot_comm => pull_from[p] = N)
                        /\ (~vote[p].further_comm => over[p] /\ circle[p] = <<>>)
  /\ at[p] = "begin" => /\ state[p] = "dormant" /\ ~quiet[p]
                        /\ recv[p] = EmptyRecv /\ send[p] = EmptySend
  /\ state[p] \in {"complete", "dormant"} => pull_from[p] = N

\* The replies in the send buffers are to the queries that are answered; a
\* biconveyor is steady.
Answering(p) ==
  /\ bi => opt.steady /\ pull_from[p] = N
  /\ at[p] = "answer" =>
       /\ bi /\ \A q \in PE : at[q] = "answer"
       /\ \A s \in PE : /\ Len(send[p][s]) = recv[p][s].next
                        /\ \A k \in 1 .. Len(send[p][s]) :
                             send[p][s][k] = recv[p][s].items[k]

\* After the last exchange nothing is on its way, until all begin a new round.
Ended(p) == quiet[p] \/ at[p] = "begin"

AtEnd(p) ==
  /\ over[p] /\ circle[p] = <<>> /\ \A d \in PE : Outgoing(p, d) = <<>>
  /\ state[p] \in {"cleanup", "complete", "dormant"} /\ Ended(p)

Ending == /\ \A p, q \in PE : Ended(p) => AtEnd(q)
          /\ \A p \in PE : state[p] \in {"cleanup", "complete", "dormant"} => Ended(p)

IInv == /\ Types
        /\ \A p, d \in PE : ChainOf(p, d)
        /\ \A p \in PE : Room(p) /\ Course(p) /\ Answering(p)
        /\ Ending
        /\ \A p, q \in PE : round[p] = round[q]

-----------------------------------------------------------------------------
(* Numbers and sequences *)

\* A set of natural numbers that is not empty has a least one.
LEMMA LeastNumber ==
  ASSUME NEW T \in SUBSET Nat, T # {}
  PROVE  \E n \in T : \A m \in Nat : m < n => m \notin T
<1>1. \E n \in T : \A m \in T : <<m, n>> \notin OpToRel(<, Nat)
  BY WFMin, NatLessThanWellFounded, Zenon
<1>2. PICK n \in T : \A m \in T : <<m, n>> \notin OpToRel(<, Nat)
  BY <1>1
<1>3. \A m \in Nat : m < n => <<m, n>> \in OpToRel(<, Nat)
  BY DEF OpToRel
<1> QED
  BY <1>2, <1>3

\* What holds of 0, and of n+1 whenever it holds of n, holds of every number:
\* a set of numbers stands for the property.
LEMMA Induction ==
  ASSUME NEW T \in SUBSET Nat, 0 \in T, \A n \in T : n+1 \in T
  PROVE  T = Nat
<1> SUFFICES ASSUME Nat \ T # {} PROVE FALSE
  OBVIOUS
<1>1. PICK n \in Nat \ T : \A m \in Nat : m < n => m \notin Nat \ T
  BY LeastNumber
<1>2. n # 0 /\ n-1 \in Nat /\ n-1 < n
  BY <1>1
<1>3. n-1 \in T
  BY <1>1, <1>2
<1> QED
  BY <1>1, <1>2, <1>3

\* A sequence without its last element.
LEMMA Shorter ==
  ASSUME NEW q \in Seq(Nat), Len(q) > 0
  PROVE  /\ SubSeq(q, 1, Len(q) - 1) \in Seq(Nat)
         /\ Len(SubSeq(q, 1, Len(q) - 1)) = Len(q) - 1
         /\ \A i \in 1 .. Len(q) - 1 : SubSeq(q, 1, Len(q) - 1)[i] = q[i]
<1>1. Len(q) \in Nat /\ Len(q) - 1 \in Nat /\ \A i \in 1 .. Len(q) - 1 : q[i] \in Nat
  OBVIOUS
<1> DEFINE n == Len(q) - 1
           f == SubSeq(q, 1, n)
<1> HIDE DEF n
<1>2. n \in Nat /\ \A i \in 1 .. n : q[i] \in Nat
  BY <1>1 DEF n
<1>3. /\ f \in Seq(Nat) /\ Len(f) = IF 1 <= n THEN n - 1 + 1 ELSE 0
      /\ \A i \in 1 .. n - 1 + 1 : f[i] = q[1 + i - 1]
  BY <1>2, SubSeqProperties
<1>4. Len(f) = n
  BY <1>2, <1>3
<1>5. \A i \in 1 .. n : f[i] = q[i]
  BY <1>2, <1>3
<1> QED
  BY <1>3, <1>4, <1>5 DEF n

\* Counting entries.
LEMMA CountType ==
  ASSUME NEW c, NEW d, NEW n \in Nat
  PROVE  Count(c, d, n) \in Nat
<1>1. IsFiniteSet(1 .. n)
  BY FS_Interval
<1>2. IsFiniteSet({m \in 1 .. n : c[m].dest = d})
  BY <1>1, FS_Subset
<1> QED
  BY <1>2, FS_CardinalityType DEF Count

\* No entries.
LEMMA CountZero ==
  ASSUME NEW c, NEW d
  PROVE  Count(c, d, 0) = 0
<1>1. {m \in 1 .. 0 : c[m].dest = d} = {}
  OBVIOUS
<1>2. Cardinality({}) = 0
  BY FS_EmptySet
<1> QED
  BY <1>1, <1>2 DEF Count

\* One more entry.
LEMMA CountNext ==
  ASSUME NEW c, NEW d, NEW n \in Nat
  PROVE  Count(c, d, n+1) = Count(c, d, n) + (IF c[n+1].dest = d THEN 1 ELSE 0)
<1> DEFINE S == {m \in 1 .. n : c[m].dest = d}
           R == {m \in 1 .. n+1 : c[m].dest = d}
<1>1. IsFiniteSet(S) /\ Cardinality(S) \in Nat
  <2>1. IsFiniteSet(1 .. n)
    BY FS_Interval
  <2> QED
    BY <2>1, FS_Subset, FS_CardinalityType
<1>2. n+1 \notin S
  OBVIOUS
<1>3. Count(c, d, n) = Cardinality(S) /\ Count(c, d, n+1) = Cardinality(R)
  BY DEF Count
<1>4. CASE c[n+1].dest = d
  <2>1. R = S \cup {n+1}
    BY <1>4
  <2> HIDE DEF S, R
  <2>2. Cardinality(R) = Cardinality(S) + 1
    BY <1>1, <1>2, <2>1, FS_AddElement
  <2> QED
    BY <1>1, <1>3, <1>4, <2>2
<1>5. CASE c[n+1].dest # d
  <2>1. R = S
    BY <1>5
  <2> HIDE DEF S, R
  <2> QED
    BY <1>1, <1>3, <1>5, <2>1
<1> QED
  BY <1>4, <1>5

\* The count looks at no other entries.
LEMMA CountSame ==
  ASSUME NEW c, NEW e, NEW d, NEW n \in Nat, \A m \in 1 .. n : c[m].dest = e[m].dest
  PROVE  Count(c, d, n) = Count(e, d, n)
<1>1. {m \in 1 .. n : c[m].dest = d} = {m \in 1 .. n : e[m].dest = d}
  OBVIOUS
<1> QED
  BY <1>1 DEF Count

\* Without the first entry.
LEMMA CountTail ==
  ASSUME NEW c, NEW e, NEW d, NEW k \in Nat, \A m \in 1 .. k : e[m].dest = c[m+1].dest
  PROVE  Count(c, d, k+1) = Count(c, d, 1) + Count(e, d, k)
<1> DEFINE P(n) == Count(c, d, n+1) = Count(c, d, 1) + Count(e, d, n)
           T == {n \in Nat : n <= k => P(n)}
<1>1. Count(c, d, 1) \in Nat
  BY CountType
<1>2. P(0)
  BY <1>1, CountZero
<1>3. ASSUME NEW n \in Nat, n+1 <= k, P(n) PROVE P(n+1)
  <2>1. Count(c, d, (n+1)+1) = Count(c, d, n+1) + (IF c[(n+1)+1].dest = d THEN 1 ELSE 0)
    BY CountNext
  <2>2. Count(e, d, n+1) = Count(e, d, n) + (IF e[n+1].dest = d THEN 1 ELSE 0)
    BY CountNext
  <2>3. c[(n+1)+1].dest = e[n+1].dest
    BY <1>3
  <2>4. Count(c, d, n+1) \in Nat /\ Count(e, d, n) \in Nat
    BY CountType
  <2> QED
    BY <1>1, <1>3, <2>1, <2>2, <2>3, <2>4
<1> HIDE DEF P
<1>4. 0 \in T /\ \A n \in T : n+1 \in T
  BY <1>2, <1>3
<1>5. T = Nat
  <2>1. T \in SUBSET Nat
    OBVIOUS
  <2> HIDE DEF T
  <2> QED
    BY <1>4, <2>1, Induction
<1>6. P(k)
  BY <1>5
<1> QED
  BY <1>6 DEF P

-----------------------------------------------------------------------------
(* Links *)

\* A sequence that grows.
LEMMA FollowsAppend ==
  ASSUME NEW s \in Seq(Nat), NEW k \in Nat, Follows(s, k)
  PROVE  Follows(Append(s, k + Len(s) + 1), k)
BY DEF Follows

\* An item goes straight to the send buffer.
LEMMA ChainDirect ==
  ASSUME NEW g \in Seq(Nat), NEW items \in Seq(Nat), NEW next \in Nat, NEW sd \in Seq(Nat),
         NEW d, NEW np \in Nat, Chain(g, items, next, sd, <<>>, d, np)
  PROVE  Chain(g, items, next, Append(sd, np+1), <<>>, d, np+1)
<1> DEFINE held == Len(g) - next + Len(items)
<1>1. held \in Nat
  BY DEF Chain
<1>2. np = held + Len(sd)
  BY <1>1, CountZero DEF Chain
<1>3. Follows(Append(sd, np+1), held)
  BY <1>1, <1>2, FollowsAppend DEF Chain
<1>4. Len(Append(sd, np+1)) = Len(sd) + 1
  OBVIOUS
<1>5. Queued(<<>>, d, held + Len(sd) + 1)
  BY DEF Queued
<1>6. Len(sd) \in Nat
  OBVIOUS
<1> QED
  BY <1>1, <1>2, <1>3, <1>4, <1>5, <1>6, CountZero DEF Chain

\* An entry is added to the circular buffer.
LEMMA QueuedAppend ==
  ASSUME NEW c \in Seq(Entry), NEW x \in Entry, NEW d, NEW k \in Nat, Queued(c, d, k),
         x.dest = d => x.item = k + Count(c, d, Len(c)) + 1
  PROVE  /\ Queued(Append(c, x), d, k)
         /\ Count(Append(c, x), d, Len(c) + 1)
              = Count(c, d, Len(c)) + (IF x.dest = d THEN 1 ELSE 0)
<1> DEFINE e == Append(c, x)
<1>1. /\ Len(c) \in Nat /\ Len(e) = Len(c) + 1 /\ e[Len(c)+1] = x
      /\ \A m \in 1 .. Len(c) : e[m] = c[m]
  OBVIOUS
<1> HIDE DEF e
<1>2. ASSUME NEW n \in 0 .. Len(c) PROVE Count(e, d, n) = Count(c, d, n)
  BY <1>1, CountSame
<1>3. Count(e, d, Len(c)+1) = Count(e, d, Len(c)) + (IF e[Len(c)+1].dest = d THEN 1 ELSE 0)
  BY <1>1, CountNext
<1>4. Count(e, d, Len(c)+1) = Count(c, d, Len(c)) + (IF x.dest = d THEN 1 ELSE 0)
  BY <1>1, <1>2, <1>3
<1>5. ASSUME NEW n \in 1 .. Len(e), e[n].dest = d PROVE e[n].item = k + Count(e, d, n)
  <2>1. CASE n = Len(c) + 1
    <3>1. Count(c, d, Len(c)) \in Nat
      BY <1>1, CountType
    <3> QED
      BY <1>1, <1>4, <1>5, <2>1, <3>1
  <2>2. CASE n # Len(c) + 1
    <3>1. n \in 1 .. Len(c)
      BY <1>1, <2>2
    <3> QED
      BY <1>1, <1>2, <1>5, <3>1 DEF Queued
  <2> QED
    BY <2>1, <2>2
<1>6. Queued(e, d, k)
  BY <1>5 DEF Queued
<1> QED
  BY <1>4, <1>6 DEF e

\* The push of an item into the circular buffer, on its link and on the others.
LEMMA ChainCircle ==
  ASSUME NEW g \in Seq(Nat), NEW items \in Seq(Nat), NEW next \in Nat, NEW sd \in Seq(Nat),
         NEW c \in Seq(Entry), NEW d \in PE, NEW e \in PE, NEW np \in Nat, NEW x \in Entry,
         Chain(g, items, next, sd, c, d, np),
         x.dest = e, d = e => x.item = np + 1
  PROVE  Chain(g, items, next, sd, Append(c, x), d, IF d = e THEN np+1 ELSE np)
<1> DEFINE held == Len(g) - next + Len(items)
           k == held + Len(sd)
           n == Count(c, d, Len(c))
<1>1. held \in Nat
  BY DEF Chain
<1>2. k \in Nat
  <2> HIDE DEF held
  <2> QED
    BY <1>1
<1>3. n \in Nat
  <2>1. Len(c) \in Nat
    OBVIOUS
  <2> QED
    BY <2>1, CountType
<1>4. np = k + n /\ Queued(c, d, k)
  BY DEF Chain
<1>5. x.dest = d => x.item = k + n + 1
  BY <1>4
<1>6. /\ Queued(Append(c, x), d, k)
      /\ Count(Append(c, x), d, Len(c) + 1) = n + (IF x.dest = d THEN 1 ELSE 0)
  <2> HIDE DEF k
  <2> QED
    BY <1>2, <1>4, <1>5, QueuedAppend
<1>7. Len(Append(c, x)) = Len(c) + 1
  OBVIOUS
<1>8. (IF d = e THEN np+1 ELSE np) = k + Count(Append(c, x), d, Len(Append(c, x)))
  <2> HIDE DEF k, n
  <2> QED
    BY <1>2, <1>3, <1>4, <1>6, <1>7
<1> QED
  BY <1>6, <1>8 DEF Chain

\* The first entry leaves the circular buffer for its send buffer.
LEMMA QueuedTail ==
  ASSUME NEW c \in Seq(Entry), c # <<>>, NEW d, NEW k \in Nat, Queued(c, d, k)
  PROVE  LET one == IF c[1].dest = d THEN 1 ELSE 0
         IN /\ c[1].dest = d => c[1].item = k + 1
            /\ Queued(Tail(c), d, k + one)
            /\ Count(c, d, Len(c)) = one + Count(Tail(c), d, Len(Tail(c)))
<1> DEFINE e == Tail(c)
           one == IF c[1].dest = d THEN 1 ELSE 0
<1>1. /\ Len(c) \in Nat \ {0} /\ Len(e) = Len(c) - 1
      /\ \A m \in 1 .. Len(c) - 1 : e[m] = c[m+1]
  OBVIOUS
<1> HIDE DEF e
<1>2. Count(c, d, 1) = one
  <2>1. Count(c, d, 0+1) = Count(c, d, 0) + (IF c[0+1].dest = d THEN 1 ELSE 0)
    BY CountNext
  <2> QED
    BY <2>1, CountZero
<1>3. \A n \in 0 .. Len(c) - 1 : Count(c, d, n+1) = one + Count(e, d, n)
  <2> SUFFICES ASSUME NEW n \in 0 .. Len(c) - 1
               PROVE  Count(c, d, n+1) = one + Count(e, d, n)
    OBVIOUS
  <2>1. n \in Nat /\ \A m \in 1 .. n : e[m].dest = c[m+1].dest
    BY <1>1
  <2>2. Count(c, d, n+1) = Count(c, d, 1) + Count(e, d, n)
    BY <2>1, CountTail
  <2> QED
    BY <1>2, <2>2
<1>4. c[1].dest = d => c[1].item = k + 1
  BY <1>1, <1>2 DEF Queued
<1>5. ASSUME NEW n \in 1 .. Len(e), e[n].dest = d
      PROVE  e[n].item = k + one + Count(e, d, n)
  <2>1. n+1 \in 1 .. Len(c) /\ n \in 0 .. Len(c) - 1 /\ n \in Nat /\ e[n] = c[n+1]
    BY <1>1
  <2>2. c[n+1].item = k + Count(c, d, n+1)
    BY <1>5, <2>1 DEF Queued
  <2>3. Count(c, d, n+1) = one + Count(e, d, n)
    BY <1>3, <2>1
  <2>4. Count(e, d, n) \in Nat
    BY <2>1, CountType
  <2> QED
    BY <2>1, <2>2, <2>3, <2>4
<1>6. Queued(e, d, k + one)
  BY <1>5 DEF Queued
<1>7. Count(c, d, Len(c)) = one + Count(e, d, Len(e))
  <2>1. Len(e) \in 0 .. Len(c) - 1 /\ Len(e) + 1 = Len(c)
    BY <1>1
  <2> QED
    BY <1>3, <2>1
<1> QED
  BY <1>4, <1>6, <1>7 DEF e

\* The move of the first entry, seen from a link.
LEMMA ChainMove ==
  ASSUME NEW g \in Seq(Nat), NEW items \in Seq(Nat), NEW next \in Nat, NEW sd \in Seq(Nat),
         NEW c \in Seq(Entry), c # <<>>, NEW d \in PE, NEW np \in Nat,
         Chain(g, items, next, sd, c, d, np)
  PROVE  Chain(g, items, next, IF c[1].dest = d THEN Append(sd, c[1].item) ELSE sd,
               Tail(c), d, np)
<1> DEFINE held == Len(g) - next + Len(items)
           k == held + Len(sd)
           one == IF c[1].dest = d THEN 1 ELSE 0
           new == IF c[1].dest = d THEN Append(sd, c[1].item) ELSE sd
           n == Count(c, d, Len(c))
           rest == Count(Tail(c), d, Len(Tail(c)))
<1>1. held \in Nat
  BY DEF Chain
<1>2. k \in Nat
  <2> HIDE DEF held
  <2> QED
    BY <1>1
<1>3. rest \in Nat /\ one \in Nat
  <2>1. Len(Tail(c)) \in Nat
    OBVIOUS
  <2> QED
    BY <2>1, CountType
<1>4. np = k + n /\ Queued(c, d, k) /\ Follows(sd, held)
  BY DEF Chain
<1>5. /\ c[1].dest = d => c[1].item = k + 1
      /\ Queued(Tail(c), d, k + one)
      /\ n = one + rest
  <2> HIDE DEF k
  <2> QED
    BY <1>2, <1>4, QueuedTail
<1>6. Len(new) = Len(sd) + one /\ Follows(new, held)
  <2> HIDE DEF held
  <2>1. CASE c[1].dest = d
    <3>1. Append(sd, c[1].item) = Append(sd, held + Len(sd) + 1)
      BY <1>5, <2>1
    <3>2. Follows(Append(sd, held + Len(sd) + 1), held)
      BY <1>1, <1>4, FollowsAppend
    <3>3. Len(Append(sd, c[1].item)) = Len(sd) + 1
      OBVIOUS
    <3> QED
      BY <2>1, <3>1, <3>2, <3>3
  <2>2. CASE c[1].dest # d
    BY <1>4, <2>2
  <2> QED
    BY <2>1, <2>2
<1>7. Len(sd) \in Nat
  OBVIOUS
<1>8. held + Len(new) = k + one
  <2> HIDE DEF held, new, one
  <2> QED
    BY <1>1, <1>3, <1>6, <1>7
<1>9. np = held + Len(new) + rest
  <2>1. np = k + one + rest
    <3> HIDE DEF k, one, rest, n
    <3> QED
      BY <1>2, <1>3, <1>4, <1>5
  <2> QED
    BY <1>8, <2>1
<1>10. Queued(Tail(c), d, held + Len(new))
  BY <1>5, <1>8
<1>11. next <= Len(items) /\ next <= Len(g) /\ Follows(g, 0) /\ Follows(items, Len(g) - next)
  BY DEF Chain
<1> QED
  BY <1>6, <1>9, <1>10, <1>11 DEF Chain

\* An item is taken from the receive buffer.
LEMMA ChainTake ==
  ASSUME NEW g \in Seq(Nat), NEW items \in Seq(Nat), NEW next \in Nat, NEW sd \in Seq(Nat),
         NEW c \in Seq(Entry), NEW d \in PE, NEW np \in Nat,
         Chain(g, items, next, sd, c, d, np), next < Len(items)
  PROVE  /\ items[next+1] = Len(g) + 1 /\ Len(g) < np
         /\ Chain(Append(g, items[next+1]), items, next+1, sd, c, d, np)
<1> DEFINE held == Len(g) - next + Len(items)
           n == Count(c, d, Len(c))
           h == Append(g, items[next+1])
<1>1. /\ next <= Len(g) /\ Follows(g, 0) /\ Follows(items, Len(g) - next)
      /\ Follows(sd, held) /\ Queued(c, d, held + Len(sd))
      /\ np = held + Len(sd) + n
  BY DEF Chain
<1>2. items[next+1] = Len(g) + 1
  BY <1>1 DEF Follows
<1>3. n \in Nat
  <2>1. Len(c) \in Nat
    OBVIOUS
  <2> QED
    BY <2>1, CountType
<1>4. Len(g) < np
  <2> HIDE DEF n
  <2> QED
    BY <1>1, <1>3
<1>5. Len(h) = Len(g) + 1 /\ Len(h) - (next+1) = Len(g) - next
  <2>1. Len(h) = Len(g) + 1 /\ Len(g) \in Nat
    OBVIOUS
  <2> HIDE DEF h
  <2> QED
    BY <2>1
<1>6. Follows(h, 0)
  <2>1. h = Append(g, 0 + Len(g) + 1)
    BY <1>2
  <2>2. Follows(Append(g, 0 + Len(g) + 1), 0)
    BY <1>1, FollowsAppend
  <2> QED
    BY <2>1, <2>2
<1>7. next + 1 <= Len(items) /\ next + 1 <= Len(h)
  <2> HIDE DEF h
  <2> QED
    BY <1>1, <1>5
<1>8. Chain(h, items, next+1, sd, c, d, np)
  <2> HIDE DEF h
  <2> QED
    BY <1>1, <1>5, <1>6, <1>7 DEF Chain
<1> QED
  BY <1>2, <1>4, <1>8

\* The item that was taken last is given back.
LEMMA ChainBack ==
  ASSUME NEW g \in Seq(Nat), NEW items \in Seq(Nat), NEW next \in Nat, NEW sd \in Seq(Nat),
         NEW c, NEW d, NEW np,
         Chain(g, items, next, sd, c, d, np), next > 0
  PROVE  /\ g # <<>> /\ next - 1 \in Nat /\ SubSeq(g, 1, Len(g) - 1) \in Seq(Nat)
         /\ Chain(SubSeq(g, 1, Len(g) - 1), items, next - 1, sd, c, d, np)
<1> DEFINE h == SubSeq(g, 1, Len(g) - 1)
<1>1. next <= Len(g) /\ next <= Len(items) /\ Follows(g, 0) /\ g # <<>>
  BY DEF Chain
<1>2. /\ h \in Seq(Nat) /\ Len(h) = Len(g) - 1 /\ Len(g) \in Nat /\ Len(items) \in Nat
      /\ \A i \in 1 .. Len(h) : h[i] = g[i]
  <2>1. Len(g) > 0 /\ Len(g) \in Nat /\ Len(items) \in Nat
    BY <1>1
  <2>2. h \in Seq(Nat) /\ Len(h) = Len(g) - 1 /\ \A i \in 1 .. Len(g) - 1 : h[i] = g[i]
    BY <2>1, Shorter
  <2> HIDE DEF h
  <2> QED
    BY <2>1, <2>2
<1> HIDE DEF h
<1>3. /\ Len(h) - (next - 1) = Len(g) - next
      /\ next - 1 <= Len(items) /\ next - 1 <= Len(h)
  BY <1>1, <1>2
<1>4. Follows(h, 0)
  <2> SUFFICES ASSUME NEW i \in 1 .. Len(h) PROVE h[i] = 0 + i
    BY DEF Follows
  <2>1. i \in 1 .. Len(g) /\ h[i] = g[i]
    BY <1>2
  <2> QED
    BY <1>1, <2>1 DEF Follows
<1>5. Chain(h, items, next - 1, sd, c, d, np)
  BY <1>3, <1>4 DEF Chain
<1> QED
  BY <1>1, <1>2, <1>5 DEF h

\* The send buffer becomes the receive buffer of a destination that has read all.
LEMMA ChainExchange ==
  ASSUME NEW g \in Seq(Nat), NEW items \in Seq(Nat), NEW sd \in Seq(Nat),
         NEW c, NEW d, NEW np, Chain(g, items, Len(items), sd, c, d, np)
  PROVE  Chain(g, sd, 0, <<>>, c, d, np)
<1>1. Len(g) \in Nat /\ Len(items) \in Nat /\ Len(sd) \in Nat
  OBVIOUS
<1>2. Len(g) - Len(items) + Len(items) = Len(g) /\ Len(g) - 0 = Len(g)
  BY <1>1
<1>3. /\ Follows(g, 0) /\ Follows(sd, Len(g)) /\ Queued(c, d, Len(g) + Len(sd))
      /\ np = Len(g) + Len(sd) + Count(c, d, Len(c))
  BY <1>2 DEF Chain
<1>4. Follows(<<>>, Len(g) + Len(sd)) /\ Len(<<>>) = 0
  BY DEF Follows
<1>5. Len(g) - 0 + Len(sd) + 0 = Len(g) + Len(sd) /\ Len(g) - 0 + Len(sd) = Len(g) + Len(sd)
  BY <1>1
<1> QED
  BY <1>1, <1>2, <1>3, <1>4, <1>5 DEF Chain

\* A receive buffer that was read is emptied.
LEMMA ChainEmptied ==
  ASSUME NEW g \in Seq(Nat), NEW items \in Seq(Nat), NEW sd \in Seq(Nat),
         NEW c, NEW d, NEW np, Chain(g, items, Len(items), sd, c, d, np)
  PROVE  Chain(g, <<>>, 0, sd, c, d, np)
<1>1. Len(g) \in Nat /\ Len(items) \in Nat /\ Len(sd) \in Nat
  OBVIOUS
<1>2. Len(g) - Len(items) + Len(items) = Len(g) /\ Len(g) - 0 = Len(g)
  BY <1>1
<1>3. /\ Follows(g, 0) /\ Follows(sd, Len(g)) /\ Queued(c, d, Len(g) + Len(sd))
      /\ np = Len(g) + Len(sd) + Count(c, d, Len(c))
  BY <1>2 DEF Chain
<1>4. Follows(<<>>, Len(g)) /\ Len(<<>>) = 0
  BY DEF Follows
<1>5. Len(g) - 0 + 0 = Len(g)
  BY <1>1
<1> QED
  BY <1>1, <1>2, <1>3, <1>4, <1>5 DEF Chain

\* When nothing is on its way, all was taken.
LEMMA ChainOver ==
  ASSUME NEW g \in Seq(Nat), NEW items \in Seq(Nat),
         NEW d, NEW np, Chain(g, items, Len(items), <<>>, <<>>, d, np)
  PROVE  Len(g) = np
<1>1. Len(g) \in Nat /\ Len(items) \in Nat /\ Len(<<>>) = 0
  OBVIOUS
<1>2. np = Len(g) - Len(items) + Len(items) + 0 + 0
  BY <1>1, CountZero DEF Chain
<1> QED
  BY <1>1, <1>2

\* A new round.
LEMMA ChainNew ==
  ASSUME NEW d
  PROVE  Chain(<<>>, <<>>, 0, <<>>, <<>>, d, 0)
BY CountZero DEF Chain, Follows, Queued

-----------------------------------------------------------------------------
(* A flush of the circular buffer *)

\* The rest of a sequence.
Rest(c, k) == SubSeq(c, k+1, Len(c))

\* The rest of a circular buffer, and its first entry.
LEMMA RestOf ==
  ASSUME NEW c \in Seq(Entry), NEW k \in 0 .. Len(c)
  PROVE  /\ Rest(c, k) \in Seq(Entry) /\ Len(Rest(c, k)) = Len(c) - k
         /\ \A i \in 1 .. Len(c) - k : Rest(c, k)[i] = c[k+i]
<1>1. Len(c) \in Nat /\ k+1 \in Int /\ Len(c) \in Int
  OBVIOUS
<1>2. \A i \in k+1 .. Len(c) : c[i] \in Entry
  OBVIOUS
<1>3. /\ Rest(c, k) \in Seq(Entry)
      /\ Len(Rest(c, k)) = IF k+1 <= Len(c) THEN Len(c) - (k+1) + 1 ELSE 0
      /\ \A i \in 1 .. Len(c) - (k+1) + 1 : Rest(c, k)[i] = c[k+1+i-1]
  BY <1>1, <1>2, SubSeqProperties DEF Rest
<1>4. Len(Rest(c, k)) = Len(c) - k
  BY <1>1, <1>3
<1>5. ASSUME NEW i \in 1 .. Len(c) - k PROVE Rest(c, k)[i] = c[k+i]
  <2>1. i \in 1 .. Len(c) - (k+1) + 1 /\ k+1+i-1 = k+i
    BY <1>1
  <2> QED
    BY <1>3, <2>1
<1> QED
  BY <1>3, <1>4, <1>5

\* Nothing or all of it is left.
LEMMA RestEnds ==
  ASSUME NEW c \in Seq(Entry)
  PROVE  Rest(c, 0) = c /\ Rest(c, Len(c)) = <<>>
<1>1. Len(c) \in Nat /\ 0 \in 0 .. Len(c) /\ Len(c) \in 0 .. Len(c)
  OBVIOUS
<1>2. Rest(c, 0) = c
  <2> DEFINE r == Rest(c, 0)
  <2>1. r \in Seq(Entry) /\ Len(r) = Len(c) /\ \A i \in 1 .. Len(c) : r[i] = c[i]
    BY <1>1, RestOf
  <2> HIDE DEF r
  <2>2. r = c
    BY <2>1
  <2> QED
    BY <2>2 DEF r
<1>3. Rest(c, Len(c)) = <<>>
  <2> DEFINE r == Rest(c, Len(c))
  <2>1. r \in Seq(Entry) /\ Len(r) = 0
    BY <1>1, RestOf
  <2> HIDE DEF r
  <2>2. r = <<>>
    BY <2>1
  <2> QED
    BY <2>2 DEF r
<1> QED
  BY <1>2, <1>3

\* The first entry of the rest goes.
LEMMA RestTail ==
  ASSUME NEW c \in Seq(Entry), NEW k \in 0 .. Len(c), k < Len(c)
  PROVE  Rest(c, k) # <<>> /\ Rest(c, k)[1] = c[k+1] /\ Tail(Rest(c, k)) = Rest(c, k+1)
<1>1. Len(c) \in Nat /\ k+1 \in 0 .. Len(c)
  OBVIOUS
<1> DEFINE r == Rest(c, k)
           s == Rest(c, k+1)
<1>2. /\ r \in Seq(Entry) /\ Len(r) = Len(c) - k
      /\ \A i \in 1 .. Len(c) - k : r[i] = c[k+i]
  BY RestOf
<1>3. /\ s \in Seq(Entry) /\ Len(s) = Len(c) - (k+1)
      /\ \A i \in 1 .. Len(c) - (k+1) : s[i] = c[(k+1)+i]
  BY <1>1, RestOf
<1> HIDE DEF r, s
<1>4. r # <<>> /\ r[1] = c[k+1]
  BY <1>1, <1>2
<1> DEFINE t == Tail(r)
<1>5. /\ t \in Seq(Entry) /\ Len(t) = Len(r) - 1
      /\ \A i \in 1 .. Len(r) - 1 : t[i] = r[i+1]
  BY <1>2, <1>4
<1> HIDE DEF t
<1>6. Len(t) = Len(s)
  BY <1>1, <1>2, <1>3, <1>5
<1>7. ASSUME NEW i \in 1 .. Len(s) PROVE t[i] = s[i]
  <2>1. i \in 1 .. Len(r) - 1 /\ i+1 \in 1 .. Len(c) - k /\ k + (i+1) = (k+1) + i
    BY <1>1, <1>2, <1>3
  <2>2. t[i] = c[k + (i+1)]
    BY <1>2, <1>5, <2>1
  <2> QED
    BY <1>3, <2>1, <2>2
<1>8. t = s
  BY <1>3, <1>5, <1>6, <1>7
<1> QED
  BY <1>4, <1>8 DEF r, s, t

\* The send buffers while the first n entries of c move on from b.
IsAfter(f, c, b, n) ==
  f = [k \in 0 .. n |->
         IF k = 0 THEN b ELSE [f[k-1] EXCEPT ![c[k].dest] = Append(@, c[k].item)]]

\* There are such send buffers.
LEMMA AfterExists ==
  ASSUME NEW c, NEW b, NEW n \in Nat
  PROVE  \E f : IsAfter(f, c, b, n)
<1> DEFINE Exists(k) == \E f : IsAfter(f, c, b, k)
           T == {k \in Nat : Exists(k)}
<1>1. Exists(0)
  <2> DEFINE f == [k \in 0 .. 0 |-> b]
  <2>1. IsAfter(f, c, b, 0)
    BY DEF IsAfter
  <2> QED
    BY <2>1
<1>2. ASSUME NEW k \in Nat, Exists(k) PROVE Exists(k+1)
  <2>1. PICK f : IsAfter(f, c, b, k)
    BY <1>2
  <2> DEFINE Moved(h, i) == [h EXCEPT ![c[i].dest] = Append(@, c[i].item)]
             g == [i \in 0 .. k+1 |-> IF i = k+1 THEN Moved(f[k], k+1) ELSE f[i]]
  <2>2. /\ DOMAIN f = 0 .. k
        /\ \A i \in 0 .. k : f[i] = IF i = 0 THEN b ELSE Moved(f[i-1], i)
    BY <2>1 DEF IsAfter
  <2> HIDE DEF Moved
  <2>3. ASSUME NEW i \in 0 .. k+1
        PROVE  g[i] = IF i = 0 THEN b ELSE Moved(g[i-1], i)
    <3>1. CASE i = k+1
      <4>1. i # 0 /\ i-1 = k /\ i-1 \in 0 .. k+1 /\ i-1 # k+1
        BY <3>1
      <4>2. g[i-1] = f[k] /\ g[i] = Moved(f[k], k+1)
        BY <3>1, <4>1
      <4> QED
        BY <3>1, <4>1, <4>2
    <3>2. CASE i # k+1
      <4>1. i \in 0 .. k /\ g[i] = f[i]
        BY <3>2
      <4>2. CASE i = 0
        BY <2>2, <4>1, <4>2
      <4>3. CASE i # 0
        <5>1. i-1 \in 0 .. k+1 /\ i-1 # k+1
          BY <3>2, <4>3
        <5>2. g[i-1] = f[i-1]
          BY <5>1
        <5> QED
          BY <2>2, <4>1, <4>3, <5>2
      <4> QED
        BY <4>2, <4>3
    <3> QED
      BY <3>1, <3>2
  <2>4. g = [i \in 0 .. k+1 |-> IF i = 0 THEN b ELSE Moved(g[i-1], i)]
    <3>1. g = [i \in 0 .. k+1 |-> g[i]]
      OBVIOUS
    <3> HIDE DEF g
    <3> QED
      BY <2>3, <3>1
  <2>5. IsAfter(g, c, b, k+1)
    BY <2>4 DEF IsAfter, Moved
  <2> QED
    BY <2>5
<1> HIDE DEF Exists
<1>3. 0 \in T /\ \A k \in T : k+1 \in T
  BY <1>1, <1>2
<1>4. T = Nat
  <2>1. T \in SUBSET Nat
    OBVIOUS
  <2> HIDE DEF T
  <2> QED
    BY <1>3, <2>1, Induction
<1>5. Exists(n)
  BY <1>4
<1> QED
  BY <1>5 DEF Exists

\* One entry moves on.
LEMMA AfterStep ==
  ASSUME NEW f, NEW c, NEW b, NEW n \in Nat, IsAfter(f, c, b, n)
  PROVE  /\ f[0] = b
         /\ \A k \in 0 .. n-1 :
              f[k+1] = [f[k] EXCEPT ![c[k+1].dest] = Append(@, c[k+1].item)]
<1>1. f[0] = b
  BY DEF IsAfter
<1>2. ASSUME NEW k \in 0 .. n-1
      PROVE  f[k+1] = [f[k] EXCEPT ![c[k+1].dest] = Append(@, c[k+1].item)]
  <2>1. k+1 \in 0 .. n /\ k+1 # 0 /\ (k+1)-1 = k
    OBVIOUS
  <2>2. f[k+1] = [f[(k+1)-1] EXCEPT ![c[k+1].dest] = Append(@, c[k+1].item)]
    BY <2>1 DEF IsAfter
  <2> QED
    BY <2>1, <2>2
<1> QED
  BY <1>1, <1>2

\* The sequence s is longer than t by k.
Longer(s, t, k) == Len(s) = Len(t) + k

\* The lengths of the send buffers.
LEMMA AfterLengths ==
  ASSUME NEW f, NEW c \in Seq(Entry), NEW b \in [PE -> Seq(Nat)], NEW n \in 0 .. Len(c),
         IsAfter(f, c, b, n), NEW m \in 0 .. n, NEW e \in PE
  PROVE  f[m] \in [PE -> Seq(Nat)] /\ Longer(f[m][e], b[e], Count(c, e, m))
<1> DEFINE P(k) == /\ f[k] \in [PE -> Seq(Nat)]
                   /\ \A d \in PE : Len(f[k][d]) = Len(b[d]) + Count(c, d, k)
           T == {k \in Nat : k <= n => P(k)}
<1>0. n \in Nat /\ Len(c) \in Nat /\ n <= Len(c)
  OBVIOUS
<1>1. P(0)
  <2>1. f[0] = b
    BY <1>0, AfterStep
  <2> QED
    BY <2>1, CountZero
<1>2. ASSUME NEW k \in Nat, k+1 <= n, P(k) PROVE P(k+1)
  <2>1. k \in 0 .. n-1 /\ k+1 \in 1 .. Len(c)
    BY <1>0, <1>2
  <2> DEFINE x == c[k+1]
             g == f[k]
             h == f[k+1]
  <2>2. x \in Entry
    BY <2>1
  <2>3. x.dest \in PE /\ x.item \in Nat
    BY <2>2 DEF Entry
  <2>4. h = [g EXCEPT ![x.dest] = Append(@, x.item)]
    BY <1>0, <2>1, AfterStep
  <2>5. /\ g \in [PE -> Seq(Nat)]
        /\ \A d \in PE : Len(g[d]) = Len(b[d]) + Count(c, d, k)
    BY <1>2
  <2>6. \A d \in PE : Count(c, d, k+1) = Count(c, d, k) + (IF x.dest = d THEN 1 ELSE 0)
    BY CountNext
  <2>7. \A d \in PE : Count(c, d, k) \in Nat /\ Len(b[d]) \in Nat
    BY CountType
  <2> HIDE DEF x, g, h
  <2>8. h \in [PE -> Seq(Nat)] /\ h[x.dest] = Append(g[x.dest], x.item)
        /\ \A d \in PE : d # x.dest => h[d] = g[d]
    BY <2>3, <2>4, <2>5
  <2>9. Len(h[x.dest]) = Len(g[x.dest]) + 1
    BY <2>3, <2>5, <2>8
  <2>10. ASSUME NEW d \in PE PROVE Len(h[d]) = Len(b[d]) + Count(c, d, k+1)
    <3>1. CASE x.dest = d
      <4>1. Len(h[d]) = Len(g[d]) + 1 /\ Len(g[d]) = Len(b[d]) + Count(c, d, k)
        BY <2>5, <2>9, <3>1
      <4>2. Count(c, d, k+1) = Count(c, d, k) + 1
        BY <2>6, <3>1
      <4> QED
        BY <2>7, <4>1, <4>2
    <3>2. CASE x.dest # d
      <4>1. Len(h[d]) = Len(g[d]) /\ Len(g[d]) = Len(b[d]) + Count(c, d, k)
        BY <2>5, <2>8, <3>2
      <4>2. Count(c, d, k+1) = Count(c, d, k)
        <5>1. Count(c, d, k+1) = Count(c, d, k) + 0
          BY <2>6, <3>2
        <5> QED
          BY <2>7, <5>1
      <4> QED
        BY <4>1, <4>2
    <3> QED
      BY <3>1, <3>2
  <2> QED
    BY <2>8, <2>10 DEF h
<1> HIDE DEF P
<1>3. 0 \in T /\ \A k \in T : k+1 \in T
  BY <1>1, <1>2
<1>4. T = Nat
  <2>1. T \in SUBSET Nat
    OBVIOUS
  <2> HIDE DEF T
  <2> QED
    BY <1>3, <2>1, Induction
<1>5. P(m)
  BY <1>0, <1>4
<1> QED
  BY <1>5 DEF P, Longer

\* The links stay as they are.
LEMMA AfterChain ==
  ASSUME NEW f, NEW c \in Seq(Entry), NEW b \in [PE -> Seq(Nat)], NEW n \in 0 .. Len(c),
         IsAfter(f, c, b, n),
         NEW g \in Seq(Nat), NEW items \in Seq(Nat), NEW next \in Nat, NEW d \in PE,
         NEW np \in Nat, Chain(g, items, next, b[d], c, d, np)
  PROVE  Chain(g, items, next, f[n][d], Rest(c, n), d, np)
<1> DEFINE P(k) == Chain(g, items, next, f[k][d], Rest(c, k), d, np)
           T == {k \in Nat : k <= n => P(k)}
<1>0. n \in Nat /\ Len(c) \in Nat /\ n <= Len(c)
  OBVIOUS
<1>1. P(0)
  <2>1. f[0] = b /\ Rest(c, 0) = c
    BY <1>0, AfterStep, RestEnds
  <2> QED
    BY <2>1
<1>2. ASSUME NEW k \in Nat, k+1 <= n, P(k) PROVE P(k+1)
  <2>1. k \in 0 .. n-1 /\ k \in 0 .. n /\ k+1 \in 1 .. Len(c) /\ k \in 0 .. Len(c) /\ k < Len(c)
    BY <1>0, <1>2
  <2> DEFINE x == c[k+1]
             r == Rest(c, k)
             s == f[k]
             h == f[k+1]
  <2>2. x \in Entry
    BY <2>1
  <2>3. x.dest \in PE /\ x.item \in Nat
    BY <2>2 DEF Entry
  <2>4. h = [s EXCEPT ![x.dest] = Append(@, x.item)]
    BY <1>0, <2>1, AfterStep
  <2>5. s \in [PE -> Seq(Nat)]
    BY <2>1, AfterLengths
  <2>6. r \in Seq(Entry) /\ r # <<>> /\ r[1] = x /\ Tail(r) = Rest(c, k+1)
    BY <2>1, RestOf, RestTail
  <2>7. Chain(g, items, next, s[d], r, d, np)
    BY <1>2
  <2> HIDE DEF x, r, s, h
  <2>8. s[d] \in Seq(Nat)
    BY <2>5
  <2>9. Chain(g, items, next, IF r[1].dest = d THEN Append(s[d], r[1].item) ELSE s[d],
              Tail(r), d, np)
    BY <2>6, <2>7, <2>8, ChainMove
  <2>10. h[d] = IF r[1].dest = d THEN Append(s[d], r[1].item) ELSE s[d]
    BY <2>3, <2>4, <2>5, <2>6
  <2>11. Chain(g, items, next, h[d], Tail(r), d, np)
    BY <2>9, <2>10
  <2> QED
    BY <2>6, <2>11 DEF h
<1> HIDE DEF P
<1>3. 0 \in T /\ \A k \in T : k+1 \in T
  BY <1>1, <1>2
<1>4. T = Nat
  <2>1. T \in SUBSET Nat
    OBVIOUS
  <2> HIDE DEF T
  <2> QED
    BY <1>3, <2>1, Induction
<1>5. P(n)
  <2>1. n \in T
    <3> HIDE DEF T
    <3> QED
      BY <1>0, <1>4
  <2> QED
    BY <1>0, <2>1
<1> QED
  BY <1>5 DEF P

\* A flush of n entries: what it does to the send buffers and to the links.
LEMMA FlushedIs ==
  ASSUME NEW p \in PE, circle[p] \in Seq(Entry), send[p] \in [PE -> Seq(Nat)],
         NEW n \in 0 .. Len(circle[p])
  PROVE  /\ Flushed(p, n) \in [PE -> Seq(Nat)]
         /\ \A d \in PE : Len(Flushed(p, n)[d]) = Len(send[p][d]) + Count(circle[p], d, n)
         /\ \A d \in PE : \A g \in Seq(Nat), items \in Seq(Nat), next \in Nat, np \in Nat :
              Chain(g, items, next, send[p][d], circle[p], d, np)
                => Chain(g, items, next, Flushed(p, n)[d], Rest(circle[p], n), d, np)
<1> DEFINE c == circle[p]
           b == send[p]
           f == CHOOSE h : IsAfter(h, c, b, n)
<1>1. n \in Nat /\ n \in 0 .. n
  OBVIOUS
<1>2. IsAfter(f, c, b, n)
  <2>1. \E h : IsAfter(h, c, b, n)
    BY <1>1, AfterExists
  <2> QED
    BY <2>1, Zenon
<1>3. Flushed(p, n) = f[n]
  BY DEF Flushed, IsAfter
<1>4. c \in Seq(Entry) /\ b \in [PE -> Seq(Nat)] /\ n \in 0 .. Len(c)
  OBVIOUS
<1> HIDE DEF f, c, b
<1>5. /\ f[n] \in [PE -> Seq(Nat)]
      /\ \A d \in PE : Len(f[n][d]) = Len(b[d]) + Count(c, d, n)
  <2>1. IsAfter(f, c, b, n) /\ c \in Seq(Entry) /\ b \in [PE -> Seq(Nat)] /\ n \in 0 .. Len(c) /\ n \in 0 .. n
    BY <1>1, <1>2, <1>4
  <2>2. f[n] \in [PE -> Seq(Nat)]
    <3>1. PE # {}
      BY SimpleAssumption DEF PE
    <3> QED
      BY <2>1, <3>1, AfterLengths, Zenon
  <2>3. ASSUME NEW d \in PE PROVE Len(f[n][d]) = Len(b[d]) + Count(c, d, n)
    <3>1. Longer(f[n][d], b[d], Count(c, d, n))
      BY <2>1, AfterLengths, Zenon
    <3> QED
      BY <3>1 DEF Longer
  <2> QED
    BY <2>2, <2>3
<1>6. \A d \in PE : \A g \in Seq(Nat), items \in Seq(Nat), next \in Nat, np \in Nat :
        Chain(g, items, next, b[d], c, d, np)
          => Chain(g, items, next, f[n][d], Rest(c, n), d, np)
  BY <1>2, <1>4, AfterChain
<1> QED
  BY <1>3, <1>5, <1>6 DEF c, b

\* What is known of a PE whose sorter may be flushed.
Flushable(p) ==
  /\ circle[p] \in Seq(Entry) /\ send[p] \in [PE -> Seq(Nat)]
  /\ \A d \in PE : Len(send[p][d]) < Capacity

\* The length of a send buffer after a flush.
LEMMA FlushedLength ==
  ASSUME NEW p \in PE, Flushable(p), NEW n \in 0 .. Len(circle[p]), NEW d \in PE
  PROVE  /\ Longer(Flushed(p, n)[d], send[p][d], Count(circle[p], d, n))
         /\ Len(send[p][d]) \in Nat /\ Count(circle[p], d, n) \in Nat
<1>1. Len(send[p][d]) \in Nat /\ n \in Nat
  BY DEF Flushable
<1>2. Count(circle[p], d, n) \in Nat
  BY <1>1, CountType
<1>3. Len(Flushed(p, n)[d]) = Len(send[p][d]) + Count(circle[p], d, n)
  BY FlushedIs DEF Flushable
<1> QED
  BY <1>1, <1>2, <1>3 DEF Longer

\* While no buffer stops the flush there is room in all of them.
LEMMA FlushRoom ==
  ASSUME NEW p \in PE, Flushable(p), NEW n \in 0 .. Len(circle[p]),
         \A i \in 1 .. n : i \notin Stops(p)
  PROVE  \A d \in PE : Len(send[p][d]) + Count(circle[p], d, n) < Capacity
<1> DEFINE c == circle[p]
           b == send[p]
           P(k) == \A d \in PE : Len(b[d]) + Count(c, d, k) < Capacity
           T == {k \in Nat : k <= n => P(k)}
<1>0. n \in Nat /\ Len(c) \in Nat /\ n <= Len(c) /\ c \in Seq(Entry) /\ Capacity \in Nat
  BY SimpleAssumption DEF Flushable
<1>1. P(0)
  <2> SUFFICES ASSUME NEW d \in PE PROVE Len(b[d]) + Count(c, d, 0) < Capacity
    OBVIOUS
  <2>1. Count(c, d, 0) = 0
    BY CountZero
  <2>2. Len(b[d]) < Capacity /\ Len(b[d]) \in Nat
    BY DEF Flushable
  <2> HIDE DEF b
  <2> QED
    BY <2>1, <2>2
<1>2. ASSUME NEW k \in Nat, k+1 <= n, P(k) PROVE P(k+1)
  <2>1. k+1 \in 1 .. n /\ k+1 \in 1 .. Len(c) /\ k+1 \in 0 .. Len(c) /\ k \in 0 .. Len(c)
    BY <1>0, <1>2
  <2> DEFINE e == c[k+1].dest
  <2>2. e \in PE
    <3>1. c[k+1] \in Entry
      BY <1>0, <2>1
    <3> QED
      BY <3>1 DEF Entry
  <2>3. ~(Len(Flushed(p, k+1)[e]) >= Capacity)
    BY <1>0, <2>1 DEF Stops
  <2>4. Longer(Flushed(p, k+1)[e], b[e], Count(c, e, k+1)) /\ Len(b[e]) \in Nat
    BY <2>1, <2>2, FlushedLength
  <2>5. Count(c, e, k+1) \in Nat
    BY <2>1, <2>2, FlushedLength
  <2> HIDE DEF e, c, b
  <2>6. Len(b[e]) + Count(c, e, k+1) < Capacity
    BY <1>0, <2>3, <2>4, <2>5 DEF Longer
  <2> SUFFICES ASSUME NEW d \in PE PROVE Len(b[d]) + Count(c, d, k+1) < Capacity
    OBVIOUS
  <2>7. CASE d = e
    BY <2>6, <2>7
  <2>8. CASE d # e
    <3>1. Count(c, d, k+1) = Count(c, d, k) + (IF c[k+1].dest = d THEN 1 ELSE 0)
      BY CountNext
    <3>2. Count(c, d, k) \in Nat
      BY CountType
    <3>3. Count(c, d, k+1) = Count(c, d, k)
      BY <2>8, <3>1, <3>2 DEF e
    <3> QED
      BY <1>2, <3>3
  <2> QED
    BY <2>7, <2>8
<1> HIDE DEF P
<1>3. 0 \in T /\ \A k \in T : k+1 \in T
  BY <1>1, <1>2
<1>4. T = Nat
  <2>1. T \in SUBSET Nat
    OBVIOUS
  <2> HIDE DEF T
  <2> QED
    BY <1>3, <2>1, Induction
<1>5. n \in T
  <2> HIDE DEF T
  <2> QED
    BY <1>0, <1>4
<1>6. P(n)
  BY <1>0, <1>5
<1> QED
  BY <1>6 DEF P

\* How many entries a flush moves: all of them, or up to the first that fills a
\* send buffer.
LEMMA FlushCountIs ==
  ASSUME NEW p \in PE, Flushable(p)
  PROVE  /\ FlushCount(p) \in 0 .. Len(circle[p])
         /\ \A d \in PE : Len(Flushed(p, FlushCount(p))[d]) <= Capacity
         /\ FlushResult(p) # "-1" => /\ FlushCount(p) = Len(circle[p])
                                     /\ \A d \in PE : Len(Flushed(p, FlushCount(p))[d]) < Capacity
<1> DEFINE c == circle[p]
           n == FlushCount(p)
<1>0. c \in Seq(Entry) /\ Len(c) \in Nat /\ Capacity \in Nat
  BY SimpleAssumption DEF Flushable
<1>1. Stops(p) \in SUBSET (1 .. Len(c))
  BY <1>0 DEF Stops
<1>2. FlushResult(p) # "-1" => Stops(p) = {}
  <2>1. CASE c = <<>>
    BY <1>1, <2>1
  <2>2. CASE c # <<>>
    BY <2>2 DEF FlushResult
  <2> QED
    BY <2>1, <2>2
<1>3. CASE Stops(p) = {}
  <2>1. n = Len(c) /\ n \in 0 .. Len(c)
    BY <1>0, <1>3 DEF FlushCount
  <2>2. \A d \in PE : Len(send[p][d]) + Count(c, d, n) < Capacity
    <3>1. \A i \in 1 .. n : i \notin Stops(p)
      BY <1>3
    <3> HIDE DEF n
    <3> QED
      BY <2>1, <3>1, FlushRoom
  <2>3. ASSUME NEW d \in PE PROVE Len(Flushed(p, n)[d]) < Capacity /\ Len(Flushed(p, n)[d]) \in Nat
    <3> HIDE DEF n
    <3>1. /\ Longer(Flushed(p, n)[d], send[p][d], Count(c, d, n))
          /\ Len(send[p][d]) \in Nat /\ Count(c, d, n) \in Nat
      BY <2>1, FlushedLength
    <3> QED
      BY <2>2, <3>1 DEF Longer
  <2>4. \A d \in PE : Len(Flushed(p, n)[d]) <= Capacity /\ Len(Flushed(p, n)[d]) < Capacity
    <3> HIDE DEF n
    <3> QED
      BY <1>0, <2>3
  <2> HIDE DEF n
  <2> QED
    BY <2>1, <2>4 DEF n
<1>4. CASE Stops(p) # {}
  <2>1. \E i \in Stops(p) : \A m \in Stops(p) : i <= m
    <3>1. Stops(p) \in SUBSET Nat
      BY <1>0, <1>1
    <3>2. PICK i \in Stops(p) : \A m \in Nat : m < i => m \notin Stops(p)
      BY <1>4, <3>1, LeastNumber
    <3> QED
      BY <3>1, <3>2
  <2>2. n \in Stops(p) /\ \A m \in Stops(p) : n <= m
    BY <1>4, <2>1 DEF FlushCount
  <2> HIDE DEF n
  <2>3. n \in 1 .. Len(c) /\ n-1 \in 0 .. Len(c) /\ n \in 0 .. Len(c)
    BY <1>0, <1>1, <2>2
  <2>4. \A i \in 1 .. n-1 : i \notin Stops(p)
    BY <2>2, <2>3
  <2>5. \A d \in PE : Len(send[p][d]) + Count(c, d, n-1) < Capacity
    BY <2>3, <2>4, FlushRoom
  <2>6. ASSUME NEW d \in PE PROVE Len(Flushed(p, n)[d]) <= Capacity
    <3>1. /\ Longer(Flushed(p, n)[d], send[p][d], Count(c, d, n))
          /\ Len(send[p][d]) \in Nat /\ Count(c, d, n) \in Nat
      BY <2>3, FlushedLength
    <3>2. Count(c, d, n-1) \in Nat
      BY <2>3, FlushedLength
    <3>3. Count(c, d, (n-1)+1) = Count(c, d, n-1) + (IF c[(n-1)+1].dest = d THEN 1 ELSE 0)
      <4>1. n-1 \in Nat
        BY <1>0, <2>3
      <4> QED
        BY <4>1, CountNext
    <3>4. (n-1)+1 = n
      BY <1>0, <2>3
    <3>5. Count(c, d, n) <= Count(c, d, n-1) + 1
      BY <3>2, <3>3, <3>4
    <3>6. Len(send[p][d]) + Count(c, d, n-1) < Capacity
      BY <2>5
    <3> QED
      BY <1>0, <3>1, <3>2, <3>5, <3>6 DEF Longer
  <2> QED
    BY <1>2, <1>4, <2>3, <2>6 DEF n
<1> QED
  BY <1>3, <1>4

-----------------------------------------------------------------------------
(* Frames *)

\* One entry of a table is changed.
LEMMA OneEntry ==
  ASSUME NEW S, NEW T, NEW V, NEW a \in [S -> [T -> V]], NEW i \in S, NEW j \in T, NEW v \in V
  PROVE  LET b == [a EXCEPT ![i][j] = v]
         IN /\ b \in [S -> [T -> V]]
            /\ b[i][j] = v
            /\ \A k \in S, l \in T : k # i \/ l # j => b[k][l] = a[k][l]
            /\ \A k \in S : k # i => b[k] = a[k]
OBVIOUS

\* One row of a table is changed.
LEMMA OneRow ==
  ASSUME NEW S, NEW V, NEW a \in [S -> V], NEW i \in S, NEW v \in V
  PROVE  LET b == [a EXCEPT ![i] = v]
         IN b \in [S -> V] /\ b[i] = v /\ \A k \in S : k # i => b[k] = a[k]
OBVIOUS

\* Ranks.
LEMMA Ranks ==
  /\ N \in Nat \ {0} /\ PE = 0 .. N-1 /\ PE # {}
  /\ \A p \in PE : p \in Nat /\ p < N /\ p \in 0 .. N
BY SimpleAssumption DEF PE

\* The types of what belongs to a PE or to a link.
LEMMA TypesAt ==
  ASSUME Types, NEW p \in PE, NEW d \in PE
  PROVE  /\ send[p] \in [PE -> Seq(Nat)] /\ send[p][d] \in Seq(Nat)
         /\ recv[p] \in [PE -> Buffer] /\ recv[p][d] \in Buffer
         /\ recv[p][d].items \in Seq(Nat) /\ recv[p][d].next \in Nat
         /\ circle[p] \in Seq(Entry) /\ pushed[p][d] \in Nat /\ got[p][d] \in Seq(Nat)
         /\ pushed[p] \in [PE -> Nat] /\ got[p] \in [PE -> Seq(Nat)]
         /\ Outgoing(p, d) \in Seq(Nat)
<1>1. send[p] \in [PE -> Seq(Nat)] /\ send[p][d] \in Seq(Nat)
  BY DEF Types
<1>2. recv[p] \in [PE -> Buffer] /\ recv[p][d] \in Buffer
  BY DEF Types
<1>3. recv[p][d].items \in Seq(Nat) /\ recv[p][d].next \in Nat
  BY <1>2 DEF Buffer
<1>4. /\ circle[p] \in Seq(Entry) /\ pushed[p][d] \in Nat /\ got[p][d] \in Seq(Nat)
      /\ pushed[p] \in [PE -> Nat] /\ got[p] \in [PE -> Seq(Nat)]
  BY DEF Types
<1>5. Outgoing(p, d) \in Seq(Nat)
  BY <1>1 DEF Outgoing
<1> QED
  BY <1>1, <1>2, <1>3, <1>4, <1>5

\* The queries are answered by all PEs together.
LEMMA NoAnswers ==
  ASSUME IInv, NEW p \in PE, at[p] # "answer"
  PROVE  \A q \in PE : at[q] # "answer"
BY DEF IInv, Answering

\* While a PE may push, no PE has reached the end.
LEMMA NotEnding ==
  ASSUME IInv, NEW p \in PE, ~over[p]
  PROVE  \A q \in PE : ~Ended(q) /\ state[q] \notin {"cleanup", "complete", "dormant"}
BY DEF IInv, Ending, AtEnd

\* The buffers of q are untouched.
LEMMA RoomSame ==
  ASSUME IInv, NEW q \in PE, opt' = opt, send'[q] = send[q], recv'[q] = recv[q],
         pushed'[q] = pushed[q], overflow'[q] = overflow[q], circle'[q] = circle[q],
         at[q] = "answer" => at'[q] = "answer"
  PROVE  Room(q)'
BY DEF IInv, Room

\* The course of q goes on as before.
LEMMA CourseSame ==
  ASSUME IInv, NEW q \in PE, at'[q] = at[q], pull_from'[q] = pull_from[q],
         recv'[q] = recv[q], state'[q] = state[q], over'[q] = over[q],
         quiet'[q] = quiet[q], vote'[q] = vote[q], circle'[q] = circle[q],
         send'[q] = send[q]
  PROVE  Course(q)'
BY DEF IInv, Course, Read

\* No queries are answered.
LEMMA AnsweringSame ==
  ASSUME IInv, NEW q \in PE, opt' = opt, bi' = bi, bi => pull_from'[q] = N,
         at'[q] # "answer"
  PROVE  Answering(q)'
BY DEF IInv, Answering

\* The end is as near as before.
LEMMA EndingSame ==
  ASSUME IInv, UNCHANGED <<over, circle, at, send, state, quiet>>
  PROVE  Ending'
BY DEF IInv, Ending, AtEnd, Ended, Outgoing

\* A link that a step leaves alone.
LEMMA ChainSame ==
  ASSUME IInv, NEW s \in PE, NEW d \in PE, got'[d][s] = got[d][s],
         recv'[d][s] = recv[d][s], Outgoing(s, d)' = Outgoing(s, d),
         circle'[s] = circle[s], pushed'[s][d] = pushed[s][d]
  PROVE  ChainOf(s, d)'
BY DEF IInv, ChainOf

\* The invariant holds at first.
LEMMA InitInv == InitBi => IInv
<1> SUFFICES ASSUME InitBi PROVE IInv
  OBVIOUS
<1>0. Init /\ bi \in BOOLEAN /\ (bi => opt.steady)
  BY BiAssumption DEF InitBi
<1>1. Types
  <2>1. send \in [PE -> [PE -> Seq(Nat)]] /\ got \in [PE -> [PE -> Seq(Nat)]]
    BY <1>0 DEF Init, EmptySend
  <2>2. [items |-> <<>>, next |-> 0] \in Buffer
    BY DEF Buffer
  <2>3. recv \in [PE -> [PE -> Buffer]]
    BY <1>0, <2>2 DEF Init, EmptyRecv
  <2>4. circle \in [PE -> Seq(Entry)]
    BY <1>0 DEF Init
  <2>5. pull_from \in [PE -> 0 .. N]
    BY <1>0, Ranks DEF Init
  <2>6. vote \in [PE -> Ballot]
    BY <1>0 DEF Init, NoVote, Ballot
  <2>7. /\ opt \in Options /\ bi \in BOOLEAN
        /\ nonempty \in [PE -> BOOLEAN] /\ overflow \in [PE -> BOOLEAN]
        /\ quiet \in [PE -> BOOLEAN] /\ over \in [PE -> BOOLEAN]
        /\ state \in [PE -> State] /\ at \in [PE -> Standpoint]
        /\ pushed \in [PE -> [PE -> Nat]] /\ round \in [PE -> Nat]
    BY <1>0 DEF Init, State, Standpoint
  <2> QED
    BY <2>1, <2>3, <2>4, <2>5, <2>6, <2>7 DEF Types
<1>2. ASSUME NEW p \in PE, NEW d \in PE PROVE ChainOf(p, d)
  <2>1. /\ got[d][p] = <<>> /\ recv[d][p] = [items |-> <<>>, next |-> 0]
        /\ send[p][d] = <<>> /\ circle[p] = <<>> /\ pushed[p][d] = 0 /\ at[p] = "client"
    BY <1>0 DEF Init, EmptyRecv, EmptySend
  <2>2. recv[d][p].items = <<>> /\ recv[d][p].next = 0
    BY <2>1
  <2>3. Outgoing(p, d) = <<>>
    BY <2>1 DEF Outgoing
  <2> QED
    BY <2>1, <2>2, <2>3, ChainNew DEF ChainOf
<1>3. ASSUME NEW p \in PE PROVE Room(p)
  <2>1. circle[p] = <<>> /\ \A d \in PE : send[p][d] = <<>> /\ pushed[p][d] = 0
    BY <1>0 DEF Init, EmptySend
  <2>2. \A d \in PE : recv[p][d].items = <<>>
    BY <1>0 DEF Init, EmptyRecv
  <2>3. \A d \in PE : Quota[p][d] \in Nat
    BY ClientAssumption
  <2>4. Len(<<>>) = 0 /\ Capacity \in Nat \ {0} /\ Circle \in Nat
    BY SimpleAssumption
  <2> QED
    BY <2>1, <2>2, <2>3, <2>4 DEF Room
<1>4. ASSUME NEW p \in PE PROVE Course(p)
  <2>1. /\ at[p] = "client" /\ state[p] = "working" /\ over[p] = FALSE
        /\ \A s \in PE : recv[p][s].items = <<>> /\ recv[p][s].next = 0
    BY <1>0 DEF Init, EmptyRecv
  <2> QED
    BY <2>1 DEF Course, Read
<1>5. ASSUME NEW p \in PE PROVE Answering(p)
  BY <1>0 DEF Init, Answering
<1>6. Ending
  BY <1>0 DEF Init, Ending, Ended
<1>7. \A p, q \in PE : round[p] = round[q]
  BY <1>0 DEF Init
<1> QED
  BY <1>1, <1>2, <1>3, <1>4, <1>5, <1>6, <1>7 DEF IInv

-----------------------------------------------------------------------------
(* Pushing *)

\* What a push leaves alone.
LEMMA PushFrame ==
  ASSUME IInv, NEW p \in PE, NEW d \in PE, Push(p, d), bi' = bi
  PROVE  /\ Types /\ at[p] = "client" /\ state[p] = "working" /\ ~over[p]
         /\ pushed[p][d] < Quota[p][d] /\ Enqueue(p, d, pushed[p][d] + 1)
         /\ opt' = opt /\ recv' = recv /\ pull_from' = pull_from /\ quiet' = quiet
         /\ state' = state /\ vote' = vote /\ at' = at /\ over' = over /\ got' = got
         /\ round' = round
         /\ \A q \in PE : at[q] # "answer" /\ ~Ended(q)
                          /\ state[q] \notin {"cleanup", "complete", "dormant"}
         /\ pushed' \in [PE -> [PE -> Nat]] /\ pushed'[p][d] = pushed[p][d] + 1
         /\ \A q, e \in PE : q # p \/ e # d => pushed'[q][e] = pushed[q][e]
         /\ \A q \in PE : q # p => pushed'[q] = pushed[q]
<1>1. /\ Types /\ at[p] = "client" /\ state[p] = "working"
      /\ pushed[p][d] < Quota[p][d] /\ Enqueue(p, d, pushed[p][d] + 1)
      /\ opt' = opt /\ recv' = recv /\ pull_from' = pull_from /\ quiet' = quiet
      /\ state' = state /\ vote' = vote /\ at' = at /\ over' = over /\ got' = got
      /\ round' = round
      /\ pushed' = [pushed EXCEPT ![p][d] = @ + 1]
  BY DEF IInv, Push, CanPush
<1>2. ~over[p]
  BY <1>1 DEF IInv, Course
<1>3. \A q \in PE : at[q] # "answer" /\ ~Ended(q)
                    /\ state[q] \notin {"cleanup", "complete", "dormant"}
  BY <1>1, <1>2, NoAnswers, NotEnding
<1>4. /\ pushed' \in [PE -> [PE -> Nat]] /\ pushed'[p][d] = pushed[p][d] + 1
      /\ \A q, e \in PE : q # p \/ e # d => pushed'[q][e] = pushed[q][e]
      /\ \A q \in PE : q # p => pushed'[q] = pushed[q]
  <2> DEFINE V == Nat
             v == pushed[p][d] + 1
  <2>1. pushed \in [PE -> [PE -> V]]
    BY <1>1 DEF Types
  <2>2. v \in V
    BY <2>1
  <2>3. pushed' = [pushed EXCEPT ![p][d] = v]
    BY <1>1
  <2> HIDE DEF V, v
  <2> QED
    BY <2>1, <2>2, <2>3, OneEntry DEF V, v
<1> QED
  BY <1>1, <1>2, <1>3, <1>4

\* The end stays far off.
LEMMA StillNotEnding ==
  ASSUME NEW p, state' = state, at' = at, quiet' = quiet,
         \A q \in PE : ~Ended(q) /\ state[q] \notin {"cleanup", "complete", "dormant"}
  PROVE  Ending'
BY DEF Ending, Ended

\* The course of each PE while one puts an item into its buffers.
LEMMA PushCourse ==
  ASSUME IInv, NEW p \in PE, at[p] = "client",
         at' = at, pull_from' = pull_from, recv' = recv, state' = state, over' = over,
         quiet' = quiet, vote' = vote,
         \A q \in PE : q # p => circle'[q] = circle[q] /\ send'[q] = send[q]
  PROVE  \A q \in PE : Course(q)'
<1> SUFFICES ASSUME NEW q \in PE PROVE Course(q)'
  OBVIOUS
<1>1. CASE q = p
  BY <1>1 DEF IInv, Course, Read
<1>2. CASE q # p
  BY <1>2, CourseSame
<1> QED
  BY <1>1, <1>2

\* Without a sorter.
LEMMA PushDirectInv ==
  ASSUME IInv, NEW p \in PE, NEW d \in PE, Push(p, d), bi' = bi,
         PushDirect(p, d, pushed[p][d] + 1)
  PROVE  IInv'
<1> DEFINE item == pushed[p][d] + 1
<1>1. /\ Types /\ at[p] = "client" /\ ~over[p] /\ pushed[p][d] < Quota[p][d]
      /\ opt' = opt /\ recv' = recv /\ pull_from' = pull_from /\ quiet' = quiet
      /\ state' = state /\ vote' = vote /\ at' = at /\ over' = over /\ got' = got
      /\ round' = round
      /\ \A q \in PE : at[q] # "answer" /\ ~Ended(q)
                       /\ state[q] \notin {"cleanup", "complete", "dormant"}
      /\ pushed' \in [PE -> [PE -> Nat]] /\ pushed'[p][d] = item
      /\ \A q, e \in PE : q # p \/ e # d => pushed'[q][e] = pushed[q][e]
      /\ \A q \in PE : q # p => pushed'[q] = pushed[q]
  BY PushFrame
<1>2. /\ ~opt.scatter /\ ~Full(p, d)
      /\ send' = [send EXCEPT ![p][d] = Append(@, item)]
      /\ nonempty' = [nonempty EXCEPT ![p] = TRUE]
      /\ circle' = circle /\ overflow' = overflow
  BY DEF PushDirect
<1>3. /\ send[p][d] \in Seq(Nat) /\ item \in Nat /\ Append(send[p][d], item) \in Seq(Nat)
      /\ Len(Append(send[p][d], item)) = Len(send[p][d]) + 1 /\ Len(send[p][d]) \in Nat
  <2>1. send[p][d] \in Seq(Nat) /\ item \in Nat
    <3>1. pushed[p][d] \in Nat
      BY <1>1, TypesAt
    <3> QED
      BY <1>1, <3>1, TypesAt
  <2> HIDE DEF item
  <2> QED
    BY <2>1
<1> DEFINE new == Append(send[p][d], item)
<1>4. /\ send' \in [PE -> [PE -> Seq(Nat)]] /\ send'[p][d] = new
      /\ \A q, e \in PE : q # p \/ e # d => send'[q][e] = send[q][e]
      /\ \A q \in PE : q # p => send'[q] = send[q]
  <2> DEFINE V == Seq(Nat)
  <2>1. send \in [PE -> [PE -> V]] /\ new \in V /\ send' = [send EXCEPT ![p][d] = new]
    BY <1>1, <1>2, <1>3 DEF Types
  <2> HIDE DEF V, new
  <2> QED
    BY <2>1, OneEntry DEF V
<1> HIDE DEF item, new
<1>5. Types'
  BY <1>1, <1>2, <1>4 DEF Types
<1>6. ASSUME NEW s \in PE, NEW e \in PE PROVE ChainOf(s, e)'
  <2>1. CASE s = p /\ e = d
    <3>1. circle[p] = <<>> /\ ChainOf(p, d) /\ at[p] # "answer"
      BY <1>1, <1>2 DEF IInv, Room
    <3>2. Outgoing(p, d) = send[p][d] /\ Outgoing(p, d)' = new
      BY <1>1, <1>4 DEF Outgoing
    <3>3. Chain(got[d][p], recv[d][p].items, recv[d][p].next, send[p][d], <<>>, d, pushed[p][d])
      BY <3>1, <3>2 DEF ChainOf
    <3>4. /\ got[d][p] \in Seq(Nat) /\ recv[d][p].items \in Seq(Nat) /\ recv[d][p].next \in Nat
          /\ pushed[p][d] \in Nat /\ send[p][d] \in Seq(Nat)
      BY <1>1, TypesAt
    <3>5. Chain(got[d][p], recv[d][p].items, recv[d][p].next, Append(send[p][d], pushed[p][d] + 1),
                <<>>, d, pushed[p][d] + 1)
      BY <3>3, <3>4, ChainDirect
    <3> QED
      BY <1>1, <1>2, <2>1, <3>1, <3>2, <3>5 DEF ChainOf, new, item
  <2>2. CASE s # p \/ e # d
    <3>1. Outgoing(s, e)' = Outgoing(s, e)
      BY <1>1, <1>4, <2>2 DEF Outgoing
    <3> QED
      BY <1>1, <1>2, <2>2, <3>1, ChainSame
  <2> QED
    BY <2>1, <2>2
<1>7. ASSUME NEW q \in PE PROVE Room(q)'
  <2>1. CASE q # p
    BY <1>1, <1>2, <1>4, <2>1, RoomSame
  <2>2. CASE q = p
    <3>1. ASSUME NEW e \in PE
          PROVE  /\ Len(send'[p][e]) <= Capacity /\ Len(recv[p][e].items) <= Capacity
                 /\ pushed'[p][e] <= Quota[p][e]
      <4>1. /\ Len(send[p][e]) <= Capacity /\ Len(recv[p][e].items) <= Capacity
            /\ pushed[p][e] <= Quota[p][e]
        BY DEF IInv, Room
      <4>2. CASE e # d
        BY <1>1, <1>4, <4>1, <4>2
      <4>3. CASE e = d
        <5>1. Len(send[p][d]) < Capacity
          BY <1>2, <1>3, SimpleAssumption DEF Full
        <5>2. Len(send'[p][d]) <= Capacity
          <6>1. Len(new) = Len(send[p][d]) + 1 /\ Len(send[p][d]) \in Nat /\ Capacity \in Nat
            BY <1>3, SimpleAssumption DEF new
          <6>2. Len(new) <= Capacity
            BY <5>1, <6>1
          <6> QED
            BY <1>4, <6>2
        <5>3. pushed'[p][d] <= Quota[p][d]
          <6>1. pushed[p][d] \in Nat /\ Quota[p][d] \in Nat
            BY <1>1, TypesAt, ClientAssumption
          <6> QED
            BY <1>1, <6>1 DEF item
        <5> QED
          BY <4>1, <4>3, <5>2, <5>3
      <4> QED
        BY <4>2, <4>3
    <3>2. Len(circle[p]) <= Circle /\ circle[p] = <<>>
      BY <1>2 DEF IInv, Room
    <3> QED
      BY <1>1, <1>2, <2>2, <3>1, <3>2 DEF Room
  <2> QED
    BY <2>1, <2>2
<1>8. \A q \in PE : Course(q)'
  BY <1>1, <1>2, <1>4, PushCourse
<1>9. \A q \in PE : Answering(q)'
  BY <1>1, AnsweringSame DEF IInv, Answering
<1>10. Ending'
  BY <1>1, StillNotEnding
<1>11. \A q, r \in PE : round'[q] = round'[r]
  BY <1>1 DEF IInv
<1> QED
  BY <1>5, <1>6, <1>7, <1>8, <1>9, <1>10, <1>11 DEF IInv

\* A push keeps to the quota.
LEMMA PushQuota ==
  ASSUME IInv, NEW p \in PE, NEW d \in PE, Push(p, d), bi' = bi
  PROVE  \A t \in PE : pushed'[p][t] <= Quota[p][t]
<1> SUFFICES ASSUME NEW t \in PE PROVE pushed'[p][t] <= Quota[p][t]
  OBVIOUS
<1>1. /\ Types /\ pushed[p][d] < Quota[p][d] /\ pushed'[p][d] = pushed[p][d] + 1
      /\ t # d => pushed'[p][t] = pushed[p][t]
  BY PushFrame
<1>2. pushed[p][d] \in Nat /\ Quota[p][d] \in Nat
  BY <1>1, TypesAt, ClientAssumption
<1>3. CASE t = d
  <2> DEFINE m == pushed[p][d]
             l == Quota[p][d]
  <2>1. m \in Nat /\ l \in Nat /\ m < l
    BY <1>1, <1>2
  <2> HIDE DEF m, l
  <2>2. m + 1 <= l
    BY <2>1
  <2> QED
    BY <1>1, <1>3, <2>2 DEF m, l
<1>4. CASE t # d
  BY <1>1, <1>4 DEF IInv, Room
<1> QED
  BY <1>3, <1>4

\* With a sorter: what enters the circular buffer, and what leaves it.
LEMMA PushCircleIs ==
  ASSUME IInv, NEW p \in PE, NEW d \in PE, Push(p, d), bi' = bi,
         PushCircle(p, d, pushed[p][d] + 1)
  PROVE  LET c == circle[p]
             x == [dest |-> d, item |-> pushed[p][d] + 1]
             old == c[1]
         IN /\ x \in Entry /\ c \in Seq(Entry) /\ opt.scatter /\ ~overflow[p]
            /\ nonempty' = [nonempty EXCEPT ![p] = TRUE]
            /\ \/ /\ Len(c) < Circle /\ circle' = [circle EXCEPT ![p] = Append(c, x)]
                  /\ send' = send /\ overflow' = overflow
               \/ /\ Len(c) = Circle /\ c # <<>>
                  /\ old.dest \in PE /\ old.item \in Nat
                  /\ circle' = [circle EXCEPT ![p] = Append(Tail(c), x)]
                  /\ send' = [send EXCEPT ![p][old.dest] = Append(send[p][old.dest], old.item)]
                  /\ overflow' = [overflow EXCEPT ![p] =
                                    Len(send[p][old.dest]) + 1 >= Capacity]
<1> DEFINE c == circle[p]
           x == [dest |-> d, item |-> pushed[p][d] + 1]
           old == c[1]
<1>1. Types /\ c \in Seq(Entry) /\ pushed[p][d] \in Nat /\ Len(c) <= Circle
  BY TypesAt DEF IInv, Room
<1>2. x \in Entry
  BY <1>1 DEF Entry
<1>3. /\ opt.scatter /\ ~overflow[p] /\ nonempty' = [nonempty EXCEPT ![p] = TRUE]
      /\ IF Len(c) < Circle
         THEN /\ circle' = [circle EXCEPT ![p] = Append(c, x)]
              /\ send' = send /\ overflow' = overflow
         ELSE /\ circle' = [circle EXCEPT ![p] = Append(Tail(c), x)]
              /\ send' = [send EXCEPT ![p][Head(c).dest] = Append(@, Head(c).item)]
              /\ overflow' = [overflow EXCEPT ![p] =
                                Filled(send[p][Head(c).dest] \o <<Head(c).item>>)]
  BY <1>1 DEF PushCircle, Types
<1>4. CASE Len(c) < Circle
  BY <1>1, <1>2, <1>3, <1>4
<1>5. CASE ~(Len(c) < Circle)
  <2>1. Len(c) = Circle /\ c # <<>> /\ Len(c) \in Nat \ {0}
    BY <1>1, <1>5, SimpleAssumption
  <2>2. Head(c) = old /\ old \in Entry
    BY <1>1, <2>1
  <2>3. old.dest \in PE /\ old.item \in Nat
    BY <2>2 DEF Entry
  <2>4. send[p][old.dest] \in Seq(Nat) /\ send \in [PE -> [PE -> Seq(Nat)]]
    BY <1>1, <2>3, TypesAt DEF Types
  <2>5. Len(send[p][old.dest] \o <<old.item>>) = Len(send[p][old.dest]) + 1
    BY <2>3, <2>4
  <2>6. send' = [send EXCEPT ![p][old.dest] = Append(send[p][old.dest], old.item)]
    BY <1>3, <1>5, <2>2, <2>3, <2>4
  <2>7. overflow' = [overflow EXCEPT ![p] = Len(send[p][old.dest]) + 1 >= Capacity]
    BY <1>3, <1>5, <2>2, <2>5 DEF Filled
  <2> QED
    BY <1>1, <1>2, <1>3, <1>5, <2>1, <2>3, <2>6, <2>7
<1> QED
  BY <1>4, <1>5

\* The item enters the circular buffer, which has room.
LEMMA PushEnters ==
  ASSUME IInv, NEW p \in PE, NEW d \in PE, Push(p, d), bi' = bi,
         PushCircle(p, d, pushed[p][d] + 1), Len(circle[p]) < Circle
  PROVE  IInv'
<1> DEFINE item == pushed[p][d] + 1
           c == circle[p]
           x == [dest |-> d, item |-> item]
           e == Append(c, x)
<1>1. /\ Types /\ at[p] = "client" /\ ~over[p] /\ pushed[p][d] < Quota[p][d]
      /\ opt' = opt /\ recv' = recv /\ pull_from' = pull_from /\ quiet' = quiet
      /\ state' = state /\ vote' = vote /\ at' = at /\ over' = over /\ got' = got
      /\ round' = round
      /\ \A q \in PE : at[q] # "answer" /\ ~Ended(q)
                       /\ state[q] \notin {"cleanup", "complete", "dormant"}
      /\ pushed' \in [PE -> [PE -> Nat]] /\ pushed'[p][d] = item
      /\ \A q, r \in PE : q # p \/ r # d => pushed'[q][r] = pushed[q][r]
      /\ \A q \in PE : q # p => pushed'[q] = pushed[q]
  BY PushFrame
<1>2. /\ x \in Entry /\ c \in Seq(Entry) /\ opt.scatter
      /\ nonempty' = [nonempty EXCEPT ![p] = TRUE]
      /\ circle' = [circle EXCEPT ![p] = e]
      /\ send' = send /\ overflow' = overflow
  BY PushCircleIs
<1>3. e \in Seq(Entry) /\ Len(e) = Len(c) + 1 /\ Len(c) \in Nat
  BY <1>2
<1>4. pushed[p][d] \in Nat /\ Quota[p][d] \in Nat /\ x.dest = d /\ x.item = pushed[p][d] + 1
  BY <1>1, TypesAt, ClientAssumption
<1> HIDE DEF e, x, item
<1>5. /\ circle' \in [PE -> Seq(Entry)] /\ circle'[p] = e
      /\ \A q \in PE : q # p => circle'[q] = circle[q]
  <2> DEFINE V == Seq(Entry)
  <2>1. circle \in [PE -> V] /\ e \in V
    BY <1>1, <1>3 DEF Types
  <2> HIDE DEF V
  <2> QED
    BY <1>2, <2>1, OneRow DEF V
<1>6. Types'
  BY <1>1, <1>2, <1>5 DEF Types
<1>7. ASSUME NEW s \in PE, NEW t \in PE PROVE ChainOf(s, t)'
  <2>1. Outgoing(s, t)' = Outgoing(s, t)
    BY <1>1, <1>2 DEF Outgoing
  <2>2. CASE s # p
    BY <1>1, <1>5, <2>1, <2>2, ChainSame
  <2>3. CASE s = p
    <3>1. /\ got[t][p] \in Seq(Nat) /\ recv[t][p].items \in Seq(Nat) /\ recv[t][p].next \in Nat
          /\ pushed[p][t] \in Nat /\ Outgoing(p, t) \in Seq(Nat)
      BY <1>1, TypesAt
    <3>2. Chain(got[t][p], recv[t][p].items, recv[t][p].next, Outgoing(p, t), c, t, pushed[p][t])
      BY DEF IInv, ChainOf
    <3>3. t = d => x.item = pushed[p][t] + 1
      BY <1>4
    <3>4. Chain(got[t][p], recv[t][p].items, recv[t][p].next, Outgoing(p, t), Append(c, x), t,
                IF t = d THEN pushed[p][t] + 1 ELSE pushed[p][t])
      <4> DEFINE g == got[t][p]
                 items == recv[t][p].items
                 next == recv[t][p].next
                 b == Outgoing(p, t)
                 np == pushed[p][t]
      <4>1. /\ g \in Seq(Nat) /\ items \in Seq(Nat) /\ next \in Nat /\ np \in Nat
            /\ b \in Seq(Nat) /\ Chain(g, items, next, b, c, t, np)
            /\ (t = d => x.item = np + 1) /\ c \in Seq(Entry) /\ x \in Entry /\ x.dest = d
        BY <1>2, <1>4, <3>1, <3>2, <3>3
      <4> HIDE DEF g, items, next, b, np, c
      <4>2. Chain(g, items, next, b, Append(c, x), t, IF t = d THEN np + 1 ELSE np)
        BY <4>1, ChainCircle
      <4> QED
        BY <4>2 DEF g, items, next, b, np, c
    <3>5. pushed'[p][t] = IF t = d THEN pushed[p][t] + 1 ELSE pushed[p][t]
      BY <1>1 DEF item
    <3>6. ChainOf(p, t)'
      BY <1>1, <1>5, <2>1, <2>3, <3>4, <3>5 DEF ChainOf, e
    <3> QED
      BY <2>3, <3>6
  <2> QED
    BY <2>2, <2>3
<1>8. ASSUME NEW q \in PE PROVE Room(q)'
  <2>1. CASE q # p
    BY <1>1, <1>2, <1>5, <2>1, RoomSame
  <2>2. CASE q = p
    <3>1. Room(p)
      BY DEF IInv
    <3>2. \A t \in PE : pushed'[p][t] <= Quota[p][t]
      BY PushQuota
    <3>3. Len(circle'[p]) <= Circle
      BY <1>3, <1>5, SimpleAssumption
    <3> QED
      BY <1>1, <1>2, <2>2, <3>1, <3>2, <3>3 DEF Room
  <2> QED
    BY <2>1, <2>2
<1>9. \A q \in PE : Course(q)'
  BY <1>1, <1>2, <1>5, PushCourse
<1>10. \A q \in PE : Answering(q)'
  BY <1>1, AnsweringSame DEF IInv, Answering
<1>11. Ending'
  BY <1>1, StillNotEnding
<1>12. \A q, r \in PE : round'[q] = round'[r]
  BY <1>1 DEF IInv
<1> QED
  BY <1>6, <1>7, <1>8, <1>9, <1>10, <1>11, <1>12 DEF IInv

\* The item takes the place of the oldest one, which moves on to its send buffer.
LEMMA PushReplaces ==
  ASSUME IInv, NEW p \in PE, NEW d \in PE, Push(p, d), bi' = bi,
         PushCircle(p, d, pushed[p][d] + 1), ~(Len(circle[p]) < Circle)
  PROVE  IInv'
<1> DEFINE item == pushed[p][d] + 1
           c == circle[p]
           x == [dest |-> d, item |-> item]
           e == Append(Tail(c), x)
           o == c[1].dest
           new == Append(send[p][o], c[1].item)
           full == Len(send[p][o]) + 1 >= Capacity
<1>1. /\ Types /\ at[p] = "client" /\ ~over[p] /\ pushed[p][d] < Quota[p][d]
      /\ opt' = opt /\ recv' = recv /\ pull_from' = pull_from /\ quiet' = quiet
      /\ state' = state /\ vote' = vote /\ at' = at /\ over' = over /\ got' = got
      /\ round' = round
      /\ \A q \in PE : at[q] # "answer" /\ ~Ended(q)
                       /\ state[q] \notin {"cleanup", "complete", "dormant"}
      /\ pushed' \in [PE -> [PE -> Nat]] /\ pushed'[p][d] = item
      /\ \A q, r \in PE : q # p \/ r # d => pushed'[q][r] = pushed[q][r]
      /\ \A q \in PE : q # p => pushed'[q] = pushed[q]
  BY PushFrame
<1>2. /\ x \in Entry /\ c \in Seq(Entry) /\ opt.scatter /\ ~overflow[p]
      /\ nonempty' = [nonempty EXCEPT ![p] = TRUE]
      /\ Len(c) = Circle /\ c # <<>> /\ o \in PE /\ c[1].item \in Nat
      /\ circle' = [circle EXCEPT ![p] = e]
      /\ send' = [send EXCEPT ![p][o] = new]
      /\ overflow' = [overflow EXCEPT ![p] = full]
  BY PushCircleIs
<1>3. /\ Tail(c) \in Seq(Entry) /\ e \in Seq(Entry) /\ Len(e) = Len(c)
  BY <1>2
<1>4. /\ pushed[p][d] \in Nat /\ Quota[p][d] \in Nat /\ x.dest = d
      /\ x.item = pushed[p][d] + 1
      /\ send[p][o] \in Seq(Nat) /\ new \in Seq(Nat) /\ Len(new) = Len(send[p][o]) + 1
      /\ Len(send[p][o]) \in Nat
  <2>1. pushed[p][d] \in Nat /\ Quota[p][d] \in Nat
    BY <1>1, TypesAt, ClientAssumption
  <2>2. x.dest = d /\ x.item = pushed[p][d] + 1
    OBVIOUS
  <2>3. o \in PE /\ c[1].item \in Nat
    BY <1>2
  <2> HIDE DEF o, c, x, item
  <2>4. send[p][o] \in Seq(Nat)
    BY <1>1, <2>3, TypesAt
  <2>5. new \in Seq(Nat) /\ Len(new) = Len(send[p][o]) + 1 /\ Len(send[p][o]) \in Nat
    BY <2>3, <2>4
  <2> QED
    BY <2>1, <2>2, <2>4, <2>5
<1> HIDE DEF e, x, item, new, o, full
<1>5. /\ circle' \in [PE -> Seq(Entry)] /\ circle'[p] = e
      /\ \A q \in PE : q # p => circle'[q] = circle[q]
  <2> DEFINE V == Seq(Entry)
  <2>1. circle \in [PE -> V] /\ e \in V
    BY <1>1, <1>3 DEF Types
  <2> HIDE DEF V
  <2> QED
    BY <1>2, <2>1, OneRow DEF V
<1>6. /\ send' \in [PE -> [PE -> Seq(Nat)]] /\ send'[p][o] = new
      /\ \A q, r \in PE : q # p \/ r # o => send'[q][r] = send[q][r]
      /\ \A q \in PE : q # p => send'[q] = send[q]
  <2> DEFINE V == Seq(Nat)
  <2>1. send \in [PE -> [PE -> V]] /\ new \in V
    BY <1>1, <1>4 DEF Types
  <2> HIDE DEF V
  <2> QED
    BY <1>2, <2>1, OneEntry DEF V
<1>7. /\ overflow' \in [PE -> BOOLEAN] /\ (overflow'[p] <=> full)
      /\ \A q \in PE : q # p => overflow'[q] = overflow[q]
  <2>1. full \in BOOLEAN
    BY DEF full
  <2> QED
    BY <1>1, <1>2, <2>1 DEF Types
<1>8. Types'
  BY <1>1, <1>2, <1>5, <1>6, <1>7 DEF Types
<1>9. ASSUME NEW s \in PE, NEW t \in PE PROVE ChainOf(s, t)'
  <2>1. CASE s # p
    <3>1. Outgoing(s, t)' = Outgoing(s, t)
      BY <1>1, <1>6, <2>1 DEF Outgoing
    <3> QED
      BY <1>1, <1>5, <2>1, <3>1, ChainSame
  <2>2. CASE s = p
    <3>1. /\ got[t][p] \in Seq(Nat) /\ recv[t][p].items \in Seq(Nat) /\ recv[t][p].next \in Nat
          /\ pushed[p][t] \in Nat /\ send[p][t] \in Seq(Nat)
      BY <1>1, TypesAt
    <3> DEFINE b == IF o = t THEN Append(send[p][t], c[1].item) ELSE send[p][t]
    <3>2. Outgoing(p, t) = send[p][t] /\ Outgoing(p, t)' = b
      BY <1>1, <1>6 DEF Outgoing, new
    <3>3. Chain(got[t][p], recv[t][p].items, recv[t][p].next, send[p][t], c, t, pushed[p][t])
      BY <3>2 DEF IInv, ChainOf
    <3>4. Chain(got[t][p], recv[t][p].items, recv[t][p].next, b, Tail(c), t, pushed[p][t])
      BY <1>2, <3>1, <3>3, ChainMove DEF o
    <3>5. b \in Seq(Nat)
      BY <1>2, <3>1
    <3>6. t = d => x.item = pushed[p][t] + 1
      BY <1>4
    <3> HIDE DEF b
    <3>7. Chain(got[t][p], recv[t][p].items, recv[t][p].next, b, Append(Tail(c), x), t,
                IF t = d THEN pushed[p][t] + 1 ELSE pushed[p][t])
      BY <1>2, <1>3, <1>4, <3>1, <3>4, <3>5, <3>6, ChainCircle
    <3>8. pushed'[p][t] = IF t = d THEN pushed[p][t] + 1 ELSE pushed[p][t]
      BY <1>1 DEF item
    <3>9. ChainOf(p, t)'
      BY <1>1, <1>5, <3>2, <3>7, <3>8 DEF ChainOf, e
    <3> QED
      BY <2>2, <3>9
  <2> QED
    BY <2>1, <2>2
<1>10. ASSUME NEW q \in PE PROVE Room(q)'
  <2>1. CASE q # p
    BY <1>1, <1>5, <1>6, <1>7, <2>1, RoomSame
  <2>2. CASE q = p
    <3>1. Room(p)
      BY DEF IInv
    <3>2. \A t \in PE : Len(send[p][t]) < Capacity
      BY <1>1, <1>2, <3>1 DEF Room
    <3>3. \A t \in PE : pushed'[p][t] <= Quota[p][t]
      BY PushQuota
    <3>4. ASSUME NEW t \in PE
          PROVE  /\ Len(send'[p][t]) <= Capacity
                 /\ ~overflow'[p] => Len(send'[p][t]) < Capacity
      <4>1. CASE t = o
        <5>1. Len(new) = Len(send[p][o]) + 1 /\ Len(send[p][o]) \in Nat /\ Capacity \in Nat
          BY <1>4, SimpleAssumption
        <5>2. Len(send[p][o]) < Capacity
          BY <1>2, <3>2
        <5>3. Len(new) <= Capacity /\ (~full => Len(new) < Capacity)
          BY <5>1, <5>2 DEF full
        <5> QED
          BY <1>6, <1>7, <4>1, <5>3
      <4>2. CASE t # o
        <5>1. send'[p][t] = send[p][t] /\ Len(send[p][t]) < Capacity
          BY <1>6, <3>2, <4>2
        <5>2. send[p][t] \in Seq(Nat)
          BY <1>1, TypesAt
        <5> QED
          BY <5>1, <5>2, SimpleAssumption
      <4> QED
        BY <4>1, <4>2
    <3>5. Len(circle'[p]) <= Circle
      BY <1>2, <1>3, <1>5, SimpleAssumption
    <3> QED
      BY <1>1, <1>2, <2>2, <3>1, <3>3, <3>4, <3>5 DEF Room
  <2> QED
    BY <2>1, <2>2
<1>11. \A q \in PE : Course(q)'
  BY <1>1, <1>5, <1>6, PushCourse
<1>12. \A q \in PE : Answering(q)'
  BY <1>1, AnsweringSame DEF IInv, Answering
<1>13. Ending'
  BY <1>1, StillNotEnding
<1>14. \A q, r \in PE : round'[q] = round'[r]
  BY <1>1 DEF IInv
<1> QED
  BY <1>8, <1>9, <1>10, <1>11, <1>12, <1>13, <1>14 DEF IInv

\* The item is pushed.
LEMMA PushInv ==
  ASSUME IInv, NEW p \in PE, NEW d \in PE, Push(p, d), bi' = bi
  PROVE  IInv'
<1>1. Enqueue(p, d, pushed[p][d] + 1)
  BY DEF Push
<1> QED
  BY <1>1, PushDirectInv, PushEnters, PushReplaces DEF Enqueue

\* The push fails.
LEMMA PushFailsInv ==
  ASSUME IInv, NEW p \in PE, NEW d \in PE, PushFails(p, d), bi' = bi
  PROVE  IInv'
<1>1. /\ Types /\ at[p] = "client"
      /\ nonempty' = [nonempty EXCEPT ![p] = TRUE]
      /\ overflow' = [overflow EXCEPT ![p] = TRUE]
      /\ opt' = opt /\ send' = send /\ circle' = circle /\ recv' = recv
      /\ pull_from' = pull_from /\ quiet' = quiet /\ state' = state /\ vote' = vote
      /\ at' = at /\ over' = over /\ pushed' = pushed /\ got' = got /\ round' = round
  BY DEF IInv, PushFails, CanPush
<1>2. Types'
  BY <1>1 DEF Types
<1>3. ASSUME NEW s \in PE, NEW t \in PE PROVE ChainOf(s, t)'
  BY <1>1, ChainSame DEF Outgoing
<1>4. ASSUME NEW q \in PE PROVE Room(q)'
  <2>1. overflow'[q] = overflow[q] \/ overflow'[q]
    BY <1>1 DEF Types
  <2> QED
    BY <1>1, <2>1 DEF IInv, Room
<1>5. ASSUME NEW q \in PE PROVE Course(q)' /\ Answering(q)'
  <2>1. at[q] # "answer"
    BY <1>1, NoAnswers
  <2> QED
    BY <1>1, <2>1, CourseSame, AnsweringSame DEF IInv, Answering
<1>6. Ending'
  BY <1>1, EndingSame
<1> QED
  BY <1>1, <1>2, <1>3, <1>4, <1>5, <1>6 DEF IInv

-----------------------------------------------------------------------------
(* Pulling *)

\* The table b is a but that k items of the entry of p and s are read.
ReadTo(a, b, p, s, k) ==
  /\ b \in [PE -> [PE -> Buffer]]
  /\ b[p][s].items = a[p][s].items /\ b[p][s].next = k
  /\ \A q, e \in PE : q # p \/ e # s => b[q][e] = a[q][e]
  /\ \A q \in PE : q # p => b[q] = a[q]

\* A receive buffer that is read on, or back.
LEMMA NextEntry ==
  ASSUME NEW a \in [PE -> [PE -> Buffer]], NEW p \in PE, NEW s \in PE, NEW k \in Nat
  PROVE  ReadTo(a, [a EXCEPT ![p][s].next = k], p, s, k)
<1> DEFINE r == [a[p][s] EXCEPT !.next = k]
           b == [a EXCEPT ![p][s].next = k]
           V == Buffer
           c == [a EXCEPT ![p][s] = r]
<1>1. r \in V /\ r.items = a[p][s].items /\ r.next = k
  <2> DEFINE o == a[p][s]
  <2>1. o \in Buffer
    OBVIOUS
  <2> HIDE DEF o
  <2>2. o = [items |-> o.items, next |-> o.next] /\ o.items \in Seq(Nat)
    BY <2>1 DEF Buffer
  <2>3. [o EXCEPT !.next = k] = [items |-> o.items, next |-> k]
    BY <2>2
  <2>4. [items |-> o.items, next |-> k] \in Buffer
    BY <2>2 DEF Buffer
  <2> QED
    BY <2>3, <2>4 DEF o
<1>2. b = c
  OBVIOUS
<1> HIDE DEF V, r
<1>3. a \in [PE -> [PE -> V]]
  BY DEF V
<1>4. /\ c \in [PE -> [PE -> V]] /\ c[p][s] = r
      /\ \A q, e \in PE : q # p \/ e # s => c[q][e] = a[q][e]
      /\ \A q \in PE : q # p => c[q] = a[q]
  BY <1>1, <1>3, OneEntry
<1> HIDE DEF b, c
<1>5. /\ b \in [PE -> [PE -> V]]
      /\ b[p][s].items = a[p][s].items /\ b[p][s].next = k
      /\ \A q, e \in PE : q # p \/ e # s => b[q][e] = a[q][e]
      /\ \A q \in PE : q # p => b[q] = a[q]
  BY <1>1, <1>2, <1>4
<1> QED
  BY <1>5 DEF b, V, ReadTo

\* A link goes on as its destination has g, and k of the items that it received,
\* instead of h and next.
ReadsOn(h, items, next, g, k, d) ==
  \A c \in Seq(Entry), b \in Seq(Nat), np \in Nat :
    Chain(h, items, next, b, c, d, np) => Chain(g, items, k, b, c, d, np)

\* All that p received from the PEs before f is read, with k items of s.
CaughtUp(p, s, k, f) ==
  \A x \in PE : x < f =>
    (IF x = s THEN k ELSE recv[p][x].next) = Len(recv[p][x].items)

\* A step of a client that reads changes no more than its receive buffer, what
\* it has got, and where it reads.
LEMMA ReadStep ==
  ASSUME IInv, NEW p \in PE, NEW s \in PE, NEW k \in Nat, NEW g \in Seq(Nat), NEW f \in 0 .. N,
         ReadTo(recv, recv', p, s, k), got' = [got EXCEPT ![p][s] = g],
         pull_from' = [pull_from EXCEPT ![p] = f],
         at[p] = "client", ~bi, bi' = bi,
         UNCHANGED <<opt, buffers, quiet, state, vote, at, over, pushed, round>>,
         ReadsOn(got[p][s], recv[p][s].items, recv[p][s].next, g, k, p),
         CaughtUp(p, s, k, f),
         state[p] \in {"complete", "dormant"} => f = N
  PROVE  IInv'
<1>1. /\ opt' = opt /\ send' = send /\ circle' = circle /\ nonempty' = nonempty
      /\ overflow' = overflow /\ quiet' = quiet /\ state' = state /\ vote' = vote /\ at' = at
      /\ over' = over /\ pushed' = pushed /\ round' = round
  BY DEF buffers
<1>2. Types
  BY DEF IInv
<1>3. /\ recv' \in [PE -> [PE -> Buffer]]
      /\ recv'[p][s].items = recv[p][s].items /\ recv'[p][s].next = k
      /\ \A q, e \in PE : q # p \/ e # s => recv'[q][e] = recv[q][e]
      /\ \A q \in PE : q # p => recv'[q] = recv[q]
      /\ got' \in [PE -> [PE -> Seq(Nat)]] /\ got'[p][s] = g
      /\ \A q, e \in PE : q # p \/ e # s => got'[q][e] = got[q][e]
  <2>2. /\ recv' \in [PE -> [PE -> Buffer]]
        /\ recv'[p][s].items = recv[p][s].items /\ recv'[p][s].next = k
        /\ \A q, e \in PE : q # p \/ e # s => recv'[q][e] = recv[q][e]
        /\ \A q \in PE : q # p => recv'[q] = recv[q]
    BY DEF ReadTo
  <2> DEFINE V == Seq(Nat)
  <2>3. got \in [PE -> [PE -> V]] /\ g \in V
    BY <1>2 DEF Types
  <2> HIDE DEF V
  <2>4. /\ got' \in [PE -> [PE -> V]] /\ got'[p][s] = g
        /\ \A q, e \in PE : q # p \/ e # s => got'[q][e] = got[q][e]
    BY <2>3, OneEntry
  <2> QED
    BY <2>2, <2>4 DEF V
<1>4. /\ pull_from' \in [PE -> 0 .. N] /\ pull_from'[p] = f
      /\ \A q \in PE : q # p => pull_from'[q] = pull_from[q]
  <2> DEFINE V == 0 .. N
  <2>1. pull_from \in [PE -> V] /\ f \in V
    BY <1>2 DEF Types
  <2> HIDE DEF V
  <2>2. /\ pull_from' \in [PE -> V] /\ pull_from'[p] = f
        /\ \A q \in PE : q # p => pull_from'[q] = pull_from[q]
    BY <2>1, OneRow
  <2> QED
    BY <2>2 DEF V
<1>5. Types'
  BY <1>1, <1>2, <1>3, <1>4 DEF Types
<1>6. ASSUME NEW t \in PE, NEW e \in PE PROVE ChainOf(t, e)'
  <2>1. Outgoing(t, e)' = Outgoing(t, e)
    BY <1>1 DEF Outgoing
  <2>2. CASE t # s \/ e # p
    BY <1>1, <1>3, <2>1, <2>2, ChainSame
  <2>3. CASE t = s /\ e = p
    <3>1. circle[s] \in Seq(Entry) /\ Outgoing(s, p) \in Seq(Nat) /\ pushed[s][p] \in Nat
      BY <1>2, TypesAt
    <3>2. Chain(got[p][s], recv[p][s].items, recv[p][s].next, Outgoing(s, p), circle[s], p,
                pushed[s][p])
      BY DEF IInv, ChainOf
    <3>3. Chain(g, recv[p][s].items, k, Outgoing(s, p), circle[s], p, pushed[s][p])
      <4> DEFINE b == Outgoing(s, p)
                 c == circle[s]
                 np == pushed[s][p]
      <4>1. c \in Seq(Entry) /\ b \in Seq(Nat) /\ np \in Nat
        BY <3>1
      <4>2. Chain(got[p][s], recv[p][s].items, recv[p][s].next, b, c, p, np)
        BY <3>2
      <4> HIDE DEF b, c, np
      <4>3. Chain(g, recv[p][s].items, k, b, c, p, np)
        BY <4>1, <4>2 DEF ReadsOn
      <4> QED
        BY <4>3 DEF b, c, np
    <3> QED
      BY <1>1, <1>3, <2>1, <2>3, <3>3 DEF ChainOf
  <2> QED
    BY <2>2, <2>3
<1>7. ASSUME NEW q \in PE PROVE Room(q)'
  <2>1. ASSUME NEW e \in PE PROVE recv'[q][e].items = recv[q][e].items
    <3>1. CASE q = p /\ e = s
      BY <1>3, <3>1
    <3>2. CASE q # p \/ e # s
      <4>1. recv'[q][e] = recv[q][e]
        BY <1>3, <3>2
      <4> QED
        BY <4>1
    <3> QED
      BY <3>1, <3>2
  <2> QED
    BY <1>1, <2>1 DEF IInv, Room
<1>8. ASSUME NEW q \in PE PROVE Course(q)'
  <2>1. CASE q # p
    BY <1>1, <1>3, <1>4, <2>1, CourseSame
  <2>2. CASE q = p
    <3>1. ASSUME NEW x \in PE, x < f PROVE Read(p, x)'
      <4>1. CASE x = s
        BY <1>3, <3>1, <4>1 DEF Read, CaughtUp
      <4>2. CASE x # s
        <5>1. recv'[p][x] = recv[p][x]
          BY <1>3, <4>2
        <5>2. recv[p][x].next = Len(recv[p][x].items)
          BY <3>1, <4>2 DEF CaughtUp
        <5> QED
          BY <5>1, <5>2 DEF Read
      <4> QED
        BY <4>1, <4>2
    <3>2. Course(p)
      BY DEF IInv
    <3> QED
      BY <1>1, <1>4, <2>2, <3>1, <3>2 DEF Course
  <2> QED
    BY <2>1, <2>2
<1>9. \A q \in PE : Answering(q)'
  <2>1. \A q \in PE : at[q] # "answer"
    BY NoAnswers
  <2> QED
    BY <1>1, <2>1 DEF Answering
<1>10. Ending'
  BY <1>1, EndingSame
<1> QED
  BY <1>1, <1>5, <1>6, <1>7, <1>8, <1>9, <1>10 DEF IInv

\* How far a PE has read.
LEMMA ReadBounds ==
  ASSUME IInv, NEW p \in PE, NEW s \in PE
  PROVE  /\ recv[p][s].next <= Len(recv[p][s].items)
         /\ recv[p][s].next \in Nat /\ Len(recv[p][s].items) \in Nat
<1>1. recv[p][s].items \in Seq(Nat) /\ recv[p][s].next \in Nat
  BY TypesAt DEF IInv
<1>2. ChainOf(s, p)
  BY DEF IInv
<1> QED
  BY <1>1, <1>2 DEF ChainOf, Chain

\* The client pulls.
LEMMA PullInv ==
  ASSUME IInv, NEW p \in PE, Pull(p), ~bi, bi' = bi
  PROVE  IInv'
<1>1. PICK s \in Unread(p) :
        /\ \A x \in Unread(p) : s <= x
        /\ pull_from' = [pull_from EXCEPT ![p] = s]
        /\ recv' = [recv EXCEPT ![p][s].next = @ + 1]
        /\ got' = [got EXCEPT ![p][s] = Append(@, recv[p][s].items[recv[p][s].next + 1])]
  BY DEF Pull
<1>2. s \in PE /\ s >= pull_from[p] /\ recv[p][s].next < Len(recv[p][s].items)
  BY <1>1 DEF Unread
<1> DEFINE r == recv[p][s]
           k == recv[p][s].next + 1
           g == Append(got[p][s], r.items[r.next + 1])
<1>3. /\ Types /\ at[p] = "client" /\ state[p] # "dormant"
      /\ UNCHANGED <<opt, buffers, quiet, state, vote, at, over, pushed, round>>
  BY DEF IInv, Pull, CanPull
<1>4. r.items \in Seq(Nat) /\ r.next \in Nat /\ got[p][s] \in Seq(Nat) /\ k \in Nat
  BY <1>2, <1>3, TypesAt
<1>5. r.items[r.next + 1] \in Nat
  <2> DEFINE items == r.items
             next == r.next
  <2>1. items \in Seq(Nat) /\ next \in Nat /\ next < Len(items)
    BY <1>2, <1>4
  <2> HIDE DEF items, next
  <2>2. items[next + 1] \in Nat
    BY <2>1
  <2> QED
    BY <2>2 DEF items, next
<1>6. g \in Seq(Nat) /\ s \in 0 .. N
  BY <1>2, <1>4, <1>5, Ranks
<1>7. /\ recv' = [recv EXCEPT ![p][s].next = k] /\ got' = [got EXCEPT ![p][s] = g]
  BY <1>1, <1>2, <1>3 DEF Types
<1>8. ASSUME NEW c \in Seq(Entry), NEW b \in Seq(Nat), NEW np \in Nat,
             Chain(got[p][s], r.items, r.next, b, c, p, np)
      PROVE  Chain(g, r.items, k, b, c, p, np)
  <2> DEFINE h == got[p][s]
             items == r.items
             next == r.next
  <2>1. /\ h \in Seq(Nat) /\ items \in Seq(Nat) /\ next \in Nat
        /\ Chain(h, items, next, b, c, p, np) /\ next < Len(items)
    BY <1>2, <1>4, <1>8
  <2> HIDE DEF h, items, next
  <2>2. Chain(Append(h, items[next+1]), items, next+1, b, c, p, np)
    BY <2>1, ChainTake
  <2> QED
    BY <2>2 DEF h, items, next
<1>9. ASSUME NEW x \in PE, x < s
      PROVE  (IF x = s THEN k ELSE recv[p][x].next) = Len(recv[p][x].items)
  <2>1. x # s /\ x \notin Unread(p) /\ pull_from[p] \in Nat /\ x \in Nat
    <3>1. x \in Nat /\ s \in Nat /\ x # s
      BY <1>2, <1>9, Ranks
    <3>2. x \notin Unread(p)
      BY <1>1, <1>9, <3>1
    <3>3. pull_from[p] \in Nat
      BY <1>3, Ranks DEF Types
    <3> QED
      BY <3>1, <3>2, <3>3
  <2>2. /\ recv[p][x].next <= Len(recv[p][x].items)
        /\ recv[p][x].next \in Nat /\ Len(recv[p][x].items) \in Nat
    BY ReadBounds
  <2>3. CASE x < pull_from[p]
    <3>1. Read(p, x)
      BY <1>3, <2>3 DEF IInv, Course
    <3> QED
      BY <2>1, <3>1 DEF Read
  <2>4. CASE x >= pull_from[p]
    <3>1. ~(recv[p][x].next < Len(recv[p][x].items))
      BY <2>1, <2>4 DEF Unread
    <3> QED
      BY <2>1, <2>2, <3>1
  <2> QED
    BY <2>1, <2>3, <2>4
<1>10. state[p] \notin {"complete", "dormant"}
  <2>1. pull_from[p] # N
    BY <1>2, Ranks
  <2> QED
    BY <2>1 DEF IInv, Course
<1>14. ReadTo(recv, recv', p, s, k)
  <2>1. recv \in [PE -> [PE -> Buffer]]
    BY <1>3 DEF Types
  <2> HIDE DEF k
  <2>2. ReadTo(recv, [recv EXCEPT ![p][s].next = k], p, s, k)
    BY <1>2, <1>4, <2>1, NextEntry
  <2> QED
    BY <1>7, <2>2
<1> HIDE DEF k, g
<1>11. pull_from' = [pull_from EXCEPT ![p] = s]
  BY <1>1
<1>12. ReadsOn(got[p][s], r.items, r.next, g, k, p)
  BY <1>8 DEF ReadsOn
<1>13. CaughtUp(p, s, k, s)
  BY <1>9 DEF CaughtUp
<1> QED
  BY <1>2, <1>3, <1>4, <1>6, <1>7, <1>10, <1>11, <1>12, <1>13, <1>14, ReadStep, Zenon DEF r

\* There is nothing to pull.
LEMMA PullNothingInv ==
  ASSUME IInv, NEW p \in PE, PullNothing(p), bi' = bi
  PROVE  IInv'
<1>1. /\ Types /\ at[p] = "client" /\ Unread(p) = {}
      /\ pull_from' = [pull_from EXCEPT ![p] = N]
      /\ UNCHANGED <<opt, buffers, recv, quiet, state, vote, at, over, pushed, got, round>>
  BY DEF IInv, PullNothing, CanPull
<1>2. /\ opt' = opt /\ send' = send /\ circle' = circle /\ nonempty' = nonempty
      /\ overflow' = overflow /\ quiet' = quiet /\ state' = state /\ vote' = vote /\ at' = at
      /\ over' = over /\ pushed' = pushed /\ round' = round /\ recv' = recv /\ got' = got
  BY <1>1 DEF buffers
<1>3. /\ pull_from' \in [PE -> 0 .. N] /\ pull_from'[p] = N
      /\ \A q \in PE : q # p => pull_from'[q] = pull_from[q]
  <2> DEFINE V == 0 .. N
  <2>1. pull_from \in [PE -> V] /\ N \in V
    BY <1>1, SimpleAssumption DEF Types
  <2> HIDE DEF V
  <2>2. /\ pull_from' \in [PE -> V] /\ pull_from'[p] = N
        /\ \A q \in PE : q # p => pull_from'[q] = pull_from[q]
    BY <1>1, <2>1, OneRow
  <2> QED
    BY <2>2 DEF V
<1>4. Types'
  BY <1>1, <1>2, <1>3 DEF Types
<1>5. ASSUME NEW s \in PE, NEW t \in PE PROVE ChainOf(s, t)'
  BY <1>2, ChainSame DEF Outgoing
<1>6. \A q \in PE : Room(q)'
  BY <1>2, RoomSame
<1>7. ASSUME NEW q \in PE PROVE Course(q)'
  <2>1. CASE q # p
    BY <1>2, <1>3, <2>1, CourseSame
  <2>2. CASE q = p
    <3>1. ASSUME NEW x \in PE PROVE Read(p, x)
      <4>1. pull_from[p] \in Nat /\ x \in Nat
        BY <1>1, Ranks DEF Types
      <4>2. /\ recv[p][x].next <= Len(recv[p][x].items)
            /\ recv[p][x].next \in Nat /\ Len(recv[p][x].items) \in Nat
        BY ReadBounds
      <4>3. CASE x < pull_from[p]
        BY <1>1, <4>3 DEF IInv, Course
      <4>4. CASE x >= pull_from[p]
        <5>1. ~(recv[p][x].next < Len(recv[p][x].items))
          BY <1>1, <4>4 DEF Unread
        <5> QED
          BY <4>2, <5>1 DEF Read
      <4> QED
        BY <4>1, <4>3, <4>4
    <3>2. Course(p)
      BY DEF IInv
    <3> QED
      BY <1>2, <1>3, <2>2, <3>1, <3>2 DEF Course, Read
  <2> QED
    BY <2>1, <2>2
<1>8. \A q \in PE : Answering(q)'
  <2>1. \A q \in PE : at[q] # "answer" /\ (bi => pull_from'[q] = N)
    BY <1>1, <1>3, NoAnswers DEF IInv, Answering
  <2> QED
    BY <1>2, <2>1, AnsweringSame
<1>9. Ending'
  BY <1>2, EndingSame
<1> QED
  BY <1>2, <1>4, <1>5, <1>6, <1>7, <1>8, <1>9 DEF IInv

\* The client gives the last item back.
LEMMA UnpullInv ==
  ASSUME IInv, NEW p \in PE, Unpull(p), ~bi, bi' = bi
  PROVE  IInv'
<1> DEFINE s == pull_from[p]
           r == recv[p][s]
           k == r.next - 1
           g == SubSeq(got[p][s], 1, Len(got[p][s]) - 1)
<1>1. /\ Types /\ at[p] = "client" /\ s < N /\ r.next > 0
      /\ recv' = [recv EXCEPT ![p][s].next = @ - 1]
      /\ got' = [got EXCEPT ![p][s] = SubSeq(@, 1, Len(@) - 1)]
      /\ UNCHANGED <<opt, buffers, pull_from, quiet, state, vote, at, over, pushed, round>>
  BY DEF IInv, Unpull, CanPull
<1>2. s \in 0 .. N
  BY <1>1 DEF Types
<1>3. s \in PE
  BY <1>1, <1>2, Ranks
<1>4. r.items \in Seq(Nat) /\ r.next \in Nat /\ got[p][s] \in Seq(Nat)
  BY <1>1, <1>3, TypesAt
<1>5. recv' = [recv EXCEPT ![p][s].next = k] /\ got' = [got EXCEPT ![p][s] = g]
  BY <1>1, <1>3 DEF Types
<1> HIDE DEF s
<1>6. ASSUME NEW c \in Seq(Entry), NEW b \in Seq(Nat), NEW np \in Nat,
             Chain(got[p][s], r.items, r.next, b, c, p, np)
      PROVE  /\ k \in Nat /\ g \in Seq(Nat)
             /\ Chain(g, r.items, k, b, c, p, np)
  <2> DEFINE h == got[p][s]
             items == r.items
             next == r.next
  <2>1. /\ h \in Seq(Nat) /\ items \in Seq(Nat) /\ next \in Nat /\ next > 0
        /\ Chain(h, items, next, b, c, p, np)
    BY <1>1, <1>4, <1>6
  <2> HIDE DEF h, items, next
  <2>2. /\ next - 1 \in Nat /\ SubSeq(h, 1, Len(h) - 1) \in Seq(Nat)
        /\ Chain(SubSeq(h, 1, Len(h) - 1), items, next - 1, b, c, p, np)
    BY <2>1, ChainBack
  <2> QED
    BY <2>2 DEF h, items, next
<1>7. k \in Nat /\ g \in Seq(Nat)
  <2>1. circle[s] \in Seq(Entry) /\ Outgoing(s, p) \in Seq(Nat) /\ pushed[s][p] \in Nat
    BY <1>1, <1>3, TypesAt
  <2>2. Chain(got[p][s], r.items, r.next, Outgoing(s, p), circle[s], p, pushed[s][p])
    BY <1>3 DEF IInv, ChainOf
  <2> HIDE DEF k, g, r
  <2> QED
    BY <1>6, <2>1, <2>2
<1>8. ASSUME NEW x \in PE, x < s
      PROVE  (IF x = s THEN k ELSE recv[p][x].next) = Len(recv[p][x].items)
  <2>1. x # s
    BY <1>3, <1>8, Ranks
  <2>2. Read(p, x)
    BY <1>1, <1>8 DEF IInv, Course, s
  <2> QED
    BY <2>1, <2>2 DEF Read
<1>9. pull_from' = [pull_from EXCEPT ![p] = s]
  BY <1>1 DEF Types, s
<1>10. state[p] \in {"complete", "dormant"} => s = N
  BY DEF IInv, Course, s
<1>11. /\ at[p] = "client"
       /\ UNCHANGED <<opt, buffers, quiet, state, vote, at, over, pushed, round>>
  BY <1>1
<1>12. ReadsOn(got[p][s], r.items, r.next, g, k, p)
  BY <1>6 DEF ReadsOn
<1>13. CaughtUp(p, s, k, s)
  BY <1>8 DEF CaughtUp
<1>14. ReadTo(recv, recv', p, s, k)
  <2>1. recv \in [PE -> [PE -> Buffer]]
    BY <1>1 DEF Types
  <2> HIDE DEF k
  <2>2. ReadTo(recv, [recv EXCEPT ![p][s].next = k], p, s, k)
    BY <1>3, <1>7, <2>1, NextEntry
  <2> QED
    BY <1>5, <2>2
<1> HIDE DEF k, g
<1> QED
  BY <1>2, <1>3, <1>5, <1>7, <1>9, <1>10, <1>11, <1>12, <1>13, <1>14, ReadStep, Zenon DEF r

-----------------------------------------------------------------------------
(* Advancing *)

\* When a PE starts to advance, and the last exchange was not made yet.
LEMMA VoteFrame ==
  ASSUME IInv, NEW p \in PE, NEW d \in BOOLEAN, StartAdvance(p, d), ~quiet[p]
  PROVE  /\ Types /\ at[p] = "client" /\ state[p] \in {"working", "endgame"}
         /\ Vote(p, d) /\ (over[p] => d)
         /\ over' \in [PE -> BOOLEAN] /\ (over'[p] <=> d)
         /\ at' \in [PE -> Standpoint] /\ at'[p] = "agree"
         /\ \A q \in PE : q # p => over'[q] = over[q] /\ at'[q] = at[q]
         /\ opt' = opt /\ state' = state /\ recv' = recv /\ pull_from' = pull_from
         /\ quiet' = quiet /\ pushed' = pushed /\ got' = got /\ round' = round
         /\ \A q \in PE : at[q] # "answer" /\ ~Ended(q)
                          /\ state[q] \notin {"cleanup", "complete", "dormant"}
<1>1. /\ Types /\ at[p] = "client" /\ state[p] \notin {"dormant", "complete"}
      /\ Vote(p, d) /\ (over[p] => d)
      /\ over' = [over EXCEPT ![p] = d] /\ at' = [at EXCEPT ![p] = "agree"]
      /\ opt' = opt /\ state' = state /\ recv' = recv /\ pull_from' = pull_from
      /\ quiet' = quiet /\ pushed' = pushed /\ got' = got /\ round' = round
  BY DEF IInv, StartAdvance
<1>2. ~Ended(p)
  BY <1>1 DEF Ended
<1>3. \A q \in PE : ~Ended(q) /\ state[q] \notin {"cleanup", "complete", "dormant"}
  BY <1>2 DEF IInv, Ending, AtEnd
<1>4. \A q \in PE : at[q] # "answer"
  BY <1>1, NoAnswers
<1>5. state[p] \in {"working", "endgame"}
  <2>1. state[p] \in State
    BY <1>1 DEF Types
  <2> QED
    BY <1>3, <2>1 DEF State
<1>6. /\ over' \in [PE -> BOOLEAN] /\ (over'[p] <=> d)
      /\ at' \in [PE -> Standpoint] /\ at'[p] = "agree"
      /\ \A q \in PE : q # p => over'[q] = over[q] /\ at'[q] = at[q]
  BY <1>1 DEF Types, Standpoint
<1> QED
  BY <1>1, <1>3, <1>4, <1>5, <1>6

\* The flush before the vote: the buffers that it leaves.
LEMMA VoteBuffers ==
  ASSUME IInv, NEW p \in PE, NEW d \in BOOLEAN, Vote(p, d), at[p] = "client"
  PROVE  /\ send' \in [PE -> [PE -> Seq(Nat)]] /\ circle' \in [PE -> Seq(Entry)]
         /\ \A q \in PE : q # p => send'[q] = send[q] /\ circle'[q] = circle[q]
         /\ \A t \in PE : \A g \in Seq(Nat), items \in Seq(Nat), next \in Nat, np \in Nat :
              Chain(g, items, next, send[p][t], circle[p], t, np)
                => Chain(g, items, next, send'[p][t], circle'[p], t, np)
         /\ \A t \in PE : /\ Len(send'[p][t]) <= Capacity
                          /\ opt.scatter /\ ~overflow'[p] => Len(send'[p][t]) < Capacity
         /\ Len(circle'[p]) <= Circle /\ (~opt.scatter => circle'[p] = <<>>)
         /\ overflow' \in [PE -> BOOLEAN] /\ nonempty' \in [PE -> BOOLEAN]
         /\ vote' \in [PE -> Ballot]
         /\ \A q \in PE : q # p => overflow'[q] = overflow[q] /\ vote'[q] = vote[q]
         /\ ~vote'[p].cannot_comm => pull_from[p] = N
         /\ ~vote'[p].further_comm => d /\ circle'[p] = <<>>
<1> DEFINE flushing == opt.scatter /\ (d \/ opt.steady)
           go       == flushing /\ ~overflow[p]
           status   == FlushResult(p)
           over_now == IF go THEN status = "-1" ELSE overflow[p]
           some_now == nonempty[p] \/ (go /\ status # "0")
           done_now == d /\ (flushing => go /\ status # "-1")
           ballot   == [cannot_comm |-> need_pull(p),
                        desire_comm |-> Desire(done_now, over_now, some_now),
                        further_comm |-> ~done_now]
           n == FlushCount(p)
           c == circle[p]
<1>1. /\ IF go
         THEN /\ send' = [send EXCEPT ![p] = Flushed(p, n)]
              /\ circle' = [circle EXCEPT ![p] = SubSeq(@, n + 1, Len(@))]
         ELSE send' = send /\ circle' = circle
      /\ overflow' = [overflow EXCEPT ![p] = over_now]
      /\ nonempty' = [nonempty EXCEPT ![p] = some_now]
      /\ vote' = [vote EXCEPT ![p] = ballot]
  BY DEF Vote
<1>2. /\ Types /\ Room(p) /\ c \in Seq(Entry) /\ send[p] \in [PE -> Seq(Nat)]
      /\ at[p] # "answer"
  BY TypesAt DEF IInv
<1>3. over_now \in BOOLEAN /\ some_now \in BOOLEAN /\ done_now \in BOOLEAN
  <2>1. overflow[p] \in BOOLEAN /\ nonempty[p] \in BOOLEAN
    BY <1>2 DEF Types
  <2> HIDE DEF go, flushing, status
  <2> QED
    BY <2>1
<1>4. ballot \in Ballot
  <2>1. need_pull(p) \in BOOLEAN /\ Desire(done_now, over_now, some_now) \in BOOLEAN
    BY <1>3 DEF need_pull, Desire
  <2> HIDE DEF done_now, over_now, some_now
  <2> QED
    BY <1>3, <2>1 DEF Ballot
<1>5. ballot.cannot_comm = need_pull(p) /\ ballot.further_comm = ~done_now
  OBVIOUS
<1>6. /\ overflow' \in [PE -> BOOLEAN] /\ (overflow'[p] <=> over_now)
      /\ nonempty' \in [PE -> BOOLEAN]
      /\ \A q \in PE : q # p => overflow'[q] = overflow[q]
  <2> HIDE DEF over_now, some_now
  <2> QED
    BY <1>1, <1>2, <1>3 DEF Types
<1>7. /\ vote' \in [PE -> Ballot] /\ vote'[p] = ballot
      /\ \A q \in PE : q # p => vote'[q] = vote[q]
  <2> HIDE DEF ballot
  <2>1. vote \in [PE -> Ballot]
    BY <1>2 DEF Types
  <2> QED
    BY <1>1, <1>4, <2>1, OneRow
<1>8. ~vote'[p].cannot_comm => pull_from[p] = N
  <2>1. pull_from[p] \in 0 .. N
    BY <1>2 DEF Types
  <2>2. ~need_pull(p) => pull_from[p] = N
    BY <2>1, SimpleAssumption DEF need_pull
  <2> HIDE DEF ballot
  <2> QED
    BY <1>5, <1>7, <2>2
<1>9. ~vote'[p].further_comm => done_now
  <2> HIDE DEF ballot, done_now
  <2> QED
    BY <1>3, <1>5, <1>7
<1> HIDE DEF ballot, some_now
<1>10. CASE ~go
  <2>1. send' = send /\ circle' = circle /\ (overflow'[p] <=> overflow[p])
    BY <1>1, <1>6, <1>10
  <2>2. done_now => d /\ ~opt.scatter
    BY <1>10
  <2>3. ~opt.scatter => circle[p] = <<>>
    BY <1>2 DEF Room
  <2>4. /\ send' \in [PE -> [PE -> Seq(Nat)]] /\ circle' \in [PE -> Seq(Entry)]
        /\ \A t \in PE : /\ Len(send'[p][t]) <= Capacity
                         /\ opt.scatter /\ ~overflow'[p] => Len(send'[p][t]) < Capacity
        /\ Len(circle'[p]) <= Circle
    <3> HIDE DEF go, done_now
    <3> QED
      BY <1>2, <2>1 DEF Types, Room
  <2> HIDE DEF done_now, go
  <2> QED
    BY <1>6, <1>7, <1>8, <1>9, <2>1, <2>2, <2>3, <2>4
<1>11. CASE go
  <2>1. Flushable(p) /\ opt.scatter
    BY <1>2, <1>11 DEF Flushable, Room
  <2>2. /\ n \in 0 .. Len(c)
        /\ \A t \in PE : Len(Flushed(p, n)[t]) <= Capacity
        /\ status # "-1" => n = Len(c) /\ \A t \in PE : Len(Flushed(p, n)[t]) < Capacity
    BY <2>1, FlushCountIs
  <2>3. overflow'[p] <=> status = "-1"
    BY <1>6, <1>11
  <2>4. done_now => d /\ status # "-1"
    BY <1>11
  <2> DEFINE b == Flushed(p, n)
  <2>5. send' = [send EXCEPT ![p] = b] /\ circle' = [circle EXCEPT ![p] = Rest(c, n)]
    BY <1>1, <1>2, <1>11 DEF Rest, Types
  <2> HIDE DEF n, status, done_now, go
  <2>6. /\ b \in [PE -> Seq(Nat)]
        /\ \A t \in PE : \A g \in Seq(Nat), items \in Seq(Nat), next \in Nat, np \in Nat :
             Chain(g, items, next, send[p][t], circle[p], t, np)
               => Chain(g, items, next, b[t], Rest(c, n), t, np)
    BY <1>2, <2>2, FlushedIs
  <2>7. Rest(c, n) \in Seq(Entry) /\ Len(Rest(c, n)) = Len(c) - n
    BY <1>2, <2>2, RestOf
  <2>8. status # "-1" => Rest(c, n) = <<>>
    BY <1>2, <2>2, RestEnds
  <2> HIDE DEF b
  <2>9. /\ send' \in [PE -> [PE -> Seq(Nat)]] /\ send'[p] = b
        /\ \A q \in PE : q # p => send'[q] = send[q]
    <3> DEFINE V == [PE -> Seq(Nat)]
    <3>1. send \in [PE -> V] /\ b \in V
      BY <1>2, <2>6 DEF Types
    <3> HIDE DEF V
    <3>2. /\ send' \in [PE -> V] /\ send'[p] = b
          /\ \A q \in PE : q # p => send'[q] = send[q]
      BY <2>5, <3>1, OneRow
    <3> QED
      BY <3>2 DEF V
  <2>10. /\ circle' \in [PE -> Seq(Entry)] /\ circle'[p] = Rest(c, n)
         /\ \A q \in PE : q # p => circle'[q] = circle[q]
    <3> DEFINE V == Seq(Entry)
    <3>1. circle \in [PE -> V] /\ Rest(c, n) \in V
      BY <1>2, <2>7 DEF Types
    <3> HIDE DEF V
    <3>2. /\ circle' \in [PE -> V] /\ circle'[p] = Rest(c, n)
          /\ \A q \in PE : q # p => circle'[q] = circle[q]
      BY <2>5, <3>1, OneRow
    <3> QED
      BY <3>2 DEF V
  <2>11. Len(circle'[p]) <= Circle
    <3>1. Len(c) \in Nat /\ Len(c) <= Circle
      BY <1>2 DEF Room
    <3> HIDE DEF c
    <3> QED
      BY <2>2, <2>7, <2>10, <3>1, SimpleAssumption
  <2>12. \A t \in PE : /\ Len(send'[p][t]) <= Capacity
                       /\ opt.scatter /\ ~overflow'[p] => Len(send'[p][t]) < Capacity
    BY <2>2, <2>3, <2>9 DEF b
  <2>13. ~vote'[p].further_comm => d /\ circle'[p] = <<>>
    BY <1>9, <2>4, <2>8, <2>10
  <2>14. \A t \in PE : \A g \in Seq(Nat), items \in Seq(Nat), next \in Nat, np \in Nat :
           Chain(g, items, next, send[p][t], circle[p], t, np)
             => Chain(g, items, next, send'[p][t], circle'[p], t, np)
    BY <2>6, <2>9, <2>10
  <2> QED
    BY <1>6, <1>7, <1>8, <2>1, <2>9, <2>10, <2>11, <2>12, <2>13, <2>14
<1> QED
  BY <1>10, <1>11

\* The PE flushes its sorter and votes.
LEMMA VoteInv ==
  ASSUME IInv, NEW p \in PE, NEW d \in BOOLEAN, StartAdvance(p, d), ~quiet[p], bi' = bi
  PROVE  IInv'
<1>1. /\ Types /\ at[p] = "client" /\ state[p] \in {"working", "endgame"}
      /\ Vote(p, d) /\ (over[p] => d)
      /\ over' \in [PE -> BOOLEAN] /\ (over'[p] <=> d)
      /\ at' \in [PE -> Standpoint] /\ at'[p] = "agree"
      /\ \A q \in PE : q # p => over'[q] = over[q] /\ at'[q] = at[q]
      /\ opt' = opt /\ state' = state /\ recv' = recv /\ pull_from' = pull_from
      /\ quiet' = quiet /\ pushed' = pushed /\ got' = got /\ round' = round
      /\ \A q \in PE : at[q] # "answer" /\ ~Ended(q)
                       /\ state[q] \notin {"cleanup", "complete", "dormant"}
  BY VoteFrame
<1>2. /\ send' \in [PE -> [PE -> Seq(Nat)]] /\ circle' \in [PE -> Seq(Entry)]
      /\ \A q \in PE : q # p => send'[q] = send[q] /\ circle'[q] = circle[q]
      /\ \A t \in PE : /\ Len(send'[p][t]) <= Capacity
                       /\ opt.scatter /\ ~overflow'[p] => Len(send'[p][t]) < Capacity
      /\ Len(circle'[p]) <= Circle /\ (~opt.scatter => circle'[p] = <<>>)
      /\ overflow' \in [PE -> BOOLEAN] /\ nonempty' \in [PE -> BOOLEAN]
      /\ vote' \in [PE -> Ballot]
      /\ \A q \in PE : q # p => overflow'[q] = overflow[q] /\ vote'[q] = vote[q]
      /\ ~vote'[p].cannot_comm => pull_from[p] = N
      /\ ~vote'[p].further_comm => d /\ circle'[p] = <<>>
  <2>1. Vote(p, d) /\ at[p] = "client"
    BY <1>1
  <2> QED
    BY <2>1, VoteBuffers
<1>3. \A t \in PE : \A g \in Seq(Nat), items \in Seq(Nat), next \in Nat, np \in Nat :
        Chain(g, items, next, send[p][t], circle[p], t, np)
          => Chain(g, items, next, send'[p][t], circle'[p], t, np)
  BY <1>1, VoteBuffers
<1>4. Types'
  BY <1>1, <1>2 DEF Types
<1>5. \A q \in PE : at'[q] # "answer"
  <2> SUFFICES ASSUME NEW q \in PE PROVE at'[q] # "answer"
    OBVIOUS
  <2> QED
    BY <1>1
<1>6. \A q \in PE : ~(quiet'[q] \/ at'[q] = "begin")
  BY <1>1 DEF Ended
<1>7. ASSUME NEW s \in PE, NEW t \in PE PROVE ChainOf(s, t)'
  <2>1. Outgoing(s, t) = send[s][t] /\ Outgoing(s, t)' = send'[s][t]
    BY <1>1, <1>5 DEF Outgoing
  <2>2. CASE s # p
    BY <1>1, <1>2, <2>1, <2>2, ChainSame
  <2>3. CASE s = p
    <3>1. /\ got[t][p] \in Seq(Nat) /\ recv[t][p].items \in Seq(Nat) /\ recv[t][p].next \in Nat
          /\ pushed[p][t] \in Nat
      BY <1>1, TypesAt
    <3>2. Chain(got[t][p], recv[t][p].items, recv[t][p].next, send[p][t], circle[p], t, pushed[p][t])
      BY <2>1, <2>3 DEF IInv, ChainOf
    <3> DEFINE h == got[t][p]
               items == recv[t][p].items
               next == recv[t][p].next
               np == pushed[p][t]
    <3>3. /\ h \in Seq(Nat) /\ items \in Seq(Nat) /\ next \in Nat /\ np \in Nat
          /\ Chain(h, items, next, send[p][t], circle[p], t, np)
      BY <3>1, <3>2
    <3> HIDE DEF h, items, next, np
    <3>4. Chain(h, items, next, send'[p][t], circle'[p], t, np)
      BY <1>3, <3>3, Zenon
    <3> QED
      BY <1>1, <2>1, <2>3, <3>4 DEF ChainOf, h, items, next, np
  <2> QED
    BY <2>2, <2>3
<1>8. ASSUME NEW q \in PE PROVE Room(q)'
  <2>1. CASE q # p
    BY <1>1, <1>2, <2>1, RoomSame
  <2>2. CASE q = p
    <3>1. Room(p)
      BY DEF IInv
    <3> QED
      BY <1>1, <1>2, <2>2, <3>1 DEF Room
  <2> QED
    BY <2>1, <2>2
<1>9. ASSUME NEW q \in PE PROVE Course(q)'
  <2>1. CASE q # p
    BY <1>1, <1>2, <2>1, CourseSame
  <2>2. CASE q = p
    <3>1. Course(p) /\ ~Ended(p)
      BY <1>1 DEF IInv
    <3>2. state[p] # "working" => over'[p]
      BY <1>1, <3>1 DEF Course
    <3> QED
      BY <1>1, <1>2, <2>2, <3>1, <3>2 DEF Course, Read, Ended
  <2> QED
    BY <2>1, <2>2
<1>10. \A q \in PE : Answering(q)'
  BY <1>1, <1>5, AnsweringSame DEF IInv, Answering
<1>11. Ending'
  BY <1>1, <1>6 DEF Ending, Ended
<1>12. \A q, r \in PE : round'[q] = round'[r]
  BY <1>1 DEF IInv
<1> QED
  BY <1>4, <1>7, <1>8, <1>9, <1>10, <1>11, <1>12 DEF IInv

\* After the last exchange the PE waits until its client has pulled everything.
LEMMA QuietInv ==
  ASSUME IInv, NEW p \in PE, NEW d \in BOOLEAN, StartAdvance(p, d), quiet[p], bi' = bi
  PROVE  IInv' /\ over' = over
<1>1. /\ Types /\ at[p] = "client" /\ (over[p] => d)
      /\ over' = [over EXCEPT ![p] = d]
      /\ state' = [state EXCEPT ![p] = Outcome(p, QuietResult(p), d)]
      /\ UNCHANGED <<buffers, vote, at>>
      /\ UNCHANGED <<opt, recv, pull_from, quiet, pushed, got, round>>
  BY DEF IInv, StartAdvance
<1>2. /\ opt' = opt /\ send' = send /\ circle' = circle /\ nonempty' = nonempty
      /\ overflow' = overflow /\ quiet' = quiet /\ vote' = vote /\ at' = at
      /\ pushed' = pushed /\ round' = round /\ recv' = recv /\ got' = got
      /\ pull_from' = pull_from
  BY <1>1 DEF buffers
<1>3. Ended(p)
  BY DEF Ended
<1>4. \A q \in PE : AtEnd(q)
  BY <1>3 DEF IInv, Ending
<1>5. over' = over
  <2>1. over[p] /\ over \in [PE -> BOOLEAN]
    BY <1>1, <1>4 DEF AtEnd, Types
  <2>2. d = over[p]
    BY <1>1, <2>1
  <2> QED
    BY <1>1, <2>1, <2>2
<1> DEFINE new == Outcome(p, QuietResult(p), d)
<1>6. /\ new \in {"cleanup", "complete"}
      /\ new = "complete" => pull_from[p] = N
  <2>1. pull_from[p] \in 0 .. N
    BY <1>1 DEF Types
  <2>2. CASE need_pull(p)
    BY <2>2 DEF QuietResult, Outcome
  <2>3. CASE ~need_pull(p)
    BY <2>1, <2>3, SimpleAssumption DEF QuietResult, Outcome, need_pull
  <2> QED
    BY <2>2, <2>3
<1> HIDE DEF new
<1>7. /\ state' \in [PE -> State] /\ state'[p] = new
      /\ \A q \in PE : q # p => state'[q] = state[q]
  <2>1. new \in State /\ state \in [PE -> State]
    BY <1>1, <1>6 DEF State, Types
  <2> QED
    BY <1>1, <2>1 DEF new
<1>8. Types'
  BY <1>1, <1>2, <1>5, <1>7 DEF Types
<1>9. ASSUME NEW s \in PE, NEW t \in PE PROVE ChainOf(s, t)'
  BY <1>2, ChainSame DEF Outgoing
<1>10. \A q \in PE : Room(q)'
  BY <1>2, RoomSame
<1>11. ASSUME NEW q \in PE PROVE Course(q)'
  <2>1. CASE q # p
    BY <1>2, <1>5, <1>7, <2>1, CourseSame
  <2>2. CASE q = p
    <3>1. Course(p) /\ over[p]
      BY <1>4 DEF IInv, AtEnd
    <3> QED
      BY <1>1, <1>2, <1>5, <1>6, <1>7, <2>2, <3>1 DEF Course, Read
  <2> QED
    BY <2>1, <2>2
<1>12. \A q \in PE : Answering(q)'
  <2>1. \A q \in PE : at[q] # "answer"
    BY <1>1, NoAnswers
  <2> QED
    BY <1>2, <2>1, AnsweringSame DEF IInv, Answering
<1>13. Ending'
  <2>1. ASSUME NEW q \in PE PROVE AtEnd(q)' /\ Ended(q)'
    <3>1. AtEnd(q)
      BY <1>4
    <3>2. state'[q] \in {"cleanup", "complete", "dormant"}
      BY <1>6, <1>7, <3>1 DEF AtEnd
    <3> QED
      BY <1>2, <1>5, <3>1, <3>2 DEF AtEnd, Ended, Outgoing
  <2> QED
    BY <2>1 DEF Ending
<1>14. \A q, r \in PE : round'[q] = round'[r]
  BY <1>2 DEF IInv
<1> QED
  BY <1>5, <1>8, <1>9, <1>10, <1>11, <1>12, <1>13, <1>14 DEF IInv

-----------------------------------------------------------------------------
(* Steps of all the PEs together *)

\* What is known when all the PEs stand at the reduction.
LEMMA Agreed ==
  ASSUME IInv, AllAt("agree")
  PROVE  /\ Types
         /\ \A p \in PE : /\ at[p] = "agree" /\ ~quiet[p] /\ state[p] \in {"working", "endgame"}
                          /\ (state[p] # "working" => over[p])
                          /\ \A d \in PE : Outgoing(p, d) = send[p][d]
         /\ ~cannot_comm => \A p \in PE : pull_from[p] = N /\ \A s \in PE : Read(p, s)
         /\ ~further_comm => \A p \in PE : over[p] /\ circle[p] = <<>>
<1>1. Types
  BY DEF IInv
<1>2. \A p \in PE : Course(p) /\ at[p] = "agree"
  BY DEF IInv, AllAt
<1>3. \A p \in PE : /\ at[p] = "agree" /\ ~quiet[p] /\ state[p] \in {"working", "endgame"}
                    /\ (state[p] # "working" => over[p])
  BY <1>2 DEF Course
<1>4. \A p, d \in PE : Outgoing(p, d) = send[p][d]
  BY <1>2 DEF Outgoing
<1>5. ASSUME ~cannot_comm, NEW p \in PE
      PROVE  pull_from[p] = N /\ \A s \in PE : Read(p, s)
  <2>1. ~vote[p].cannot_comm
    BY <1>5 DEF cannot_comm
  <2>2. pull_from[p] = N
    BY <1>2, <2>1 DEF Course
  <2>3. \A s \in PE : s < N
    BY Ranks
  <2> QED
    BY <1>2, <2>2, <2>3 DEF Course
<1>6. ASSUME ~further_comm, NEW p \in PE
      PROVE  over[p] /\ circle[p] = <<>>
  <2>1. ~vote[p].further_comm
    BY <1>6 DEF further_comm
  <2> QED
    BY <1>2, <2>1 DEF Course
<1> QED
  BY <1>1, <1>3, <1>4, <1>5, <1>6

\* The states after an advance that is not the last exchange.
LEMMA OutcomeOK ==
  ASSUME NEW p \in PE, state[p] \in {"working", "endgame"}, state[p] # "working" => over[p]
  PROVE  LET s == Outcome(p, "OK", over[p])
         IN /\ s \in {"working", "endgame"} /\ (s # "working" => over[p])
            /\ (over[p] => s # "working")
BY DEF Outcome

\* They agree not to exchange their buffers.
LEMMA AgreeNotInv ==
  ASSUME IInv, AgreeNot, bi' = bi
  PROVE  IInv'
<1>1. /\ Types
      /\ \A p \in PE : /\ at[p] = "agree" /\ ~quiet[p] /\ state[p] \in {"working", "endgame"}
                       /\ (state[p] # "working" => over[p])
                       /\ \A d \in PE : Outgoing(p, d) = send[p][d]
  BY Agreed DEF AgreeNot
<1>2. /\ opt' = opt /\ send' = send /\ circle' = circle /\ nonempty' = nonempty
      /\ overflow' = overflow /\ quiet' = quiet /\ over' = over /\ pushed' = pushed
      /\ round' = round /\ recv' = recv /\ got' = got /\ pull_from' = pull_from
      /\ at' = [p \in PE |-> "client"] /\ vote' = [p \in PE |-> NoVote]
      /\ state' = [p \in PE |-> Outcome(p, "OK", over[p])]
  BY DEF AgreeNot, Return, buffers
<1>3. \A p \in PE : at'[p] = "client"
  BY <1>2
<1>4. \A p \in PE : /\ state'[p] \in {"working", "endgame"} /\ (state'[p] # "working" => over[p])
                    /\ (over[p] => state'[p] # "working")
  BY <1>1, <1>2, OutcomeOK
<1>5. Types'
  <2>1. at' \in [PE -> Standpoint] /\ vote' \in [PE -> Ballot]
    BY <1>2 DEF Standpoint, Ballot, NoVote
  <2>2. state' \in [PE -> State]
    BY <1>2, <1>4 DEF State
  <2> QED
    BY <1>1, <1>2, <2>1, <2>2 DEF Types
<1>6. ASSUME NEW s \in PE, NEW t \in PE PROVE ChainOf(s, t)'
  <2>1. Outgoing(s, t)' = Outgoing(s, t)
    BY <1>1, <1>2, <1>3 DEF Outgoing
  <2> QED
    BY <1>2, <2>1, ChainSame
<1>7. \A q \in PE : Room(q)'
  BY <1>1, <1>2, RoomSame
<1>8. ASSUME NEW q \in PE PROVE Course(q)'
  <2>1. Course(q)
    BY DEF IInv
  <2> QED
    BY <1>1, <1>2, <1>3, <1>4, <2>1 DEF Course, Read
<1>9. \A q \in PE : Answering(q)'
  BY <1>2, <1>3, AnsweringSame DEF IInv, Answering
<1>10. Ending'
  BY <1>1, <1>2, <1>3, <1>4 DEF Ending, Ended
<1>11. \A q, r \in PE : round'[q] = round'[r]
  BY <1>2 DEF IInv
<1> QED
  BY <1>5, <1>6, <1>7, <1>8, <1>9, <1>10, <1>11 DEF IInv

\* What the exchange leaves in the receive buffers.
LEMMA ReceivedIs ==
  ASSUME send \in [PE -> [PE -> Seq(Nat)]]
  PROVE  /\ Received(send) \in [PE -> [PE -> Buffer]]
         /\ \A p, s \in PE : /\ Received(send)[p][s].items = send[s][p]
                             /\ Received(send)[p][s].next = 0
<1>1. ASSUME NEW p \in PE, NEW s \in PE PROVE [items |-> send[s][p], next |-> 0] \in Buffer
  <2> DEFINE x == send[s][p]
  <2>1. x \in Seq(Nat)
    OBVIOUS
  <2> HIDE DEF x
  <2> QED
    BY <2>1 DEF Buffer
<1> DEFINE V == Buffer
<1> HIDE DEF V
<1>2. Received(send) \in [PE -> [PE -> V]]
  BY <1>1 DEF Received, V
<1>3. \A p, s \in PE : Received(send)[p][s] = [items |-> send[s][p], next |-> 0]
  BY DEF Received
<1>4. ASSUME NEW p \in PE, NEW s \in PE
      PROVE  Received(send)[p][s].items = send[s][p] /\ Received(send)[p][s].next = 0
  <2> DEFINE x == send[s][p]
             r == Received(send)[p][s]
  <2>1. r = [items |-> x, next |-> 0]
    BY <1>3
  <2> HIDE DEF x, r
  <2>2. r.items = x /\ r.next = 0
    BY <2>1
  <2> QED
    BY <2>2 DEF x, r
<1> QED
  BY <1>2, <1>4 DEF V

\* Empty buffers.
LEMMA EmptyBuffers ==
  /\ [p \in PE |-> EmptySend] \in [PE -> [PE -> Seq(Nat)]]
  /\ [p \in PE |-> EmptyRecv] \in [PE -> [PE -> Buffer]]
  /\ EmptySend \in [PE -> Seq(Nat)] /\ EmptyRecv \in [PE -> Buffer]
  /\ \A d \in PE : EmptySend[d] = <<>> /\ EmptyRecv[d].items = <<>> /\ EmptyRecv[d].next = 0
<1>1. [items |-> <<>>, next |-> 0] \in Buffer
  BY DEF Buffer
<1>2. EmptySend \in [PE -> Seq(Nat)] /\ EmptyRecv \in [PE -> Buffer]
  BY <1>1 DEF EmptySend, EmptyRecv
<1> QED
  BY <1>2 DEF EmptySend, EmptyRecv

\* The exchange of the send buffers; those of a biconveyor are answered next.
ExchangeBuffers ==
  /\ AllAt("agree") /\ ~StayApart
  /\ recv'  = Received(send)
  /\ ClearSend
  /\ quiet' = [p \in PE |-> ~further_comm]
  /\ state' = [p \in PE |-> Outcome(p, IF further_comm THEN "OK" ELSE "NEAR", over[p])]
  /\ vote'  = [p \in PE |-> NoVote]
  /\ at'    = [p \in PE |-> IF bi THEN "answer" ELSE "client"]
  /\ pull_from' = IF bi THEN pull_from ELSE [p \in PE |-> 0]
  /\ UNCHANGED <<opt, over, pushed, got, round, bi>>

LEMMA ExchangeBuffersInv ==
  ASSUME IInv, ExchangeBuffers
  PROVE  IInv'
<1>1. /\ Types
      /\ \A p \in PE : /\ at[p] = "agree" /\ ~quiet[p] /\ state[p] \in {"working", "endgame"}
                       /\ (state[p] # "working" => over[p])
                       /\ \A d \in PE : Outgoing(p, d) = send[p][d]
      /\ \A p \in PE : pull_from[p] = N /\ \A s \in PE : Read(p, s)
      /\ ~further_comm => \A p \in PE : over[p] /\ circle[p] = <<>>
  BY Agreed DEF ExchangeBuffers, StayApart
<1>2. /\ opt' = opt /\ circle' = circle /\ over' = over /\ pushed' = pushed /\ round' = round
      /\ got' = got /\ bi' = bi
      /\ send' = [p \in PE |-> EmptySend] /\ nonempty' = [p \in PE |-> FALSE]
      /\ overflow' = [p \in PE |-> FALSE] /\ vote' = [p \in PE |-> NoVote]
      /\ recv' = Received(send)
      /\ at' = [p \in PE |-> IF bi THEN "answer" ELSE "client"]
      /\ pull_from' = IF bi THEN pull_from ELSE [p \in PE |-> 0]
      /\ quiet' = [p \in PE |-> ~further_comm]
      /\ state' = [p \in PE |-> Outcome(p, IF further_comm THEN "OK" ELSE "NEAR", over[p])]
  BY DEF ExchangeBuffers, ClearSend
<1>3. /\ recv' \in [PE -> [PE -> Buffer]]
      /\ \A p, s \in PE : recv'[p][s].items = send[s][p] /\ recv'[p][s].next = 0
  BY <1>1, <1>2, ReceivedIs DEF Types
<1>4. send' \in [PE -> [PE -> Seq(Nat)]] /\ \A p, d \in PE : send'[p][d] = <<>>
  BY <1>2, EmptyBuffers
<1>5. \A p \in PE : IF further_comm
                    THEN /\ state'[p] \in {"working", "endgame"} /\ ~quiet'[p]
                         /\ (state'[p] # "working" => over[p]) /\ (over[p] => state'[p] # "working")
                    ELSE state'[p] = "cleanup" /\ quiet'[p] /\ over[p] /\ circle[p] = <<>>
  <2> SUFFICES ASSUME NEW p \in PE
      PROVE IF further_comm
            THEN /\ state'[p] \in {"working", "endgame"} /\ ~quiet'[p]
                 /\ (state'[p] # "working" => over[p]) /\ (over[p] => state'[p] # "working")
            ELSE state'[p] = "cleanup" /\ quiet'[p] /\ over[p] /\ circle[p] = <<>>
    OBVIOUS
  <2>1. CASE further_comm
    <3>1. state'[p] = Outcome(p, "OK", over[p]) /\ ~quiet'[p]
      BY <1>2, <2>1
    <3> QED
      BY <1>1, <2>1, <3>1, OutcomeOK
  <2>2. CASE ~further_comm
    <3>1. state'[p] = Outcome(p, "NEAR", over[p]) /\ quiet'[p]
      BY <1>2, <2>2
    <3>2. state'[p] = "cleanup"
      BY <3>1 DEF Outcome
    <3> QED
      BY <1>1, <2>2, <3>1, <3>2
  <2> QED
    BY <2>1, <2>2
<1>6. \A p \in PE : at'[p] = IF bi THEN "answer" ELSE "client"
  BY <1>2
<1>7. /\ pull_from' \in [PE -> 0 .. N]
      /\ \A p \in PE : pull_from'[p] = IF bi THEN N ELSE 0
  <2>1. CASE bi
    BY <1>1, <1>2, <2>1 DEF Types
  <2>2. CASE ~bi
    <3>1. 0 \in 0 .. N
      BY SimpleAssumption
    <3> QED
      BY <1>2, <2>2, <3>1
  <2> QED
    BY <2>1, <2>2
<1>8. Types'
  <2>1. at' \in [PE -> Standpoint] /\ vote' \in [PE -> Ballot]
    BY <1>2 DEF Standpoint, Ballot, NoVote
  <2>2. state' \in [PE -> State]
    <3>1. ASSUME NEW p \in PE PROVE state'[p] \in State
      BY <1>5 DEF State
    <3>2. state' = [p \in PE |-> state'[p]]
      BY <1>2
    <3> QED
      BY <3>1, <3>2
  <2>3. /\ quiet' \in [PE -> BOOLEAN] /\ nonempty' \in [PE -> BOOLEAN]
        /\ overflow' \in [PE -> BOOLEAN]
    BY <1>2 DEF further_comm
  <2> QED
    BY <1>1, <1>2, <1>3, <1>4, <1>7, <2>1, <2>2, <2>3 DEF Types
<1>9. ASSUME NEW s \in PE, NEW t \in PE PROVE ChainOf(s, t)'
  <2>1. /\ got[t][s] \in Seq(Nat) /\ recv[t][s].items \in Seq(Nat) /\ send[s][t] \in Seq(Nat)
    BY <1>1, TypesAt
  <2>2. Chain(got[t][s], recv[t][s].items, Len(recv[t][s].items), send[s][t], circle[s], t,
              pushed[s][t])
    BY <1>1 DEF IInv, ChainOf, Read
  <2>3. Chain(got[t][s], send[s][t], 0, <<>>, circle[s], t, pushed[s][t])
    BY <2>1, <2>2, ChainExchange
  <2>4. Outgoing(s, t)' = <<>>
    BY <1>4 DEF Outgoing
  <2> QED
    BY <1>2, <1>3, <2>3, <2>4 DEF ChainOf
<1>10. ASSUME NEW q \in PE PROVE Room(q)'
  <2>1. \A s \in PE : Len(send[s][q]) <= Capacity
    BY DEF IInv, Room
  <2>2. /\ Len(circle[q]) <= Circle /\ (~opt.scatter => circle[q] = <<>>)
        /\ \A d \in PE : pushed[q][d] <= Quota[q][d]
    BY DEF IInv, Room
  <2>3. Len(<<>>) = 0 /\ 0 <= Capacity /\ 0 < Capacity
    BY SimpleAssumption
  <2>4. \A d \in PE : Len(send'[q][d]) <= Capacity /\ Len(send'[q][d]) < Capacity
    BY <1>4, <2>3
  <2>5. \A d \in PE : Len(recv'[q][d].items) <= Capacity
    BY <1>3, <2>1
  <2> QED
    BY <1>2, <2>2, <2>4, <2>5 DEF Room
<1>11. ASSUME NEW q \in PE PROVE Course(q)'
  <2>1. at'[q] \in {"client", "answer"}
    BY <1>6
  <2>2. at'[q] # "answer" => \A s \in PE : ~(s < pull_from'[q])
    BY <1>6, <1>7, Ranks
  <2>3. (over[q] <=> over'[q]) /\ (state'[q] # "working" => over[q])
        /\ (over[q] => state'[q] # "working") /\ state'[q] \notin {"complete", "dormant"}
    BY <1>2, <1>5
  <2> QED
    BY <2>1, <2>2, <2>3 DEF Course
<1>12. ASSUME NEW q \in PE PROVE Answering(q)'
  <2>1. Answering(q)
    BY DEF IInv
  <2>2. bi' => opt'.steady /\ pull_from'[q] = N
    BY <1>2, <1>7, <2>1 DEF Answering
  <2>3. at'[q] = "answer" => bi' /\ \A r \in PE : at'[r] = "answer"
    BY <1>2, <1>6
  <2>4. \A s \in PE : Len(send'[q][s]) = 0 /\ recv'[q][s].next = 0
    BY <1>3, <1>4
  <2>5. \A s \in PE : 1 .. Len(send'[q][s]) = {}
    BY <2>4
  <2> QED
    BY <2>2, <2>3, <2>4, <2>5 DEF Answering
<1>13. Ending'
  <2>1. CASE further_comm
    <3>1. \A p \in PE : ~Ended(p)' /\ state'[p] \notin {"cleanup", "complete", "dormant"}
      BY <1>5, <1>6, <2>1 DEF Ended
    <3> QED
      BY <3>1 DEF Ending
  <2>2. CASE ~further_comm
    <3>1. \A p \in PE : AtEnd(p)' /\ Ended(p)'
      BY <1>2, <1>4, <1>5, <2>2 DEF AtEnd, Ended, Outgoing
    <3> QED
      BY <3>1 DEF Ending
  <2> QED
    BY <2>1, <2>2
<1>14. \A q, r \in PE : round'[q] = round'[r]
  BY <1>2 DEF IInv
<1> QED
  BY <1>8, <1>9, <1>10, <1>11, <1>12, <1>13, <1>14 DEF IInv

\* The exchange of a plain simple conveyor, and that of a biconveyor.
LEMMA ExchangeInv ==
  ASSUME IInv, bi' = bi, (~bi /\ Exchange) \/ (bi /\ AskExchange)
  PROVE  IInv'
<1>1. CASE ~bi /\ Exchange
  <2>1. ExchangeBuffers
    BY <1>1 DEF Exchange, ExchangeBuffers, AfterExchange, Return
  <2> QED
    BY <2>1, ExchangeBuffersInv
<1>2. CASE bi /\ AskExchange
  <2>1. ExchangeBuffers
    BY <1>2 DEF AskExchange, ExchangeBuffers
  <2> QED
    BY <2>1, ExchangeBuffersInv
<1> QED
  BY <1>1, <1>2

\* A PE answers the next query.
LEMMA AnswerInv ==
  ASSUME IInv, NEW p \in PE, Answer(p), bi' = bi
  PROVE  IInv'
<1>1. PICK s \in Unanswered(p) :
        /\ \A x \in Unanswered(p) : s <= x
        /\ send' = [send EXCEPT ![p][s] = Append(@, recv[p][s].items[recv[p][s].next + 1])]
        /\ recv' = [recv EXCEPT ![p][s].next = @ + 1]
        /\ got' = [got EXCEPT ![p][s] = Append(@, recv[p][s].items[recv[p][s].next + 1])]
  BY DEF Answer
<1>2. /\ Types /\ at[p] = "answer"
      /\ opt' = opt /\ circle' = circle /\ nonempty' = nonempty /\ overflow' = overflow
      /\ quiet' = quiet /\ state' = state /\ vote' = vote /\ at' = at /\ over' = over
      /\ pushed' = pushed /\ round' = round /\ pull_from' = pull_from
  BY DEF IInv, Answer
<1>3. bi /\ \A q \in PE : at[q] = "answer"
  BY <1>2 DEF IInv, Answering
<1>4. s \in PE /\ recv[p][s].next < Len(recv[p][s].items)
  BY <1>1 DEF Unanswered
<1> DEFINE r == recv[p][s]
           k == r.next + 1
           x == r.items[k]
           g == Append(got[p][s], x)
           b == Append(send[p][s], x)
<1>5. r.items \in Seq(Nat) /\ r.next \in Nat /\ got[p][s] \in Seq(Nat) /\ send[p][s] \in Seq(Nat)
  BY <1>2, <1>4, TypesAt
<1>6. /\ k \in Nat /\ x \in Nat /\ k <= Len(r.items)
  <2> DEFINE items == r.items
             next == r.next
  <2>1. items \in Seq(Nat) /\ next \in Nat /\ next < Len(items)
    BY <1>4, <1>5
  <2> HIDE DEF items, next
  <2>2. items[next + 1] \in Nat /\ next + 1 <= Len(items) /\ next + 1 \in Nat
    BY <2>1
  <2> QED
    BY <2>2 DEF items, next
<1>7. /\ send' = [send EXCEPT ![p][s] = b] /\ got' = [got EXCEPT ![p][s] = g]
      /\ recv' = [recv EXCEPT ![p][s].next = k]
  BY <1>1, <1>2, <1>4 DEF Types
<1> HIDE DEF r, x, k
<1>8. /\ g \in Seq(Nat) /\ b \in Seq(Nat) /\ Len(b) = Len(send[p][s]) + 1
      /\ b[Len(send[p][s]) + 1] = x /\ Len(send[p][s]) \in Nat
      /\ \A i \in 1 .. Len(send[p][s]) : b[i] = send[p][s][i]
  BY <1>5, <1>6
<1> HIDE DEF g, b
<1>9. /\ send' \in [PE -> [PE -> Seq(Nat)]] /\ send'[p][s] = b
      /\ \A q, e \in PE : q # p \/ e # s => send'[q][e] = send[q][e]
      /\ \A q \in PE : q # p => send'[q] = send[q]
  <2> DEFINE V == Seq(Nat)
  <2>1. send \in [PE -> [PE -> V]] /\ b \in V
    BY <1>2, <1>8 DEF Types
  <2> HIDE DEF V
  <2> QED
    BY <1>4, <1>7, <2>1, OneEntry DEF V
<1>10. /\ got' \in [PE -> [PE -> Seq(Nat)]] /\ got'[p][s] = g
       /\ \A q, e \in PE : q # p \/ e # s => got'[q][e] = got[q][e]
  <2> DEFINE V == Seq(Nat)
  <2>1. got \in [PE -> [PE -> V]] /\ g \in V
    BY <1>2, <1>8 DEF Types
  <2> HIDE DEF V
  <2> QED
    BY <1>4, <1>7, <2>1, OneEntry DEF V
<1>11. ReadTo(recv, recv', p, s, k)
  <2>1. recv \in [PE -> [PE -> Buffer]]
    BY <1>2 DEF Types
  <2>2. ReadTo(recv, [recv EXCEPT ![p][s].next = k], p, s, k)
    BY <1>4, <1>6, <2>1, NextEntry
  <2> QED
    BY <1>7, <2>2
<1>12. /\ recv' \in [PE -> [PE -> Buffer]]
       /\ recv'[p][s].items = r.items /\ recv'[p][s].next = k
       /\ \A q, e \in PE : q # p \/ e # s => recv'[q][e] = recv[q][e]
       /\ \A q \in PE : q # p => recv'[q] = recv[q]
  BY <1>11 DEF ReadTo, r
<1>13. \A q, e \in PE : Outgoing(q, e) = <<>> /\ Outgoing(q, e)' = <<>>
  BY <1>2, <1>3 DEF Outgoing
<1>14. Types'
  BY <1>2, <1>9, <1>10, <1>12 DEF Types, IInv
<1>15. ASSUME NEW t \in PE, NEW e \in PE PROVE ChainOf(t, e)'
  <2>1. CASE t # s \/ e # p
    BY <1>2, <1>10, <1>12, <1>13, <2>1, ChainSame
  <2>2. CASE t = s /\ e = p
    <3> DEFINE h == got[p][s]
               items == r.items
               next == r.next
               c == circle[s]
               np == pushed[s][p]
    <3>1. /\ h \in Seq(Nat) /\ items \in Seq(Nat) /\ next \in Nat /\ c \in Seq(Entry)
          /\ np \in Nat /\ next < Len(items) /\ <<>> \in Seq(Nat) /\ p \in PE
      BY <1>2, <1>4, <1>5, TypesAt DEF r
    <3>2. Chain(h, items, next, <<>>, c, p, np)
      BY <1>4, <1>13 DEF IInv, ChainOf, r
    <3> HIDE DEF h, items, next, c, np
    <3>3. Chain(Append(h, items[next+1]), items, next+1, <<>>, c, p, np)
      BY <3>1, <3>2, ChainTake
    <3>4. ChainOf(s, p)'
      <4>1. Chain(g, r.items, k, <<>>, circle[s], p, pushed[s][p])
        BY <3>3 DEF h, items, next, c, np, g, k, x
      <4> QED
        BY <1>2, <1>4, <1>10, <1>12, <1>13, <4>1 DEF ChainOf
    <3> QED
      BY <2>2, <3>4
  <2> QED
    BY <2>1, <2>2
<1>16. Len(send[p][s]) = r.next /\ Answering(p) /\ Room(p)
  BY <1>2, <1>4 DEF IInv, Answering, r
<1>17. ASSUME NEW q \in PE PROVE Room(q)'
  <2>1. CASE q # p
    BY <1>2, <1>9, <1>12, <2>1, RoomSame
  <2>2. CASE q = p
    <3>1. ASSUME NEW d \in PE
          PROVE  Len(send'[p][d]) <= Capacity /\ Len(recv'[p][d].items) <= Capacity
      <4>1. Len(send[p][d]) <= Capacity /\ Len(recv[p][d].items) <= Capacity
        BY <1>16 DEF Room
      <4>2. CASE d # s
        BY <1>9, <1>12, <4>1, <4>2
      <4>3. CASE d = s
        <5>1. Len(r.items) <= Capacity /\ Len(r.items) \in Nat
          BY <1>5, <4>1, <4>3 DEF r
        <5>2. Len(b) = k
          BY <1>8, <1>16 DEF k
        <5>3. k <= Capacity
          BY <1>6, <5>1, SimpleAssumption
        <5> QED
          BY <1>9, <1>12, <4>3, <5>1, <5>2, <5>3
      <4> QED
        BY <4>2, <4>3
    <3> QED
      BY <1>2, <1>3, <1>16, <2>2, <3>1 DEF Room
  <2> QED
    BY <2>1, <2>2
<1>18. ASSUME NEW q \in PE PROVE Course(q)'
  <2>1. Course(q) /\ at[q] = "answer"
    BY <1>3 DEF IInv
  <2> QED
    BY <1>2, <2>1 DEF Course
<1>19. ASSUME NEW q \in PE PROVE Answering(q)'
  <2>1. Answering(q)
    BY DEF IInv
  <2>2. ASSUME NEW e \in PE
        PROVE  /\ Len(send'[q][e]) = recv'[q][e].next
               /\ \A i \in 1 .. Len(send'[q][e]) : send'[q][e][i] = recv'[q][e].items[i]
    <3>1. /\ Len(send[q][e]) = recv[q][e].next
          /\ \A i \in 1 .. Len(send[q][e]) : send[q][e][i] = recv[q][e].items[i]
      BY <1>3, <2>1 DEF Answering
    <3>2. CASE q # p \/ e # s
      BY <1>9, <1>12, <3>1, <3>2
    <3>3. CASE q = p /\ e = s
      <4>1. Len(b) = k
        BY <1>8, <1>16 DEF k
      <4>2. ASSUME NEW i \in 1 .. k PROVE b[i] = r.items[i]
        <5>1. CASE i = k
          BY <1>8, <1>16, <5>1 DEF k, x
        <5>2. CASE i # k
          <6>1. i \in 1 .. Len(send[p][s])
            BY <1>5, <1>16, <5>2 DEF k
          <6>2. send[p][s][i] = r.items[i]
            BY <3>1, <3>3, <6>1 DEF r
          <6> QED
            BY <1>8, <6>1, <6>2
        <5> QED
          BY <5>1, <5>2
      <4> QED
        BY <1>9, <1>12, <3>3, <4>1, <4>2
    <3> QED
      BY <3>2, <3>3
  <2> QED
    BY <1>2, <1>3, <2>1, <2>2 DEF Answering
<1>20. Ending'
  BY <1>2, <1>13 DEF IInv, Ending, AtEnd, Ended
<1>21. \A q, t \in PE : round'[q] = round'[t]
  BY <1>2 DEF IInv
<1> QED
  BY <1>14, <1>15, <1>17, <1>18, <1>19, <1>20, <1>21 DEF IInv

\* The replies are exchanged, and there is one to each query.
LEMMA ReplyExchangeInv ==
  ASSUME IInv, ReplyExchange, AllReplied
  PROVE  IInv'
<1>1. /\ Types /\ \A p \in PE : at[p] = "answer" /\ Unanswered(p) = {}
  BY DEF IInv, ReplyExchange, AllAt
<1>2. /\ opt' = opt /\ circle' = circle /\ over' = over /\ pushed' = pushed /\ round' = round
      /\ got' = got /\ bi' = bi /\ state' = state /\ vote' = vote /\ quiet' = quiet
      /\ pull_from' = pull_from
      /\ send' = [p \in PE |-> EmptySend] /\ nonempty' = [p \in PE |-> FALSE]
      /\ overflow' = [p \in PE |-> FALSE] /\ recv' = [p \in PE |-> EmptyRecv]
      /\ at' = [p \in PE |-> "client"]
  BY DEF ReplyExchange, Gather, ClearSend
<1>3. \A p \in PE : at'[p] = "client"
  BY <1>2
<1>4. /\ send' \in [PE -> [PE -> Seq(Nat)]] /\ recv' \in [PE -> [PE -> Buffer]]
      /\ \A p, d \in PE : send'[p][d] = <<>> /\ recv'[p][d].items = <<>> /\ recv'[p][d].next = 0
  BY <1>2, EmptyBuffers
<1>5. \A p, d \in PE : Outgoing(p, d) = <<>> /\ Outgoing(p, d)' = <<>>
  BY <1>1, <1>4 DEF Outgoing
<1>6. ASSUME NEW p \in PE, NEW s \in PE PROVE Read(p, s)
  <2>1. /\ recv[p][s].next <= Len(recv[p][s].items)
        /\ recv[p][s].next \in Nat /\ Len(recv[p][s].items) \in Nat
    BY ReadBounds
  <2>2. ~(recv[p][s].next < Len(recv[p][s].items))
    BY <1>1 DEF Unanswered
  <2> QED
    BY <2>1, <2>2 DEF Read
<1>7. Types'
  <2>1. /\ at' \in [PE -> Standpoint] /\ nonempty' \in [PE -> BOOLEAN]
        /\ overflow' \in [PE -> BOOLEAN]
    BY <1>2 DEF Standpoint
  <2> QED
    BY <1>1, <1>2, <1>4, <2>1 DEF Types
<1>8. ASSUME NEW s \in PE, NEW t \in PE PROVE ChainOf(s, t)'
  <2>1. got[t][s] \in Seq(Nat) /\ recv[t][s].items \in Seq(Nat) /\ <<>> \in Seq(Nat)
    BY <1>1, TypesAt
  <2>2. Chain(got[t][s], recv[t][s].items, Len(recv[t][s].items), <<>>, circle[s], t,
              pushed[s][t])
    BY <1>5, <1>6 DEF IInv, ChainOf, Read
  <2>3. Chain(got[t][s], <<>>, 0, <<>>, circle[s], t, pushed[s][t])
    BY <2>1, <2>2, ChainEmptied
  <2> QED
    BY <1>2, <1>4, <1>5, <2>3 DEF ChainOf
<1>9. ASSUME NEW q \in PE PROVE Room(q)'
  <2>1. /\ Len(circle[q]) <= Circle /\ (~opt.scatter => circle[q] = <<>>)
        /\ \A d \in PE : pushed[q][d] <= Quota[q][d]
    BY DEF IInv, Room
  <2>2. Len(<<>>) = 0 /\ 0 <= Capacity /\ 0 < Capacity
    BY SimpleAssumption
  <2>3. \A d \in PE : /\ Len(send'[q][d]) <= Capacity /\ Len(send'[q][d]) < Capacity
                      /\ Len(recv'[q][d].items) <= Capacity
    BY <1>4, <2>2
  <2> QED
    BY <1>2, <2>1, <2>3 DEF Room
<1>10. ASSUME NEW q \in PE PROVE Course(q)'
  <2>1. Course(q)
    BY DEF IInv
  <2>2. \A s \in PE : Read(q, s)'
    <3>1. Len(<<>>) = 0
      OBVIOUS
    <3> QED
      BY <1>4, <3>1 DEF Read
  <2> QED
    BY <1>1, <1>2, <1>3, <2>1, <2>2 DEF Course
<1>11. \A q \in PE : Answering(q)'
  BY <1>2, <1>3, AnsweringSame DEF IInv, Answering
<1>12. Ending'
  BY <1>1, <1>2, <1>3, <1>5 DEF IInv, Ending, AtEnd, Ended
<1>13. \A q, r \in PE : round'[q] = round'[r]
  BY <1>2 DEF IInv
<1> QED
  BY <1>7, <1>8, <1>9, <1>10, <1>11, <1>12, <1>13 DEF IInv

-----------------------------------------------------------------------------
(* A new round *)

\* A PE that is about to leave the round has seen the end of it.
LEMMA TheEnd ==
  ASSUME IInv, NEW p \in PE, Ended(p) \/ state[p] \in {"complete", "dormant"}
  PROVE  \A q \in PE : AtEnd(q)
BY DEF IInv, Ending

\* The client resets the conveyor.
LEMMA ResetInv ==
  ASSUME IInv, NEW p \in PE, Reset(p), bi' = bi
  PROVE  IInv'
<1>1. /\ Types /\ at[p] = "client" /\ state[p] = "complete"
      /\ state' = [state EXCEPT ![p] = "dormant"]
      /\ opt' = opt /\ send' = send /\ circle' = circle /\ nonempty' = nonempty
      /\ overflow' = overflow /\ quiet' = quiet /\ over' = over /\ vote' = vote /\ at' = at
      /\ pushed' = pushed /\ round' = round /\ recv' = recv /\ got' = got
      /\ pull_from' = pull_from
  BY DEF IInv, Reset, buffers
<1>2. /\ state' \in [PE -> State] /\ state'[p] = "dormant"
      /\ \A q \in PE : q # p => state'[q] = state[q]
  BY <1>1 DEF Types, State
<1>3. Types'
  BY <1>1, <1>2 DEF Types
<1>4. ASSUME NEW s \in PE, NEW t \in PE PROVE ChainOf(s, t)'
  BY <1>1, ChainSame DEF Outgoing
<1>5. \A q \in PE : Room(q)'
  BY <1>1, RoomSame
<1>6. ASSUME NEW q \in PE PROVE Course(q)'
  <2>1. CASE q # p
    BY <1>1, <1>2, <2>1, CourseSame
  <2>2. CASE q = p
    <3>1. Course(p)
      BY DEF IInv
    <3> QED
      BY <1>1, <1>2, <2>2, <3>1 DEF Course, Read
  <2> QED
    BY <2>1, <2>2
<1>7. \A q \in PE : Answering(q)'
  <2>1. \A q \in PE : at[q] # "answer"
    BY <1>1, NoAnswers
  <2> QED
    BY <1>1, <2>1, AnsweringSame DEF IInv, Answering
<1>8. Ending'
  <2>1. \A q \in PE : AtEnd(q)
    BY <1>1, TheEnd
  <2>2. ASSUME NEW q \in PE PROVE AtEnd(q)' /\ Ended(q)'
    <3>1. AtEnd(q)
      BY <2>1
    <3>2. state'[q] \in {"cleanup", "complete", "dormant"}
      BY <1>2, <3>1 DEF AtEnd
    <3> QED
      BY <1>1, <3>1, <3>2 DEF AtEnd, Ended, Outgoing
  <2> QED
    BY <2>2 DEF Ending
<1>9. \A q, r \in PE : round'[q] = round'[r]
  BY <1>1 DEF IInv
<1> QED
  BY <1>3, <1>4, <1>5, <1>6, <1>7, <1>8, <1>9 DEF IInv

\* A PE begins, up to the barrier.
LEMMA BeginInv ==
  ASSUME IInv, NEW p \in PE, Begin(p), bi' = bi
  PROVE  IInv'
<1>1. /\ Types /\ at[p] = "client" /\ state[p] = "dormant"
      /\ send' = [send EXCEPT ![p] = EmptySend]
      /\ recv' = [recv EXCEPT ![p] = EmptyRecv]
      /\ nonempty' = [nonempty EXCEPT ![p] = FALSE]
      /\ overflow' = [overflow EXCEPT ![p] = FALSE]
      /\ pull_from' = [pull_from EXCEPT ![p] = N]
      /\ quiet' = [quiet EXCEPT ![p] = FALSE]
      /\ at' = [at EXCEPT ![p] = "begin"]
      /\ opt' = opt /\ circle' = circle /\ state' = state /\ over' = over /\ vote' = vote
      /\ pushed' = pushed /\ round' = round /\ got' = got
  BY DEF IInv, Begin
<1>2. \A q \in PE : AtEnd(q)
  BY <1>1, TheEnd
<1>3. \A q \in PE : at[q] # "answer"
  BY <1>1, NoAnswers
<1>4. /\ send' \in [PE -> [PE -> Seq(Nat)]] /\ send'[p] = EmptySend
      /\ \A q \in PE : q # p => send'[q] = send[q]
  <2> DEFINE V == [PE -> Seq(Nat)]
             v == EmptySend
  <2>1. send \in [PE -> V] /\ v \in V
    BY <1>1, EmptyBuffers DEF Types
  <2> HIDE DEF V, v
  <2>2. send' \in [PE -> V] /\ send'[p] = v /\ \A q \in PE : q # p => send'[q] = send[q]
    BY <1>1, <2>1, OneRow DEF v
  <2> QED
    BY <2>2 DEF V, v
<1>5. /\ recv' \in [PE -> [PE -> Buffer]] /\ recv'[p] = EmptyRecv
      /\ \A q \in PE : q # p => recv'[q] = recv[q]
  <2> DEFINE V == [PE -> Buffer]
             v == EmptyRecv
  <2>1. recv \in [PE -> V] /\ v \in V
    BY <1>1, EmptyBuffers DEF Types
  <2> HIDE DEF V, v
  <2>2. recv' \in [PE -> V] /\ recv'[p] = v /\ \A q \in PE : q # p => recv'[q] = recv[q]
    BY <1>1, <2>1, OneRow DEF v
  <2> QED
    BY <2>2 DEF V, v
<1>6. /\ pull_from' \in [PE -> 0 .. N] /\ pull_from'[p] = N
      /\ \A q \in PE : q # p => pull_from'[q] = pull_from[q]
  <2> DEFINE V == 0 .. N
  <2>1. pull_from \in [PE -> V] /\ N \in V
    BY <1>1, SimpleAssumption DEF Types
  <2> HIDE DEF V
  <2>2. /\ pull_from' \in [PE -> V] /\ pull_from'[p] = N
        /\ \A q \in PE : q # p => pull_from'[q] = pull_from[q]
    BY <1>1, <2>1, OneRow
  <2> QED
    BY <2>2 DEF V
<1>7. /\ at' \in [PE -> Standpoint] /\ at'[p] = "begin" /\ quiet'[p] = FALSE
      /\ quiet' \in [PE -> BOOLEAN] /\ nonempty' \in [PE -> BOOLEAN]
      /\ overflow' \in [PE -> BOOLEAN]
      /\ \A q \in PE : q # p => at'[q] = at[q] /\ quiet'[q] = quiet[q] /\ overflow'[q] = overflow[q]
  BY <1>1 DEF Types, Standpoint
<1>8. \A q \in PE : at'[q] # "answer"
  <2> SUFFICES ASSUME NEW q \in PE PROVE at'[q] # "answer"
    OBVIOUS
  <2> QED
    BY <1>3, <1>7
<1>9. Types'
  BY <1>1, <1>4, <1>5, <1>6, <1>7 DEF Types
<1>10. \A q, d \in PE : Outgoing(q, d) = <<>> /\ Outgoing(q, d)' = <<>>
  <2> SUFFICES ASSUME NEW q \in PE, NEW d \in PE
               PROVE  Outgoing(q, d) = <<>> /\ Outgoing(q, d)' = <<>>
    OBVIOUS
  <2>1. Outgoing(q, d) = <<>>
    BY <1>2 DEF AtEnd
  <2>2. send[q][d] = <<>>
    BY <1>3, <2>1 DEF Outgoing
  <2>3. EmptySend[d] = <<>>
    BY EmptyBuffers
  <2>4. send'[q][d] = <<>>
    BY <1>4, <2>2, <2>3
  <2> QED
    BY <2>1, <2>4, <1>8 DEF Outgoing
<1>11. pull_from[p] = N /\ \A s \in PE : Read(p, s)
  <2>1. Course(p) /\ \A s \in PE : s < N
    BY Ranks DEF IInv
  <2> QED
    BY <1>1, <2>1 DEF Course
<1>12. ASSUME NEW s \in PE, NEW t \in PE PROVE ChainOf(s, t)'
  <2>1. CASE t # p
    BY <1>1, <1>5, <1>10, <2>1, ChainSame
  <2>2. CASE t = p
    <3>1. got[p][s] \in Seq(Nat) /\ recv[p][s].items \in Seq(Nat) /\ <<>> \in Seq(Nat)
      BY <1>1, TypesAt
    <3>2. Chain(got[p][s], recv[p][s].items, Len(recv[p][s].items), <<>>, circle[s], p,
                pushed[s][p])
      BY <1>10, <1>11 DEF IInv, ChainOf, Read
    <3>3. Chain(got[p][s], <<>>, 0, <<>>, circle[s], p, pushed[s][p])
      BY <3>1, <3>2, ChainEmptied
    <3>4. recv'[p][s].items = <<>> /\ recv'[p][s].next = 0
      BY <1>5, EmptyBuffers
    <3>5. ChainOf(s, p)'
      BY <1>1, <1>10, <3>3, <3>4 DEF ChainOf
    <3> QED
      BY <2>2, <3>5
  <2> QED
    BY <2>1, <2>2
<1>13. ASSUME NEW q \in PE PROVE Room(q)'
  <2>1. CASE q # p
    BY <1>1, <1>4, <1>5, <1>7, <2>1, RoomSame
  <2>2. CASE q = p
    <3>1. /\ Len(circle[p]) <= Circle /\ (~opt.scatter => circle[p] = <<>>)
          /\ \A d \in PE : pushed[p][d] <= Quota[p][d]
      BY DEF IInv, Room
    <3>2. Len(<<>>) = 0 /\ 0 <= Capacity /\ 0 < Capacity
      BY SimpleAssumption
    <3>3. \A d \in PE : send'[p][d] = <<>> /\ recv'[p][d].items = <<>>
      BY <1>4, <1>5, EmptyBuffers
    <3>4. \A d \in PE : /\ Len(send'[p][d]) <= Capacity /\ Len(send'[p][d]) < Capacity
                        /\ Len(recv'[p][d].items) <= Capacity
      BY <3>2, <3>3
    <3> QED
      BY <1>1, <2>2, <3>1, <3>4 DEF Room
  <2> QED
    BY <2>1, <2>2
<1>14. ASSUME NEW q \in PE PROVE Course(q)'
  <2>1. CASE q # p
    BY <1>1, <1>4, <1>5, <1>6, <1>7, <2>1, CourseSame
  <2>2. CASE q = p
    <3>1. over[p]
      BY <1>2 DEF AtEnd
    <3>2. \A s \in PE : Read(p, s)'
      <4>1. Len(<<>>) = 0
        OBVIOUS
      <4> QED
        BY <1>5, <4>1, EmptyBuffers DEF Read
    <3> QED
      BY <1>1, <1>4, <1>5, <1>6, <1>7, <2>2, <3>1, <3>2 DEF Course
  <2> QED
    BY <2>1, <2>2
<1>15. ASSUME NEW q \in PE PROVE Answering(q)'
  <2>1. bi => pull_from'[q] = N
    BY <1>6 DEF IInv, Answering
  <2> QED
    BY <1>1, <1>8, <2>1, AnsweringSame
<1>16. Ending'
  <2>1. ASSUME NEW q \in PE PROVE AtEnd(q)' /\ Ended(q)'
    <3>1. AtEnd(q)
      BY <1>2
    <3>2. Ended(q)'
      BY <1>7, <3>1 DEF AtEnd, Ended
    <3> QED
      BY <1>1, <1>10, <3>1, <3>2 DEF AtEnd
  <2> QED
    BY <2>1 DEF Ending
<1>17. \A q, r \in PE : round'[q] = round'[r]
  BY <1>1 DEF IInv
<1> QED
  BY <1>9, <1>12, <1>13, <1>14, <1>15, <1>16, <1>17 DEF IInv

\* All enter the new round.
LEMMA FinishBeginInv ==
  ASSUME IInv, FinishBegin, bi' = bi
  PROVE  IInv'
<1>1. /\ Types /\ \A p \in PE : at[p] = "begin"
  BY DEF IInv, FinishBegin, AllAt
<1>2. /\ opt' = opt /\ send' = send /\ circle' = circle /\ nonempty' = nonempty
      /\ overflow' = overflow /\ quiet' = quiet /\ vote' = vote
      /\ recv' = recv /\ pull_from' = pull_from
      /\ at' = [p \in PE |-> "client"] /\ state' = [p \in PE |-> "working"]
      /\ over' = [p \in PE |-> FALSE]
      /\ pushed' = [p \in PE |-> [d \in PE |-> 0]]
      /\ got' = [p \in PE |-> [s \in PE |-> <<>>]]
      /\ round' = [p \in PE |-> round[p] + 1]
  BY DEF FinishBegin, buffers
<1>3. \A p \in PE : /\ at'[p] = "client" /\ state'[p] = "working" /\ over'[p] = FALSE
                    /\ \A d \in PE : pushed'[p][d] = 0 /\ got'[p][d] = <<>>
  BY <1>2
<1>4. \A p \in PE : /\ recv[p] = EmptyRecv /\ send[p] = EmptySend /\ ~quiet[p]
                    /\ pull_from[p] = N
  BY <1>1 DEF IInv, Course
<1>5. \A p, d \in PE : send[p][d] = <<>> /\ recv[p][d].items = <<>> /\ recv[p][d].next = 0
  BY <1>4, EmptyBuffers
<1>6. \A p \in PE : circle[p] = <<>>
  <2> SUFFICES ASSUME NEW p \in PE PROVE circle[p] = <<>>
    OBVIOUS
  <2>1. Ended(p)
    BY <1>1 DEF Ended
  <2> QED
    BY <2>1, TheEnd DEF AtEnd
<1>7. Types'
  <2>1. /\ at' \in [PE -> Standpoint] /\ state' \in [PE -> State] /\ over' \in [PE -> BOOLEAN]
    BY <1>2 DEF Standpoint, State
  <2>2. pushed' \in [PE -> [PE -> Nat]] /\ got' \in [PE -> [PE -> Seq(Nat)]]
    BY <1>2
  <2>3. round' \in [PE -> Nat]
    BY <1>1, <1>2 DEF Types
  <2> QED
    BY <1>1, <1>2, <2>1, <2>2, <2>3 DEF Types
<1>8. ASSUME NEW s \in PE, NEW t \in PE PROVE ChainOf(s, t)'
  <2>1. Outgoing(s, t)' = <<>>
    BY <1>2, <1>5 DEF Outgoing
  <2>2. Chain(<<>>, <<>>, 0, <<>>, <<>>, t, 0)
    BY ChainNew
  <2> QED
    BY <1>2, <1>3, <1>5, <1>6, <2>1, <2>2 DEF ChainOf
<1>9. ASSUME NEW q \in PE PROVE Room(q)'
  <2>1. Room(q)
    BY DEF IInv
  <2>2. \A d \in PE : 0 <= Quota[q][d]
    BY ClientAssumption
  <2> QED
    BY <1>1, <1>2, <1>3, <2>1, <2>2 DEF Room
<1>10. ASSUME NEW q \in PE PROVE Course(q)'
  <2>1. \A s \in PE : Read(q, s)'
    <3>1. Len(<<>>) = 0
      OBVIOUS
    <3> QED
      BY <1>2, <1>5, <3>1 DEF Read
  <2> QED
    BY <1>3, <2>1 DEF Course
<1>11. \A q \in PE : Answering(q)'
  BY <1>2, <1>3, AnsweringSame DEF IInv, Answering
<1>12. Ending'
  BY <1>2, <1>3, <1>4 DEF Ending, Ended
<1>13. \A q, r \in PE : round'[q] = round'[r]
  BY <1>2 DEF IInv
<1> QED
  BY <1>7, <1>8, <1>9, <1>10, <1>11, <1>12, <1>13 DEF IInv

-----------------------------------------------------------------------------
(* The inductive invariant *)

\* A step that leaves the simple conveyor alone.
LEMMA StutterInv ==
  ASSUME IInv, UNCHANGED vars, bi' = bi
  PROVE  IInv'
<1>1. /\ opt' = opt /\ send' = send /\ circle' = circle /\ nonempty' = nonempty
      /\ overflow' = overflow /\ quiet' = quiet /\ over' = over /\ vote' = vote /\ at' = at
      /\ pushed' = pushed /\ round' = round /\ recv' = recv /\ got' = got
      /\ pull_from' = pull_from /\ state' = state
  BY DEF vars, buffers
<1>2. Types'
  BY <1>1 DEF IInv, Types
<1>3. ASSUME NEW s \in PE, NEW t \in PE PROVE ChainOf(s, t)'
  BY <1>1, ChainSame DEF Outgoing
<1>4. ASSUME NEW q \in PE PROVE Room(q)' /\ Course(q)'
  BY <1>1, RoomSame, CourseSame
<1>5. ASSUME NEW q \in PE PROVE Answering(q)'
  BY <1>1 DEF IInv, Answering
<1>6. Ending'
  BY <1>1, EndingSame
<1>7. \A q, r \in PE : round'[q] = round'[r]
  BY <1>1 DEF IInv
<1> QED
  BY <1>2, <1>3, <1>4, <1>5, <1>6, <1>7 DEF IInv

\* The steps of a simple conveyor, plain or under a biconveyor, as the links see
\* them: a biconveyor is asked where a client pushes, and does not pull.
Step ==
  /\ bi' = bi
  /\ \/ \E p, d \in PE : Push(p, d) \/ PushFails(p, d)
     \/ \E p \in PE : ~bi /\ (Pull(p) \/ PullNothing(p) \/ Unpull(p))
     \/ \E p \in PE, d \in BOOLEAN : StartAdvance(p, d)
     \/ AgreeNot \/ (~bi /\ Exchange) \/ (bi /\ AskExchange)
     \/ bi /\ ReplyExchange /\ AllReplied
     \/ \E p \in PE : bi /\ Answer(p)
     \/ FinishBegin
     \/ \E p \in PE : Reset(p) \/ Begin(p)
     \/ UNCHANGED vars

\* The program has been ended by the assertion in bisimple_advance.
Stopped == TypeOK /\ \A p \in PE : at[p] = "aborted"

\* What ends it.
Failure == /\ AllAt("answer") /\ \A p \in PE : Unanswered(p) = {}
           /\ ~AllReplied /\ Abort

LEMMA StepOfNext ==
  ASSUME [NextBi]_allvars
  PROVE  Step \/ Failure
<1>1. CASE UNCHANGED allvars
  BY <1>1 DEF Step, allvars, bivars
<1>2. ASSUME NEW p \in PE, NEW d \in PE,
             Plain(Push(p, d) \/ PushFails(p, d)) \/ (bi /\ (Ask(p, d) \/ AskFails(p, d)))
      PROVE  Step
  BY <1>2 DEF Step, Plain, Ask, AskFails, bivars
<1>3. ASSUME NEW p \in PE, Plain(Pull(p) \/ PullNothing(p) \/ Unpull(p)) PROVE Step
  BY <1>3 DEF Step, Plain, bivars
<1>4. ASSUME NEW p \in PE, bi /\ Take(p) PROVE Step
  BY <1>4 DEF Step, Take
<1>5. ASSUME NEW p \in PE, AdvanceBi(p) PROVE Step
  BY <1>5 DEF Step, AdvanceBi, AnyAdvance, Plain, Under, bivars
<1>6. ASSUME NEW p \in PE,
             Plain(Reset(p)) \/ (bi /\ ResetBi(p)) \/ Plain(Begin(p)) \/ Under(Begin(p))
      PROVE  Step
  BY <1>6 DEF Step, ResetBi, Plain, Under, bivars
<1>7. CASE CollectiveBi
  <2>1. CASE bi /\ ReplyExchange
    <3>1. CASE AllReplied
      <4>1. bi' = bi
        BY <2>1, <3>1 DEF ReplyExchange, Gather
      <4> QED
        BY <2>1, <3>1, <4>1 DEF Step
    <3>2. CASE ~AllReplied
      BY <2>1, <3>2 DEF ReplyExchange, Failure
    <3> QED
      BY <3>1, <3>2
  <2>2. CASE ~(bi /\ ReplyExchange)
    BY <1>7, <2>2 DEF Step, CollectiveBi, Plain, Under, bivars, AskExchange, Answer,
                      FinishBeginBi
  <2> QED
    BY <2>1, <2>2
<1>8. CASE Plain(Finished) \/ Under(Finished)
  BY <1>8 DEF Step, Finished, Plain, Under, bivars
<1> QED
  BY <1>1, <1>2, <1>3, <1>4, <1>5, <1>6, <1>7, <1>8 DEF NextBi

\* Every step keeps the invariant.
LEMMA StepInv ==
  ASSUME IInv, Step
  PROVE  IInv'
<1>0. bi' = bi
  BY DEF Step
<1>1. ASSUME NEW p \in PE, NEW d \in PE, Push(p, d) \/ PushFails(p, d) PROVE IInv'
  BY <1>0, <1>1, PushInv, PushFailsInv
<1>2. ASSUME NEW p \in PE, ~bi /\ (Pull(p) \/ PullNothing(p) \/ Unpull(p)) PROVE IInv'
  BY <1>0, <1>2, PullInv, PullNothingInv, UnpullInv
<1>3. ASSUME NEW p \in PE, NEW d \in BOOLEAN, StartAdvance(p, d) PROVE IInv'
  BY <1>0, <1>3, VoteInv, QuietInv
<1>4. ASSUME \/ AgreeNot \/ (~bi /\ Exchange) \/ (bi /\ AskExchange)
             \/ bi /\ ReplyExchange /\ AllReplied
             \/ FinishBegin \/ UNCHANGED vars
      PROVE IInv'
  BY <1>0, <1>4, AgreeNotInv, ExchangeInv, ReplyExchangeInv, FinishBeginInv, StutterInv
<1>5. ASSUME NEW p \in PE, (bi /\ Answer(p)) \/ Reset(p) \/ Begin(p) PROVE IInv'
  BY <1>0, <1>5, AnswerInv, ResetInv, BeginInv
<1> QED
  BY <1>1, <1>2, <1>3, <1>4, <1>5 DEF Step

\* The types of the model follow from those of the proof.
LEMMA TypeOKOf == ASSUME IInv PROVE TypeOK
<1>1. Types
  BY DEF IInv
<1>2. ASSUME NEW p \in PE, NEW d \in PE
      PROVE  /\ Len(send[p][d]) <= Capacity
             /\ recv[p][d].next \in 0 .. Len(recv[p][d].items)
             /\ pushed[p][d] \in 0 .. Quota[p][d]
  <2>1. /\ recv[p][d].next <= Len(recv[p][d].items)
        /\ recv[p][d].next \in Nat /\ Len(recv[p][d].items) \in Nat
    BY ReadBounds
  <2>2. Len(send[p][d]) <= Capacity /\ pushed[p][d] <= Quota[p][d]
    BY DEF IInv, Room
  <2>3. pushed[p][d] \in Nat /\ Quota[p][d] \in Nat
    BY <1>1, TypesAt, ClientAssumption
  <2> QED
    BY <2>1, <2>2, <2>3
<1>3. \A p \in PE : Len(circle[p]) <= Circle
  BY DEF IInv, Room
<1> QED
  BY <1>1, <1>2, <1>3 DEF TypeOK, Types, State, Standpoint

\* An assertion that fails changes nothing but where the PEs stand.
LEMMA FailureStops ==
  ASSUME IInv, Failure
  PROVE  Stopped'
<1>1. /\ opt' = opt /\ send' = send /\ circle' = circle /\ nonempty' = nonempty
      /\ overflow' = overflow /\ quiet' = quiet /\ over' = over /\ vote' = vote
      /\ pushed' = pushed /\ round' = round /\ recv' = recv /\ got' = got
      /\ pull_from' = pull_from /\ state' = state
      /\ at' = [p \in PE |-> "aborted"]
  BY DEF Failure, Abort, buffers
<1>2. TypeOK'
  BY <1>1, TypeOKOf DEF TypeOK
<1> QED
  BY <1>1, <1>2 DEF Stopped

\* Nothing happens after it.
LEMMA StoppedForGood ==
  ASSUME Stopped, [NextBi]_allvars
  PROVE  UNCHANGED allvars
<1>1. PE # {} /\ \A p \in PE : at[p] \notin {"client", "agree", "begin", "answer"}
  BY Ranks DEF Stopped
<1>2. \A place \in {"agree", "begin", "answer"} : ~AllAt(place)
  BY <1>1 DEF AllAt
<1>3. \A p, d \in PE : ~Push(p, d) /\ ~PushFails(p, d) /\ ~Ask(p, d) /\ ~AskFails(p, d)
  BY <1>1 DEF Push, PushFails, Ask, AskFails, CanPush
<1>4. \A p \in PE : ~Pull(p) /\ ~PullNothing(p) /\ ~Unpull(p) /\ ~Take(p)
  BY <1>1 DEF Pull, PullNothing, Unpull, Take, CanPull
<1>5. \A p \in PE : ~AdvanceBi(p) /\ ~Reset(p) /\ ~ResetBi(p) /\ ~Begin(p) /\ ~Answer(p)
  BY <1>1 DEF AdvanceBi, AnyAdvance, StartAdvance, Plain, Under, Reset, ResetBi, Begin, Answer
<1>6. ~AgreeNot /\ ~Exchange /\ ~AskExchange /\ ~ReplyExchange /\ ~FinishBegin /\ ~FinishBeginBi
  BY <1>2 DEF AgreeNot, Exchange, AskExchange, ReplyExchange, FinishBegin, FinishBeginBi
<1>7. ~CollectiveBi
  BY <1>5, <1>6 DEF CollectiveBi, Plain, Under
<1>8. Plain(Finished) \/ Under(Finished) => UNCHANGED allvars
  BY DEF Plain, Under, Finished, allvars
<1> QED
  BY <1>3, <1>4, <1>5, <1>7, <1>8 DEF NextBi, Plain, Under

\* The invariant holds until the program is ended.
LEMMA Invariant == SpecBi => [](IInv \/ Stopped)
<1>1. InitBi => IInv
  BY InitInv
<1>2. (IInv \/ Stopped) /\ [NextBi]_allvars => (IInv \/ Stopped)'
  <2>1. ASSUME IInv, [NextBi]_allvars PROVE IInv' \/ Stopped'
    BY <2>1, StepOfNext, StepInv, FailureStops
  <2>2. ASSUME Stopped, [NextBi]_allvars PROVE Stopped'
    <3>1. UNCHANGED vars
      BY <2>2, StoppedForGood DEF allvars
    <3> QED
      BY <2>2, <3>1 DEF Stopped, TypeOK, vars, buffers
  <2> QED
    BY <2>1, <2>2
<1> QED
  BY <1>1, <1>2, PTL DEF SpecBi

\* No send buffer and no circular buffer overflows: not as a sorter is flushed,
\* nor as the queries of a biconveyor are answered in place.
THEOREM TypeCorrect == SpecBi => []TypeOK
<1>1. IInv \/ Stopped => TypeOK
  BY TypeOKOf DEF Stopped
<1> QED
  BY <1>1, Invariant, PTL

-----------------------------------------------------------------------------
(* The refinement *)

\* Which PEs know that they will take no more.
Drained == [p \in PE |-> state[p] \in {"complete", "dormant"}]

\* All are in the same round.
LEMMA AllTogether == ASSUME IInv PROVE Links!Together
BY DEF IInv, Links!Together

\* A step that changes nothing the clients see.
LEMMA LinksStill ==
  ASSUME UNCHANGED <<pushed, got, over, Drained, round>>
  PROVE  UNCHANGED Links!vars
BY DEF Links!vars, Drained

\* Before anyone is drained.
LEMMA NoneDrained ==
  ASSUME \A p \in PE : state[p] \notin {"complete", "dormant"}
  PROVE  Drained = [p \in PE |-> FALSE]
<1>1. \A p \in PE : (state[p] \in {"complete", "dormant"}) = FALSE
  OBVIOUS
<1> QED
  BY <1>1, Zenon DEF Drained

\* The initial states are those of the links.
LEMMA LinksInit == InitBi => Links!Init
<1> SUFFICES ASSUME InitBi PROVE Links!Init
  OBVIOUS
<1>1. Drained = [p \in PE |-> FALSE]
  <2>1. \A p \in PE : state[p] \notin {"complete", "dormant"}
    BY DEF InitBi, Init
  <2> QED
    BY <2>1, NoneDrained
<1> QED
  BY <1>1 DEF InitBi, Init, Links!Init, Drained

\* A push sends an item.
LEMMA PushSends ==
  ASSUME IInv, NEW p \in PE, NEW d \in PE, Push(p, d), bi' = bi
  PROVE  Links!Next
<1>1. ~over[p] /\ state' = state
  BY PushFrame
<1>2. Links!Send(p, d)
  BY <1>1 DEF Push, Links!Send
<1> QED
  BY <1>2, AllTogether DEF Links!Next

\* The item that is read next on a link is the one the client takes next.
LEMMA NextItem ==
  ASSUME IInv, NEW p \in PE, NEW s \in PE, recv[p][s].next < Len(recv[p][s].items)
  PROVE  /\ recv[p][s].items[recv[p][s].next + 1] = Len(got[p][s]) + 1
         /\ Len(got[p][s]) < pushed[s][p]
<1> DEFINE h == got[p][s]
           items == recv[p][s].items
           next == recv[p][s].next
           c == circle[s]
           b == Outgoing(s, p)
           np == pushed[s][p]
<1>1. /\ h \in Seq(Nat) /\ items \in Seq(Nat) /\ next \in Nat /\ c \in Seq(Entry)
      /\ np \in Nat /\ b \in Seq(Nat) /\ p \in PE /\ next < Len(items)
  BY TypesAt DEF IInv
<1>2. Chain(h, items, next, b, c, p, np)
  BY DEF IInv, ChainOf
<1> HIDE DEF h, items, next, c, b, np
<1>3. items[next+1] = Len(h) + 1 /\ Len(h) < np
  BY <1>1, <1>2, ChainTake
<1> QED
  BY <1>3 DEF h, items, next, np

\* A pull takes the next item, and so does a PE that answers it.
LEMMA PullReceives ==
  ASSUME IInv, NEW p \in PE, Pull(p) \/ Answer(p)
  PROVE  Links!Next
<1>1. PICK s \in PE :
        /\ recv[p][s].next < Len(recv[p][s].items)
        /\ got' = [got EXCEPT ![p][s] = Append(@, recv[p][s].items[recv[p][s].next + 1])]
  BY DEF Pull, Unread, Answer, Unanswered
<1>2. UNCHANGED <<pushed, over, state, round>>
  BY DEF Pull, Answer
<1>3. /\ recv[p][s].items[recv[p][s].next + 1] = Len(got[p][s]) + 1
      /\ Len(got[p][s]) < pushed[s][p]
  BY <1>1, NextItem
<1>4. got \in [PE -> [PE -> Seq(Nat)]]
  BY DEF IInv, Types
<1>5. got' = [got EXCEPT ![p][s] = Append(@, Len(@) + 1)]
  BY <1>1, <1>3, <1>4
<1>6. Links!Receive(p, s)
  BY <1>2, <1>3, <1>5 DEF Links!Receive
<1> QED
  BY <1>6, AllTogether DEF Links!Next

\* An unpull gives the item back that was taken last.
LEMMA UnpullGivesBack ==
  ASSUME IInv, NEW p \in PE, Unpull(p)
  PROVE  Links!Next
<1> DEFINE s == pull_from[p]
<1>1. /\ s < N /\ recv[p][s].next > 0
      /\ got' = [got EXCEPT ![p][s] = SubSeq(@, 1, Len(@) - 1)]
      /\ UNCHANGED <<pushed, over, state, round>>
  BY DEF Unpull
<1>2. Types /\ s \in 0 .. N
  BY DEF IInv, Types
<1>3. s \in PE
  BY <1>1, <1>2, Ranks
<1>4. state[p] \notin {"complete", "dormant"}
  <2>1. s # N
    BY <1>1, <1>2, SimpleAssumption
  <2> QED
    BY <2>1 DEF IInv, Course
<1> HIDE DEF s
<1>5. got[p][s] # <<>>
  <2> DEFINE h == got[p][s]
             items == recv[p][s].items
             next == recv[p][s].next
  <2>1. h \in Seq(Nat) /\ items \in Seq(Nat) /\ next \in Nat /\ next > 0
    BY <1>1, <1>2, <1>3, TypesAt
  <2>2. next <= Len(h)
    BY <1>3 DEF IInv, ChainOf, Chain
  <2> HIDE DEF h, items, next
  <2>3. h # <<>>
    BY <2>1, <2>2
  <2> QED
    BY <2>3 DEF h
<1>6. Links!GiveBack(p, s)
  BY <1>1, <1>4, <1>5 DEF Links!GiveBack, s
<1> QED
  BY <1>3, <1>6, AllTogether DEF Links!Next

\* The vote of a client that is done for the first time closes.
LEMMA VoteCloses ==
  ASSUME IInv, NEW p \in PE, NEW d \in BOOLEAN, StartAdvance(p, d), ~quiet[p]
  PROVE  Links!Next \/ UNCHANGED Links!vars
<1>1. /\ over' = [over EXCEPT ![p] = d] /\ (over[p] => d) /\ over \in [PE -> BOOLEAN]
      /\ UNCHANGED <<pushed, got, state, round>>
  BY DEF StartAdvance, IInv, Types
<1>2. CASE d = over[p]
  <2>1. over' = over
    BY <1>1, <1>2
  <2> QED
    BY <1>1, <2>1, LinksStill DEF Drained
<1>3. CASE d # over[p]
  <2>1. ~over[p] /\ d = TRUE
    BY <1>1, <1>3
  <2>2. Links!Close(p)
    BY <1>1, <2>1 DEF Links!Close
  <2> QED
    BY <2>2, AllTogether DEF Links!Next
<1> QED
  BY <1>2, <1>3

\* After the last exchange a client that has pulled everything is told so.
LEMMA QuietDrains ==
  ASSUME IInv, NEW p \in PE, NEW d \in BOOLEAN, StartAdvance(p, d), quiet[p], bi' = bi
  PROVE  Links!Next \/ UNCHANGED Links!vars
<1>1. /\ Types /\ at[p] = "client" /\ state[p] \notin {"dormant", "complete"}
      /\ state' = [state EXCEPT ![p] = Outcome(p, QuietResult(p), d)]
      /\ UNCHANGED <<pushed, got, round>>
  BY DEF StartAdvance, IInv
<1>2. over' = over
  BY QuietInv
<1>3. \A q \in PE : AtEnd(q) /\ at[q] # "answer"
  <2>1. Ended(p)
    BY DEF Ended
  <2> QED
    BY <1>1, <2>1, TheEnd, NoAnswers
<1>4. CASE need_pull(p)
  <2>1. Outcome(p, QuietResult(p), d) = "cleanup"
    BY <1>4 DEF QuietResult, Outcome
  <2>2. \A q \in PE : state'[q] \in {"complete", "dormant"} <=> state[q] \in {"complete", "dormant"}
    <3> SUFFICES ASSUME NEW q \in PE
                 PROVE  state'[q] \in {"complete", "dormant"} <=> state[q] \in {"complete", "dormant"}
      OBVIOUS
    <3>1. state' = [state EXCEPT ![p] = "cleanup"] /\ state \in [PE -> State]
      BY <1>1, <2>1 DEF Types
    <3>2. CASE q = p
      BY <1>1, <3>1, <3>2
    <3>3. CASE q # p
      BY <3>1, <3>3
    <3> QED
      BY <3>2, <3>3
  <2>3. Drained' = Drained
    BY <2>2 DEF Drained
  <2> QED
    BY <1>1, <1>2, <2>3, LinksStill
<1>5. CASE ~need_pull(p)
  <2>1. Outcome(p, QuietResult(p), d) = "complete"
    BY <1>5 DEF QuietResult, Outcome
  <2>2. pull_from[p] = N
    <3>1. pull_from[p] \in 0 .. N
      BY <1>1 DEF Types
    <3> QED
      BY <1>5, <3>1, SimpleAssumption DEF need_pull
  <2>3. \A s \in PE : Read(p, s)
    <3>1. Course(p) /\ \A s \in PE : s < N
      BY Ranks DEF IInv
    <3> QED
      BY <1>1, <2>2, <3>1 DEF Course
  <2>4. ASSUME NEW s \in PE PROVE over[s] /\ Len(got[p][s]) = pushed[s][p]
    <3>1. over[s] /\ circle[s] = <<>> /\ Outgoing(s, p) = <<>>
      BY <1>3 DEF AtEnd
    <3>2. got[p][s] \in Seq(Nat) /\ recv[p][s].items \in Seq(Nat)
      BY <1>1, TypesAt
    <3>3. Chain(got[p][s], recv[p][s].items, Len(recv[p][s].items), <<>>, <<>>, p, pushed[s][p])
      BY <2>3, <3>1 DEF IInv, ChainOf, Read
    <3> QED
      BY <3>1, <3>2, <3>3, ChainOver
  <2>5. state' = [state EXCEPT ![p] = "complete"] /\ state \in [PE -> State]
    BY <1>1, <2>1 DEF Types
  <2>6. Drained' = [Drained EXCEPT ![p] = TRUE]
    <3>1. ASSUME NEW q \in PE
          PROVE  Drained'[q] = IF q = p THEN TRUE ELSE Drained[q]
      <4>1. CASE q = p
        BY <2>5, <4>1 DEF Drained
      <4>2. CASE q # p
        BY <2>5, <4>2 DEF Drained
      <4> QED
        BY <4>1, <4>2
    <3>2. /\ Drained' = [q \in PE |-> Drained'[q]]
          /\ [Drained EXCEPT ![p] = TRUE] = [q \in PE |-> IF q = p THEN TRUE ELSE Drained[q]]
      BY DEF Drained
    <3> HIDE DEF Drained
    <3> QED
      BY <3>1, <3>2
  <2>7. Links!Drain(p)
    BY <1>1, <1>2, <2>4, <2>6 DEF Links!Drain, Drained
  <2> QED
    BY <2>7, AllTogether DEF Links!Next
<1> QED
  BY <1>4, <1>5

\* At the barrier all start the new round together.
LEMMA BeginRestarts ==
  ASSUME IInv, FinishBegin
  PROVE  Links!Next
<1>1. \A p \in PE : state[p] = "dormant"
  BY DEF IInv, FinishBegin, AllAt, Course
<1>2. /\ state' = [p \in PE |-> "working"] /\ over' = [p \in PE |-> FALSE]
      /\ pushed' = [p \in PE |-> [d \in PE |-> 0]]
      /\ got' = [p \in PE |-> [s \in PE |-> <<>>]]
      /\ round' = [p \in PE |-> round[p] + 1]
  BY DEF FinishBegin
<1>3. \A p, q \in PE : Drained[q]
  BY <1>1 DEF Drained
<1>4. Drained' = [p \in PE |-> Drained[p] /\ p \notin PE]
  <2>1. ASSUME NEW p \in PE PROVE Drained'[p] = (Drained[p] /\ p \notin PE)
    <3>1. state'[p] = "working"
      BY <1>2
    <3>2. Drained'[p] = FALSE
      <4>1. ~Drained'[p]
        BY <3>1 DEF Drained
      <4>2. Drained'[p] \in BOOLEAN
        BY DEF Drained
      <4> QED
        BY <4>1, <4>2, Zenon
    <3> QED
      BY <3>2
  <2>2. Drained' = [p \in PE |-> Drained'[p]]
    BY DEF Drained
  <2> HIDE DEF Drained
  <2> QED
    BY <2>1, <2>2
<1>5. over' = [p \in PE |-> over[p] /\ p \notin PE]
  BY <1>2
<1>6. Links!Restart(PE)
  BY <1>2, <1>3, <1>4, <1>5 DEF Links!Restart, Drained
<1> QED
  BY <1>6 DEF Links!Next

\* What the PEs agree on, a failure and a reset drain nobody.
LEMMA DrainsNobody ==
  ASSUME IInv,
         \/ AgreeNot \/ Exchange \/ AskExchange \/ ReplyExchange \/ Abort
         \/ \E p \in PE : Reset(p) \/ Begin(p)
  PROVE  UNCHANGED Links!vars
<1>1. UNCHANGED <<pushed, got, over, round>>
  BY DEF AgreeNot, Exchange, AskExchange, ReplyExchange, Gather, Abort, Reset, Begin
<1>2. Drained' = Drained
  <2>1. CASE AgreeNot \/ Exchange \/ AskExchange
    <3>1. \A p \in PE : state[p] \in {"working", "endgame"}
      BY <2>1, Agreed DEF AgreeNot, Exchange, AskExchange
    <3>2. \A p \in PE : \/ state'[p] = Outcome(p, "OK", over[p])
                        \/ state'[p] = Outcome(p, "NEAR", over[p])
      BY <2>1 DEF AgreeNot, Exchange, AskExchange, AfterExchange, Return
    <3>3. \A p \in PE : state'[p] \notin {"complete", "dormant"}
      BY <3>1, <3>2 DEF Outcome
    <3> QED
      BY <3>1, <3>3 DEF Drained
  <2>2. CASE ReplyExchange \/ Abort \/ \E p \in PE : Begin(p)
    BY <2>2 DEF ReplyExchange, Gather, Abort, Begin, Drained
  <2>3. ASSUME NEW p \in PE, Reset(p) PROVE Drained' = Drained
    <3>1. state[p] = "complete" /\ state' = [state EXCEPT ![p] = "dormant"]
          /\ state \in [PE -> State]
      BY <2>3 DEF Reset, IInv, Types
    <3>2. ASSUME NEW q \in PE
          PROVE  state'[q] \in {"complete", "dormant"} <=> state[q] \in {"complete", "dormant"}
      BY <3>1
    <3> QED
      BY <3>2 DEF Drained
  <2> QED
    BY <2>1, <2>2, <2>3
<1> QED
  BY <1>1, <1>2, LinksStill

\* Every step is one of the links, or hidden from the clients.
LEMMA LinksNext ==
  ASSUME IInv, Step \/ Failure
  PROVE  [Links!Next]_(Links!vars)
<1>0. Step => bi' = bi
  BY DEF Step
<1>1. ASSUME NEW p \in PE, NEW d \in PE, Push(p, d), bi' = bi PROVE [Links!Next]_(Links!vars)
  BY <1>1, PushSends
<1>2. ASSUME NEW p \in PE, Pull(p) \/ Answer(p) \/ Unpull(p)
      PROVE  [Links!Next]_(Links!vars)
  BY <1>2, PullReceives, UnpullGivesBack
<1>3. ASSUME NEW p \in PE, NEW d \in BOOLEAN, StartAdvance(p, d), bi' = bi
      PROVE  [Links!Next]_(Links!vars)
  BY <1>3, VoteCloses, QuietDrains
<1>4. ASSUME NEW p \in PE, NEW d \in PE, PushFails(p, d) \/ PullNothing(p) \/ UNCHANGED vars
      PROVE  [Links!Next]_(Links!vars)
  <2>1. UNCHANGED <<pushed, got, over, state, round>>
    BY <1>4 DEF PushFails, PullNothing, vars
  <2> QED
    BY <2>1, LinksStill DEF Drained
<1>5. CASE \/ AgreeNot \/ Exchange \/ AskExchange \/ ReplyExchange \/ Abort
           \/ \E p \in PE : Reset(p) \/ Begin(p)
  BY <1>5, DrainsNobody
<1>6. CASE FinishBegin
  BY <1>6, BeginRestarts
<1>7. PE # {}
  BY Ranks
<1> QED
  BY <1>0, <1>1, <1>2, <1>3, <1>4, <1>5, <1>6, <1>7 DEF Step, Failure

\* Between the PEs of a simple conveyor, plain or under a biconveyor, there are
\* FIFO links: no item is lost, doubled or overtaken in a sorter or by an exchange
\* into buffers that are still being read, and convey_DONE comes when none is left.
THEOREM LinksHold == SpecBi => LinksSpec
<1>1. IInv /\ [NextBi]_allvars => [Links!Next]_(Links!vars)
  BY StepOfNext, LinksNext
<1>2. Stopped /\ [NextBi]_allvars => [Links!Next]_(Links!vars)
  BY StoppedForGood, LinksStill DEF allvars, vars, Drained
<1> QED
  BY <1>1, <1>2, LinksInit, Invariant, PTL DEF SpecBi, LinksSpec, Links!Spec

-----------------------------------------------------------------------------
(* The answers of a biconveyor *)

\* A PE that begins a session has pulled all replies of the session before, and the
\* position of its ring is one of the ring of the new session.
CleanStart == \A p \in PE :
  at[p] = "begin" => n_replies[p] = 0 /\ eldest[p] < Limit[round[p] + 1]

\* A query, and what a place of the ring may hold, see Garbage.
Query == [pe : PE, nr : Nat]
Slot == [pe : 0 .. N, nr : Nat]

\* How many queries of p each PE has answered, before the present exchange.
Replied(p) == [d \in PE |-> Len(got[d][p]) - recv[d][p].next]

\* Queries are answered after an exchange only.
Fetched(p) == at[p] # "answer" => \A s \in PE : recv[p][s].next = 0

AnswerTypes ==
  /\ asked \in [PE -> Seq(Query)] /\ taken \in [PE -> Seq(Slot)]
  /\ replay \in [PE -> Seq(PE)]
  /\ n_replies \in [PE -> Nat] /\ eldest \in [PE -> Nat]
  /\ reorder \in [PE -> [Space -> Slot]]

\* The replies t that are taken and the n replies in the ring r, from e on, are to
\* the first of the queries a; there is room for m more.
InRing(a, t, r, e, n, m, L) ==
  /\ e < L /\ n + m <= L /\ Len(a) = Len(t) + n + m
  /\ \A i \in 1 .. Len(t) : t[i] = a[i]
  /\ \A i \in 0 .. n - 1 : r[easy_mod(e + i, L)] = a[Len(t) + i + 1]

Answered(p) == InRing(asked[p], taken[p], reorder[p], eldest[p], n_replies[p],
                      Len(replay[p]), limit(p))

\* The queries a after the first k are for the targets w, and for each target they
\* come after the g[d] that are answered, up to the np[d] that are pushed.
Waiting(a, k, w, g, np) ==
  /\ \A j \in 1 .. Len(w) : a[k + j] = [pe |-> w[j], nr |-> g[w[j]] + Number(w, w[j], j)]
  /\ \A d \in PE : g[d] + Number(w, d, Len(w)) = np[d]

Asking(p) == Waiting(asked[p], Len(taken[p]) + n_replies[p], replay[p], Replied(p), pushed[p])

\* Queries are numbered as the items of the links are.
CountedBy(a, np) == \A d \in PE : Cardinality({i \in DOMAIN a : a[i].pe = d}) = np[d]

Numbered(p) == CountedBy(asked[p], pushed[p])

InSession(p) ==
  /\ round[p] \in 1 .. MaxRounds
  /\ state[p] = "dormant" => replay[p] = <<>> /\ round[p] < MaxRounds

\* The inductive invariant of the answers, beside IInv.
AInv == /\ AnswerTypes
        /\ bi => \A p \in PE : /\ Answered(p) /\ Asking(p) /\ Numbered(p)
                             /\ InSession(p) /\ Fetched(p)
        /\ ~bi => asked = [p \in PE |-> <<>>] /\ taken = [p \in PE |-> <<>>]

\* Places of the ring, one after the other, wrap once.
LEMMA Places ==
  ASSUME NEW L \in Nat \ {0}, NEW e \in Nat, e < L
  PROVE  /\ \A i \in 0 .. L - 1 : easy_mod(e + i, L) \in 0 .. L - 1
         /\ \A i, j \in 0 .. L - 1 : easy_mod(e + i, L) = easy_mod(e + j, L) => i = j
         /\ easy_mod(e + 0, L) = e
         /\ \A i \in 0 .. L - 2 : easy_mod(easy_mod(e + 1, L) + i, L) = easy_mod(e + (i + 1), L)
BY DEF easy_mod

\* What % returns below its divisor, and one turn above.
LEMMA Turn ==
  ASSUME NEW L \in Nat \ {0}, NEW x \in Nat, x < 2 * L
  PROVE  x % L = easy_mod(x, L)
<1>1. CASE x < L
  <2>1. x % L = x
    BY <1>1
  <2> QED
    BY <1>1, <2>1 DEF easy_mod
<1>2. CASE x >= L
  <2>1. x % L = x - L
    BY <1>2
  <2> QED
    BY <1>2, <2>1 DEF easy_mod
<1> QED
  BY <1>1, <1>2

\* A set of numbers up to n, and one more.
LEMMA OneMore ==
  ASSUME NEW n \in Nat, NEW S \in SUBSET (1 .. n)
  PROVE  /\ IsFiniteSet(S) /\ Cardinality(S) \in Nat
         /\ Cardinality(S \union {n+1}) = Cardinality(S) + 1
<1>1. IsFiniteSet(1 .. n)
  BY FS_Interval
<1>2. IsFiniteSet(S) /\ Cardinality(S) \in Nat
  BY <1>1, FS_Subset, FS_CardinalityType
<1>3. n+1 \notin S
  OBVIOUS
<1> QED
  BY <1>2, <1>3, FS_AddElement

\* Counting in a sequence that grows.
LEMMA NumberAppend ==
  ASSUME NEW s \in Seq(PE), NEW v \in PE, NEW w \in PE
  PROVE  /\ \A n \in 0 .. Len(s) : Number(Append(s, w), v, n) = Number(s, v, n)
         /\ Number(Append(s, w), v, Len(s) + 1) = Number(s, v, Len(s)) + (IF w = v THEN 1 ELSE 0)
<1> DEFINE t == Append(s, w)
           m == Len(s)
<1>1. /\ m \in Nat /\ t[m+1] = w /\ \A i \in 1 .. m : t[i] = s[i]
  OBVIOUS
<1> HIDE DEF t, m
<1>2. ASSUME NEW n \in 0 .. m PROVE Number(t, v, n) = Number(s, v, n)
  <2>1. {i \in 1 .. n : t[i] = v} = {i \in 1 .. n : s[i] = v}
    BY <1>1
  <2> QED
    BY <2>1 DEF Number
<1>3. Number(t, v, m+1) = Number(s, v, m) + (IF w = v THEN 1 ELSE 0)
  <2> DEFINE S == {i \in 1 .. m : s[i] = v}
  <2>1. Cardinality(S) \in Nat /\ Cardinality(S \union {m+1}) = Cardinality(S) + 1
    BY <1>1, OneMore
  <2>2. CASE w = v
    <3>1. {i \in 1 .. m+1 : t[i] = v} = S \union {m+1}
      BY <1>1, <2>2
    <3> QED
      BY <2>1, <2>2, <3>1 DEF Number
  <2>3. CASE w # v
    <3>1. {i \in 1 .. m+1 : t[i] = v} = S
      BY <1>1, <2>3
    <3>2. Number(t, v, m+1) = Cardinality(S) /\ Number(s, v, m) = Cardinality(S)
      BY <3>1, Zenon DEF Number
    <3> HIDE DEF S
    <3>3. (IF w = v THEN 1 ELSE 0) = 0
      BY <2>3
    <3> QED
      BY <2>1, <3>2, <3>3
  <2> QED
    BY <2>2, <2>3
<1> QED
  BY <1>2, <1>3 DEF t, m

\* An element is among those counted.
LEMMA NumberBound ==
  ASSUME NEW s \in Seq(PE), NEW i \in 1 .. Len(s)
  PROVE  /\ Number(s, s[i], i) \in 1 .. Number(s, s[i], Len(s))
         /\ Number(s, s[i], Len(s)) \in Nat
<1> DEFINE m == Len(s)
           v == s[i]
           A == {k \in 1 .. i : s[k] = v}
           B == {k \in 1 .. m : s[k] = v}
<1>1. m \in Nat /\ i \in Nat /\ 1 <= i /\ i <= m
  OBVIOUS
<1> HIDE DEF m
<1>2. IsFiniteSet(B) /\ Cardinality(B) \in Nat
  BY <1>1, OneMore
<1>3. A \subseteq B
  BY <1>1
<1>4. Cardinality(A) \in Nat /\ Cardinality(A) <= Cardinality(B) /\ IsFiniteSet(A)
  BY <1>2, <1>3, FS_Subset, FS_CardinalityType
<1>5. i \in A
  BY <1>1
<1>6. Cardinality(A) # 0
  BY <1>4, <1>5, FS_EmptySet
<1> QED
  BY <1>2, <1>4, <1>6 DEF Number, m

\* The last element counted.
LEMMA NumberReached ==
  ASSUME NEW s \in Seq(PE), NEW v \in PE, Number(s, v, Len(s)) # 0
  PROVE  \E i \in 1 .. Len(s) : s[i] = v /\ Number(s, v, i) = Number(s, v, Len(s))
<1> DEFINE m == Len(s)
           T == {k \in Nat : Number(s, v, k) = Number(s, v, m)}
<1>1. m \in Nat
  OBVIOUS
<1> HIDE DEF m
<1>2. m \in T
  BY <1>1
<1>3. PICK i \in T : \A k \in Nat : k < i => k \notin T
  BY <1>2, LeastNumber
<1>4. i \in Nat /\ i <= m
  BY <1>1, <1>2, <1>3
<1>5. i # 0
  <2>1. {k \in 1 .. 0 : s[k] = v} = {}
    OBVIOUS
  <2>2. Number(s, v, 0) = 0
    BY <2>1, FS_EmptySet DEF Number
  <2> QED
    BY <1>3, <2>2 DEF m
<1>6. s[i] = v
  <2> SUFFICES ASSUME s[i] # v PROVE FALSE
    OBVIOUS
  <2>1. {k \in 1 .. i : s[k] = v} = {k \in 1 .. i-1 : s[k] = v}
    BY <1>4, <1>5
  <2>2. Number(s, v, i-1) = Number(s, v, i)
    BY <2>1 DEF Number
  <2>3. i-1 \in Nat /\ i-1 < i
    BY <1>4, <1>5
  <2> QED
    BY <1>3, <2>2, <2>3
<1> QED
  BY <1>3, <1>4, <1>5, <1>6 DEF m

\* Nothing is counted in no sequence but the empty one.
LEMMA NumberZero ==
  ASSUME NEW s \in Seq(PE), \A d \in PE : Number(s, d, Len(s)) = 0
  PROVE  s = <<>>
<1> SUFFICES ASSUME s # <<>> PROVE FALSE
  OBVIOUS
<1>1. 1 \in 1 .. Len(s) /\ s[1] \in PE
  OBVIOUS
<1>2. Number(s, s[1], 1) \in 1 .. Number(s, s[1], Len(s))
  BY <1>1, NumberBound
<1> QED
  BY <1>1, <1>2

\* Nor in that.
LEMMA NumberEmpty == \A d : Number(<<>>, d, Len(<<>>)) = 0
<1>1. Len(<<>>) = 0
  OBVIOUS
<1>2. \A d : {m \in 1 .. 0 : (<<>>)[m] = d} = {}
  OBVIOUS
<1> QED
  BY <1>1, <1>2, FS_EmptySet DEF Number

-----------------------------------------------------------------------------
(* The steps, as the answers see them *)

\* The types of what belongs to a PE.
LEMMA AnswersAt ==
  ASSUME AInv, NEW p \in PE
  PROVE  /\ asked[p] \in Seq(Query) /\ taken[p] \in Seq(Slot) /\ replay[p] \in Seq(PE)
         /\ n_replies[p] \in Nat /\ eldest[p] \in Nat /\ reorder[p] \in [Space -> Slot]
         /\ Len(asked[p]) \in Nat /\ Len(taken[p]) \in Nat /\ Len(replay[p]) \in Nat
<1>1. /\ asked[p] \in Seq(Query) /\ taken[p] \in Seq(Slot) /\ replay[p] \in Seq(PE)
      /\ n_replies[p] \in Nat /\ eldest[p] \in Nat /\ reorder[p] \in [Space -> Slot]
  BY DEF AInv, AnswerTypes
<1> QED
  BY <1>1, LenProperties

\* There is a session with the longest ring.
LEMMA LongestRing ==
  \E t \in 1 .. MaxRounds : \A s \in 1 .. MaxRounds : Limit[s] <= Limit[t]
<1>1. /\ MaxRounds \in Nat /\ MaxRounds > 0 /\ Limit \in [1 .. MaxRounds -> Nat \ {0}]
  BY ClientAssumption, BiAssumption
<1> DEFINE T == {n \in Nat : n \in 1 .. MaxRounds =>
                   \E t \in 1 .. n : \A s \in 1 .. n : Limit[s] <= Limit[t]}
<1>2. 0 \in T
  BY <1>1
<1>3. ASSUME NEW n \in T PROVE n+1 \in T
  <2> SUFFICES ASSUME n+1 \in 1 .. MaxRounds
      PROVE \E t \in 1 .. n+1 : \A s \in 1 .. n+1 : Limit[s] <= Limit[t]
    OBVIOUS
  <2>1. CASE n = 0
    BY <1>1, <2>1
  <2>2. CASE n # 0
    <3>1. PICK t \in 1 .. n : \A s \in 1 .. n : Limit[s] <= Limit[t]
      BY <1>1, <2>2
    <3>2. Limit[t] \in Nat /\ Limit[n+1] \in Nat /\ \A s \in 1 .. n : Limit[s] \in Nat
      BY <1>1, <3>1
    <3>3. CASE Limit[n+1] <= Limit[t]
      BY <3>1, <3>2, <3>3
    <3>4. CASE Limit[t] <= Limit[n+1]
      BY <3>1, <3>2, <3>4
    <3> QED
      BY <3>2, <3>3, <3>4
  <2> QED
    BY <2>1, <2>2
<1> HIDE DEF T
<1>4. MaxRounds \in T
  BY <1>1, <1>2, <1>3, Induction DEF T
<1> QED
  BY <1>1, <1>4 DEF T

\* The ring has places for the replies of any session.
LEMMA RingSpace ==
  ASSUME NEW p \in PE, round[p] \in 1 .. MaxRounds
  PROVE  limit(p) \in Nat \ {0} /\ 0 .. limit(p) - 1 \subseteq Space
<1>1. /\ MaxRounds \in Nat /\ MaxRounds > 0 /\ Limit \in [1 .. MaxRounds -> Nat \ {0}]
  BY ClientAssumption, BiAssumption
<1> DEFINE L == {Limit[s] : s \in DOMAIN Limit}
<1>2. /\ limit(p) \in L /\ L \subseteq Nat \ {0}
      /\ \E m \in L : \A x \in L : x <= m
  BY <1>1, LongestRing DEF limit
<1>3. Max(L) \in L /\ \A y \in L : Max(L) >= y
  <2> HIDE DEF L
  <2> QED
    BY <1>2 DEF Max
<1> HIDE DEF L
<1>4. limit(p) \in Nat \ {0} /\ Max(L) \in Nat /\ limit(p) <= Max(L)
  BY <1>2, <1>3
<1>5. Space = 0 .. 2 * Max(L)
  BY DEF Space, L
<1> QED
  BY <1>4, <1>5

\* A PE that sends, answers and takes nothing in a step.
LEMMA PeerSame ==
  ASSUME AInv, bi, NEW q \in PE,
         asked'[q] = asked[q], taken'[q] = taken[q], replay'[q] = replay[q],
         reorder'[q] = reorder[q], eldest'[q] = eldest[q], n_replies'[q] = n_replies[q],
         pushed'[q] = pushed[q], round'[q] = round[q], Replied(q)' = Replied(q), Fetched(q)',
         state'[q] = "dormant" =>
           state[q] = "dormant" \/ (replay[q] = <<>> /\ round[q] < MaxRounds)
  PROVE  Answered(q)' /\ Asking(q)' /\ Numbered(q)' /\ InSession(q)' /\ Fetched(q)'
<1>1. Answered(q) /\ Asking(q) /\ Numbered(q) /\ InSession(q)
  BY DEF AInv
<1>2. limit(q)' = limit(q)
  BY DEF limit
<1>3. Answered(q)'
  BY <1>1, <1>2 DEF Answered
<1>4. Asking(q)'
  BY <1>1 DEF Asking
<1>5. Numbered(q)'
  BY <1>1 DEF Numbered
<1>6. InSession(q)'
  BY <1>1 DEF InSession
<1> QED
  BY <1>3, <1>4, <1>5, <1>6

\* A step that sends, answers and takes nothing.
LEMMA AnswersSame ==
  ASSUME AInv, bi, UNCHANGED bivars, pushed' = pushed, round' = round,
         \A q \in PE : Replied(q)' = Replied(q) /\ Fetched(q)',
         \A q \in PE : state'[q] = "dormant" =>
           state[q] = "dormant" \/ (replay[q] = <<>> /\ round[q] < MaxRounds)
  PROVE  AInv'
<1>1. /\ bi' = bi /\ replay' = replay /\ reorder' = reorder /\ eldest' = eldest
      /\ n_replies' = n_replies /\ asked' = asked /\ taken' = taken
  BY DEF bivars, ring
<1>2. AnswerTypes'
  BY <1>1 DEF AInv, AnswerTypes
<1>3. ASSUME NEW q \in PE
      PROVE  Answered(q)' /\ Asking(q)' /\ Numbered(q)' /\ InSession(q)' /\ Fetched(q)'
  BY <1>1, PeerSame
<1> QED
  BY <1>1, <1>2, <1>3 DEF AInv

\* A plain simple conveyor has no ring.
LEMMA AnswersPlain ==
  ASSUME AInv, ~bi, UNCHANGED bivars
  PROVE  AInv'
<1>1. /\ bi' = bi /\ replay' = replay /\ reorder' = reorder /\ eldest' = eldest
      /\ n_replies' = n_replies /\ asked' = asked /\ taken' = taken
  BY DEF bivars, ring
<1>2. AnswerTypes'
  BY <1>1 DEF AInv, AnswerTypes
<1> QED
  BY <1>1, <1>2 DEF AInv

\* The invariant holds at first.
LEMMA AnswersInit ==
  ASSUME InitBi
  PROVE  AInv
<1>1. /\ replay = [p \in PE |-> <<>>] /\ reorder = [p \in PE |-> [i \in Space |-> Garbage]]
      /\ eldest = [p \in PE |-> 0] /\ n_replies = [p \in PE |-> 0]
      /\ asked = [p \in PE |-> <<>>] /\ taken = [p \in PE |-> <<>>]
  BY DEF InitBi
<1>2. /\ round = [p \in PE |-> 1] /\ state = [p \in PE |-> "working"]
      /\ at = [p \in PE |-> "client"] /\ recv = [p \in PE |-> EmptyRecv]
      /\ got = [p \in PE |-> [s \in PE |-> <<>>]]
      /\ pushed = [p \in PE |-> [d \in PE |-> 0]]
  BY DEF InitBi, Init
<1>3. AnswerTypes
  <2>1. Garbage \in Slot
    BY SimpleAssumption DEF Garbage, Slot
  <2> QED
    BY <1>1, <2>1 DEF AnswerTypes
<1>4. ASSUME NEW p \in PE
      PROVE  Answered(p) /\ Asking(p) /\ Numbered(p) /\ InSession(p) /\ Fetched(p)
  <2>1. /\ replay[p] = <<>> /\ eldest[p] = 0 /\ n_replies[p] = 0 /\ asked[p] = <<>>
        /\ taken[p] = <<>> /\ round[p] = 1 /\ state[p] = "working" /\ at[p] = "client"
        /\ \A d \in PE : /\ pushed[p][d] = 0 /\ got[d][p] = <<>>
                         /\ recv[d][p].next = 0 /\ recv[p][d].next = 0
    BY <1>1, <1>2, EmptyBuffers
  <2>2. round[p] \in 1 .. MaxRounds
    BY <2>1, ClientAssumption, BiAssumption
  <2>3. limit(p) \in Nat \ {0}
    BY <2>2, RingSpace
  <2>4. Len(<<>>) = 0
    OBVIOUS
  <2>5. Answered(p)
    BY <2>1, <2>3, <2>4 DEF Answered, InRing
  <2>6. Asking(p)
    <3>1. \A d \in PE : Replied(p)[d] = 0
      BY <2>1, <2>4 DEF Replied
    <3> QED
      BY <2>1, <2>4, <3>1, NumberEmpty DEF Asking, Waiting
  <2>7. Numbered(p)
    <3>1. \A d \in PE : {i \in DOMAIN asked[p] : asked[p][i].pe = d} = {}
      BY <2>1
    <3> QED
      BY <2>1, <3>1, FS_EmptySet DEF Numbered, CountedBy
  <2>8. InSession(p) /\ Fetched(p)
    BY <2>1, <2>2 DEF InSession, Fetched
  <2> QED
    BY <2>5, <2>6, <2>7, <2>8
<1> QED
  BY <1>1, <1>3, <1>4 DEF AInv

\* A client takes the reply to its next query.
LEMMA TakeAnswers ==
  ASSUME IInv, AInv, bi, NEW p \in PE, Take(p)
  PROVE  AInv' /\ Answers!Take(p)
<1>1. /\ Answered(p) /\ Asking(p) /\ Numbered(p) /\ InSession(p)
      /\ \A q \in PE : Fetched(q)
  BY DEF AInv
<1> DEFINE L == limit(p)
           e == eldest[p]
           n == n_replies[p]
           a == asked[p]
           t == taken[p]
           r == reorder[p]
           m == Len(replay[p])
           x == r[e]
<1>2. /\ n > 0 /\ state[p] # "dormant"
      /\ taken' = [taken EXCEPT ![p] = Append(t, x)]
      /\ eldest' = [eldest EXCEPT ![p] = easy_mod(e + 1, L)]
      /\ n_replies' = [n_replies EXCEPT ![p] = n - 1]
      /\ bi' = bi /\ replay' = replay /\ reorder' = reorder /\ asked' = asked
      /\ at' = at /\ got' = got /\ recv' = recv /\ pushed' = pushed /\ over' = over
      /\ round' = round /\ state' = state
  BY DEF Take, CanPull, vars, buffers, AInv, AnswerTypes
<1>3. /\ a \in Seq(Query) /\ t \in Seq(Slot) /\ n \in Nat /\ e \in Nat /\ r \in [Space -> Slot]
      /\ Len(a) \in Nat /\ Len(t) \in Nat /\ m \in Nat
  BY AnswersAt
<1>4. L \in Nat \ {0} /\ 0 .. L - 1 \subseteq Space
  BY <1>1, RingSpace DEF InSession
<1>5. /\ e < L /\ n + m <= L /\ Len(a) = Len(t) + n + m
      /\ \A i \in 1 .. Len(t) : t[i] = a[i]
      /\ \A i \in 0 .. n - 1 : r[easy_mod(e + i, L)] = a[Len(t) + i + 1]
  BY <1>1 DEF Answered, InRing
<1>6. limit(p)' = L
  BY <1>2 DEF limit
<1> HIDE DEF L, e, n, a, t, r, m
<1>7. x = a[Len(t) + 1] /\ e \in 0 .. L - 1 /\ x \in Slot
  <2>1. easy_mod(e + 0, L) = e
    BY <1>3, <1>4, <1>5, Places
  <2>2. r[easy_mod(e + 0, L)] = a[Len(t) + 0 + 1]
    BY <1>2, <1>3, <1>5
  <2> QED
    BY <1>3, <1>4, <1>5, <2>1, <2>2
<1> HIDE DEF x
<1> DEFINE u == Append(t, x)
<1>8. /\ u \in Seq(Slot) /\ Len(u) = Len(t) + 1 /\ u[Len(t) + 1] = x
      /\ \A i \in 1 .. Len(t) : u[i] = t[i]
  BY <1>3, <1>7
<1> HIDE DEF u
<1>9. /\ taken' \in [PE -> Seq(Slot)] /\ taken'[p] = u /\ \A q \in PE : q # p => taken'[q] = taken[q]
  BY <1>2, <1>8 DEF AInv, AnswerTypes, u
<1> DEFINE f == easy_mod(e + 1, L)
<1>10. f \in Nat /\ f < L
  BY <1>3, <1>4, <1>5 DEF easy_mod
<1>11. /\ eldest' \in [PE -> Nat] /\ eldest'[p] = f /\ \A q \in PE : q # p => eldest'[q] = eldest[q]
  BY <1>2, <1>10 DEF AInv, AnswerTypes
<1>12. /\ n_replies' \in [PE -> Nat] /\ n_replies'[p] = n - 1
       /\ \A q \in PE : q # p => n_replies'[q] = n_replies[q]
  BY <1>2, <1>3 DEF AInv, AnswerTypes
<1>13. \A i \in 0 .. n - 2 : r[easy_mod(f + i, L)] = a[Len(u) + i + 1]
  <2> SUFFICES ASSUME NEW i \in 0 .. n - 2 PROVE r[easy_mod(f + i, L)] = a[Len(u) + i + 1]
    OBVIOUS
  <2>1. i \in 0 .. L - 2 /\ i + 1 \in 0 .. n - 1
    BY <1>3, <1>4, <1>5
  <2>2. easy_mod(f + i, L) = easy_mod(e + (i + 1), L)
    <3>1. \A k \in 0 .. L - 2 : easy_mod(easy_mod(e + 1, L) + k, L) = easy_mod(e + (k + 1), L)
      BY <1>3, <1>4, <1>5, Places
    <3> QED
      BY <2>1, <3>1
  <2>3. r[easy_mod(e + (i + 1), L)] = a[Len(t) + (i + 1) + 1]
    BY <1>5, <2>1
  <2>4. Len(t) + (i + 1) + 1 = Len(u) + i + 1
    BY <1>3, <1>8, <2>1
  <2> QED
    BY <2>2, <2>3, <2>4
<1> HIDE DEF f
<1>14. Answered(p)'
  <2>1. n - 1 + m <= L /\ Len(a) = Len(u) + (n - 1) + m
    <3>1. n > 0 /\ n \in Nat /\ m \in Nat /\ L \in Nat /\ Len(t) \in Nat
      BY <1>2, <1>3, <1>4
    <3>2. n + m <= L /\ Len(a) = Len(t) + n + m /\ Len(u) = Len(t) + 1
      BY <1>5, <1>8
    <3> QED
      BY <3>1, <3>2
  <2>2. (n - 1) - 1 = n - 2
    BY <1>3
  <2>3. ASSUME NEW i \in 1 .. Len(u) PROVE u[i] = a[i]
    <3>1. i \in 1 .. Len(t) \/ i = Len(t) + 1
      BY <1>3, <1>8
    <3> QED
      BY <1>5, <1>7, <1>8, <3>1
  <2>4. InRing(a, u, r, f, n - 1, m, L)
    BY <1>10, <1>13, <2>1, <2>2, <2>3 DEF InRing
  <2>5. /\ eldest'[p] = f /\ n_replies'[p] = n - 1 /\ taken'[p] = u /\ asked'[p] = a
        /\ reorder'[p] = r /\ Len(replay'[p]) = m /\ limit(p)' = L
    BY <1>2, <1>6, <1>9, <1>11, <1>12 DEF a, r, m
  <2> QED
    BY <2>4, <2>5 DEF Answered
<1>15. \A q \in PE : Replied(q)' = Replied(q) /\ Fetched(q)'
  BY <1>1, <1>2 DEF Replied, Fetched
<1>16. Asking(p)'
  <2>1. Len(taken'[p]) + n_replies'[p] = Len(taken[p]) + n_replies[p]
    <3>1. (Len(t) + 1) + (n - 1) = Len(t) + n
      BY <1>2, <1>3
    <3> QED
      BY <1>8, <1>9, <1>12, <3>1 DEF t, n
  <2> QED
    BY <1>1, <1>2, <1>15, <2>1 DEF Asking
<1>17. Numbered(p)' /\ InSession(p)'
  BY <1>1, <1>2 DEF Numbered, InSession
<1>18. ASSUME NEW q \in PE, q # p
       PROVE  Answered(q)' /\ Asking(q)' /\ Numbered(q)' /\ InSession(q)' /\ Fetched(q)'
  BY <1>2, <1>9, <1>11, <1>12, <1>15, <1>18, PeerSame
<1>19. \A q \in PE : Answered(q)' /\ Asking(q)' /\ Numbered(q)' /\ InSession(q)' /\ Fetched(q)'
  BY <1>14, <1>15, <1>16, <1>17, <1>18
<1>20. AnswerTypes'
  BY <1>2, <1>9, <1>11, <1>12 DEF AInv, AnswerTypes
<1>21. AInv'
  BY <1>2, <1>19, <1>20 DEF AInv
<1>22. Answers!Take(p)
  <2>1. Len(taken[p]) < Len(asked[p])
    BY <1>2, <1>3, <1>5 DEF t, a
  <2>2. taken' = [taken EXCEPT ![p] = Append(@, asked[p][Len(@) + 1])]
    BY <1>2, <1>7 DEF t, a, AInv, AnswerTypes
  <2> QED
    BY <1>2, <2>1, <2>2 DEF Answers!Take
<1> QED
  BY <1>21, <1>22

\* What has been answered is counted.
LEMMA RepliedType ==
  ASSUME IInv, NEW p \in PE
  PROVE  Replied(p) \in [PE -> Nat]
<1>1. ASSUME NEW d \in PE PROVE Len(got[d][p]) - recv[d][p].next \in Nat
  <2>1. recv[d][p].next <= Len(got[d][p])
    BY DEF IInv, ChainOf, Chain
  <2>2. got[d][p] \in Seq(Nat) /\ recv[d][p].next \in Nat
    BY TypesAt DEF IInv
  <2>3. Len(got[d][p]) \in Nat
    BY <2>2
  <2> QED
    BY <2>1, <2>2, <2>3
<1> QED
  BY <1>1 DEF Replied

\* One more query at the end.
LEMMA OneQuery ==
  ASSUME NEW a \in Seq(Query), NEW d \in PE, NEW x \in Nat
  PROVE  LET z == Append(a, [pe |-> d, nr |-> x])
         IN /\ z \in Seq(Query) /\ Len(z) = Len(a) + 1 /\ Len(a) \in Nat
            /\ z[Len(a) + 1] = [pe |-> d, nr |-> x]
            /\ \A i \in 1 .. Len(a) : z[i] = a[i]
<1>1. [pe |-> d, nr |-> x] \in Query
  BY DEF Query
<1> QED
  BY <1>1

\* It is the last one that waits.
LEMMA QueryWaits ==
  ASSUME NEW a \in Seq(Query), NEW w \in Seq(PE), NEW g \in [PE -> Nat], NEW k \in Nat,
         NEW np \in [PE -> Nat],
         Len(a) = k + Len(w), Waiting(a, k, w, g, np), NEW d \in PE
  PROVE  Waiting(Append(a, [pe |-> d, nr |-> np[d] + 1]), k, Append(w, d), g,
                 [np EXCEPT ![d] = @ + 1])
<1> DEFINE x == np[d] + 1
           new == [pe |-> d, nr |-> x]
           z == Append(a, new)
           u == Append(w, d)
           nq == [np EXCEPT ![d] = np[d] + 1]
           m == Len(w)
<1>1. x \in Nat
  OBVIOUS
<1>2. /\ z[Len(a) + 1] = new /\ \A i \in 1 .. Len(a) : z[i] = a[i]
  BY <1>1, OneQuery
<1>3. /\ m \in Nat /\ Len(u) = m + 1 /\ u[m+1] = d /\ u \in Seq(PE)
      /\ \A i \in 1 .. m : u[i] = w[i] /\ w[i] \in PE
  OBVIOUS
<1>4. /\ \A v \in PE : \A i \in 0 .. m : Number(u, v, i) = Number(w, v, i)
      /\ \A v \in PE : Number(u, v, m+1) = Number(w, v, m) + (IF d = v THEN 1 ELSE 0)
  BY NumberAppend
<1>5. nq[d] = x /\ \A v \in PE : v # d => nq[v] = np[v]
  OBVIOUS
<1>6. /\ \A j \in 1 .. m : a[k + j] = [pe |-> w[j], nr |-> g[w[j]] + Number(w, w[j], j)]
      /\ \A v \in PE : g[v] + Number(w, v, m) = np[v]
  BY DEF Waiting
<1>7. ASSUME NEW v \in PE PROVE Number(w, v, m) \in Nat
  <2>1. {i \in 1 .. m : w[i] = v} \in SUBSET (1 .. m)
    OBVIOUS
  <2> QED
    BY <1>3, <2>1, OneMore DEF Number
<1> HIDE DEF z, u, nq
<1>8. ASSUME NEW j \in 1 .. m
      PROVE  z[k + j] = [pe |-> u[j], nr |-> g[u[j]] + Number(u, u[j], j)]
  <2>1. j \in 0 .. m /\ k + j \in 1 .. Len(a) /\ w[j] \in PE /\ u[j] = w[j]
    <3>1. m \in Nat /\ Len(a) = k + m
      BY <1>3
    <3>2. w[j] \in PE /\ u[j] = w[j]
      BY <1>3
    <3> HIDE DEF m
    <3>3. j \in 0 .. m /\ k + j \in 1 .. Len(a)
      BY <3>1
    <3> QED
      BY <3>2, <3>3
  <2>2. Number(u, w[j], j) = Number(w, w[j], j)
    BY <1>4, <2>1
  <2> QED
    BY <1>2, <1>6, <2>1, <2>2
<1>9. z[k + (m+1)] = [pe |-> u[m+1], nr |-> g[u[m+1]] + Number(u, u[m+1], m+1)]
  <2>1. g[d] + Number(u, d, m+1) = x
    BY <1>4, <1>6, <1>7
  <2>2. k + (m+1) = Len(a) + 1
    BY <1>3
  <2> QED
    BY <1>2, <1>3, <2>1, <2>2
<1>10. ASSUME NEW j \in 1 .. m+1
       PROVE  z[k + j] = [pe |-> u[j], nr |-> g[u[j]] + Number(u, u[j], j)]
  <2>1. j \in 1 .. m \/ j = m+1
    BY <1>3
  <2> QED
    BY <1>8, <1>9, <2>1
<1>11. ASSUME NEW v \in PE PROVE g[v] + Number(u, v, m+1) = nq[v]
  <2>1. CASE v = d
    BY <1>4, <1>5, <1>6, <1>7, <2>1
  <2>2. CASE v # d
    BY <1>4, <1>5, <1>6, <1>7, <2>2
  <2> QED
    BY <2>1, <2>2
<1>12. Waiting(z, k, u, g, nq)
  BY <1>3, <1>10, <1>11 DEF Waiting
<1> QED
  BY <1>12 DEF z, u, nq, new

\* Its number is the next one for its target.
LEMMA QueryCounted ==
  ASSUME NEW a \in Seq(Query), NEW np \in [PE -> Nat], CountedBy(a, np), NEW d \in PE
  PROVE  CountedBy(Append(a, [pe |-> d, nr |-> np[d] + 1]), [np EXCEPT ![d] = @ + 1])
<1> DEFINE new == [pe |-> d, nr |-> np[d] + 1]
           z == Append(a, new)
           nq == [np EXCEPT ![d] = np[d] + 1]
           l == Len(a)
<1>1. /\ l \in Nat /\ Len(z) = l + 1 /\ z[l+1] = new /\ \A i \in 1 .. l : z[i] = a[i]
      /\ z \in Seq(Query)
  BY OneQuery
<1>2. DOMAIN a = 1 .. l /\ DOMAIN z = 1 .. l+1
  BY <1>1, LenProperties
<1>3. nq[d] = np[d] + 1 /\ \A v \in PE : v # d => nq[v] = np[v]
  OBVIOUS
<1>4. new.pe = d
  OBVIOUS
<1> HIDE DEF z, l, new, nq
<1>5. ASSUME NEW v \in PE PROVE Cardinality({i \in DOMAIN z : z[i].pe = v}) = nq[v]
  <2> DEFINE S == {i \in 1 .. l : a[i].pe = v}
  <2>1. Cardinality(S) = np[v]
    BY <1>2 DEF CountedBy
  <2>2. Cardinality(S \union {l+1}) = Cardinality(S) + 1
    BY <1>1, OneMore
  <2>3. CASE v = d
    <3>1. {i \in DOMAIN z : z[i].pe = v} = S \union {l+1}
      BY <1>1, <1>2, <1>4, <2>3
    <3> QED
      BY <1>3, <2>1, <2>2, <2>3, <3>1
  <2>4. CASE v # d
    <3>1. {i \in DOMAIN z : z[i].pe = v} = S
      BY <1>1, <1>2, <1>4, <2>4
    <3> QED
      BY <1>3, <2>1, <2>4, <3>1
  <2> QED
    BY <2>3, <2>4
<1>6. CountedBy(z, nq)
  BY <1>5 DEF CountedBy
<1> QED
  BY <1>6 DEF z, nq, new

\* A client asks.
LEMMA AskAnswers ==
  ASSUME IInv, AInv, bi, NEW p \in PE, NEW d \in PE, Ask(p, d)
  PROVE  AInv' /\ Answers!Ask(p)
<1>1. /\ Answered(p) /\ Asking(p) /\ Numbered(p) /\ InSession(p)
      /\ \A q \in PE : Fetched(q)
      /\ Types
  BY DEF AInv, IInv
<1> DEFINE L == limit(p)
           e == eldest[p]
           n == n_replies[p]
           a == asked[p]
           t == taken[p]
           r == reorder[p]
           w == replay[p]
           np == pushed[p]
           x == np[d] + 1
           z == Append(a, [pe |-> d, nr |-> x])
           u == Append(w, d)
           g == Replied(p)
<1>2. /\ CanPush(p) /\ n + Len(w) # L /\ bi' = bi
      /\ replay' = [replay EXCEPT ![p] = u]
      /\ asked' = [asked EXCEPT ![p] = z]
      /\ pushed' = [pushed EXCEPT ![p][d] = @ + 1]
      /\ reorder' = reorder /\ eldest' = eldest /\ n_replies' = n_replies /\ taken' = taken
      /\ at' = at /\ round' = round /\ state' = state /\ over' = over /\ recv' = recv
      /\ got' = got
  BY <1>1 DEF Ask, NoSpace, Push, AInv, AnswerTypes
<1>3. ~over[p]
  BY <1>2 DEF CanPush, IInv, Course
<1>4. /\ a \in Seq(Query) /\ t \in Seq(Slot) /\ n \in Nat /\ e \in Nat /\ w \in Seq(PE)
      /\ Len(a) \in Nat /\ Len(t) \in Nat /\ Len(w) \in Nat
  BY AnswersAt
<1>5. /\ L \in Nat \ {0} /\ np \in [PE -> Nat] /\ np[d] \in Nat /\ x \in Nat
      /\ g \in [PE -> Nat]
  <2>1. L \in Nat \ {0}
    BY <1>1, RingSpace DEF InSession
  <2>2. np \in [PE -> Nat] /\ g \in [PE -> Nat] /\ np[d] \in Nat
    BY <1>1, TypesAt, RepliedType
  <2> HIDE DEF L, np, g
  <2>3. x \in Nat
    BY <2>2
  <2> QED
    BY <2>1, <2>2, <2>3
<1>6. /\ e < L /\ n + Len(w) <= L /\ Len(a) = Len(t) + n + Len(w)
      /\ \A i \in 1 .. Len(t) : t[i] = a[i]
      /\ \A i \in 0 .. n - 1 : r[easy_mod(e + i, L)] = a[Len(t) + i + 1]
  BY <1>1 DEF Answered, InRing
<1>7. \A q \in PE : Replied(q)' = Replied(q) /\ Fetched(q)'
  BY <1>1, <1>2 DEF Replied, Fetched
<1>8. /\ asked'[p] = z /\ \A q \in PE : q # p => asked'[q] = asked[q]
  BY <1>2 DEF AInv, AnswerTypes
<1>9. /\ replay'[p] = u /\ \A q \in PE : q # p => replay'[q] = replay[q]
  BY <1>2 DEF AInv, AnswerTypes
<1>11. /\ pushed'[p] = [np EXCEPT ![d] = @ + 1] /\ \A q \in PE : q # p => pushed'[q] = pushed[q]
  BY <1>1, <1>2 DEF Types
<1>12. /\ z \in Seq(Query) /\ Len(z) = Len(a) + 1 /\ \A i \in 1 .. Len(a) : z[i] = a[i]
  BY <1>4, <1>5, OneQuery
<1>13. u \in Seq(PE) /\ Len(u) = Len(w) + 1
  BY <1>4
<1>14. Waiting(a, Len(t) + n, w, g, np)
  BY <1>1 DEF Asking
<1>15. CountedBy(a, np)
  BY <1>1 DEF Numbered
<1>16. limit(p)' = L
  BY <1>2 DEF limit
<1> HIDE DEF L, e, n, a, t, r, w, np, x, z, u, g
<1>17. Answered(p)'
  <2>1. n + Len(u) <= L /\ Len(z) = Len(t) + n + Len(u)
    <3>1. n + Len(w) # L
      BY <1>2
    <3>2. /\ n \in Nat /\ Len(w) \in Nat /\ L \in Nat /\ Len(t) \in Nat /\ Len(u) = Len(w) + 1
          /\ Len(z) = Len(a) + 1 /\ Len(a) = Len(t) + n + Len(w) /\ n + Len(w) <= L
      BY <1>4, <1>5, <1>6, <1>12, <1>13
    <3> QED
      BY <3>1, <3>2
  <2>2. ASSUME NEW i \in 1 .. Len(t) PROVE t[i] = z[i]
    <3>1. Len(t) \in Nat /\ Len(a) \in Nat /\ Len(t) <= Len(a)
      <4>1. /\ n \in Nat /\ Len(w) \in Nat /\ Len(t) \in Nat /\ Len(a) \in Nat
            /\ Len(a) = Len(t) + n + Len(w)
        BY <1>4, <1>6
      <4> QED
        BY <4>1
    <3>2. i \in 1 .. Len(a)
      BY <3>1
    <3> QED
      BY <1>6, <1>12, <3>2
  <2>3. ASSUME NEW i \in 0 .. n - 1 PROVE r[easy_mod(e + i, L)] = z[Len(t) + i + 1]
    <3>1. Len(t) + i + 1 \in 1 .. Len(a)
      <4>1. /\ n \in Nat /\ Len(w) \in Nat /\ Len(t) \in Nat /\ Len(a) \in Nat
            /\ Len(a) = Len(t) + n + Len(w)
        BY <1>4, <1>6
      <4> QED
        BY <4>1
    <3> QED
      BY <1>6, <1>12, <3>1
  <2>4. InRing(z, t, r, e, n, Len(u), L)
    BY <1>6, <2>1, <2>2, <2>3 DEF InRing
  <2>5. /\ taken'[p] = t /\ reorder'[p] = r /\ eldest'[p] = e /\ n_replies'[p] = n
    BY <1>2 DEF t, r, e, n
  <2> QED
    BY <1>8, <1>9, <1>16, <2>4, <2>5 DEF Answered
<1>18. Asking(p)'
  <2>1. Len(t) + n \in Nat /\ Len(a) = Len(t) + n + Len(w)
    BY <1>4, <1>6
  <2>2. Waiting(z, Len(t) + n, u, g, [np EXCEPT ![d] = @ + 1])
    BY <1>4, <1>5, <1>14, <2>1, QueryWaits DEF z, u, x
  <2>3. taken'[p] = t /\ n_replies'[p] = n /\ Replied(p)' = g
    BY <1>2, <1>7 DEF t, n, g
  <2> QED
    BY <1>8, <1>9, <1>11, <2>2, <2>3 DEF Asking
<1>19. Numbered(p)'
  <2>1. CountedBy(z, [np EXCEPT ![d] = @ + 1])
    BY <1>4, <1>5, <1>15, QueryCounted DEF z, x
  <2> QED
    BY <1>8, <1>11, <2>1 DEF Numbered
<1>20. InSession(p)'
  BY <1>1, <1>2 DEF InSession, CanPush
<1>21. ASSUME NEW q \in PE, q # p
       PROVE  Answered(q)' /\ Asking(q)' /\ Numbered(q)' /\ InSession(q)' /\ Fetched(q)'
  BY <1>2, <1>7, <1>8, <1>9, <1>11, <1>21, PeerSame
<1>22. AnswerTypes'
  <2>1. asked' \in [PE -> Seq(Query)] /\ replay' \in [PE -> Seq(PE)]
    BY <1>2, <1>12, <1>13 DEF AInv, AnswerTypes
  <2> QED
    BY <1>2, <2>1 DEF AInv, AnswerTypes
<1>23. \A q \in PE : Answered(q)' /\ Asking(q)' /\ Numbered(q)' /\ InSession(q)' /\ Fetched(q)'
  BY <1>7, <1>17, <1>18, <1>19, <1>20, <1>21
<1>24. AInv'
  BY <1>2, <1>22, <1>23 DEF AInv
<1>25. Answers!Ask(p)
  <2>1. Cardinality({i \in DOMAIN a : a[i].pe = d}) = np[d]
    BY <1>15 DEF CountedBy
  <2>2. x = 1 + Cardinality({i \in DOMAIN a : a[i].pe = d})
    BY <1>5, <2>1 DEF x
  <2>3. asked' = [asked EXCEPT ![p] = Append(@,
          [pe |-> d, nr |-> 1 + Cardinality({i \in DOMAIN asked[p] : asked[p][i].pe = d})])]
    <3>1. asked' = [asked EXCEPT ![p] = z]
      BY <1>2
    <3>2. z = Append(asked[p],
            [pe |-> d, nr |-> 1 + Cardinality({i \in DOMAIN asked[p] : asked[p][i].pe = d})])
      BY <2>2 DEF z, a
    <3> QED
      BY <3>1, <3>2, Zenon
  <2>4. ~over[p] /\ UNCHANGED <<taken, over, round>>
    BY <1>2, <1>3
  <2> QED
    BY <2>3, <2>4, Zenon DEF Answers!Ask, Answers!Cardinality, Cardinality
<1> QED
  BY <1>24, <1>25

\* The reply to a query, and its place in the ring.
LEMMA ReplyPlaced ==
  ASSUME IInv, AInv, bi, AllAt("answer"), AllReplied, NEW p \in PE, NEW i \in 1 .. Len(replay[p])
  PROVE  /\ Reply(p, i) = asked[p][Len(taken[p]) + n_replies[p] + i]
         /\ Place(p, i) = easy_mod(eldest[p] + (n_replies[p] + i - 1), limit(p))
<1> DEFINE w == replay[p]
           d == w[i]
           k == Number(w, d, i)
           L == limit(p)
           n == n_replies[p]
           e == eldest[p]
<1>1. Answered(p) /\ Asking(p) /\ InSession(p)
  BY DEF AInv
<1>2. w \in Seq(PE) /\ n \in Nat /\ e \in Nat /\ Len(w) \in Nat /\ d \in PE
  <2>1. w \in Seq(PE) /\ n \in Nat /\ e \in Nat /\ Len(w) \in Nat
    BY AnswersAt
  <2> HIDE DEF w, n, e
  <2>2. w[i] \in PE
    BY <2>1, ElementOfSeq DEF w
  <2> QED
    BY <2>1, <2>2
<1>3. L \in Nat \ {0} /\ e < L /\ n + Len(w) <= L
  BY <1>1, RingSpace DEF InSession, Answered, InRing
<1>4. Reply(p, i) = asked[p][Len(taken[p]) + n + i]
  <2>1. asked[p][Len(taken[p]) + n + i] = [pe |-> d, nr |-> Replied(p)[d] + k]
    BY <1>1, <1>2 DEF Asking, Waiting
  <2>2. at[d] = "answer" /\ Replied(p)[d] = Len(got[d][p]) - recv[d][p].next
    BY <1>2 DEF AllAt, Replied
  <2>3. k \in 1 .. Len(send[d][p])
    <3>1. k \in 1 .. Number(w, d, Len(w)) /\ Number(w, d, Len(w)) \in Nat
      BY <1>2, NumberBound
    <3>2. HasReply(p, i)
      BY <1>2, LenProperties DEF AllReplied
    <3>3. k <= Len(send[d][p])
      BY <3>2 DEF HasReply
    <3>4. Len(send[d][p]) \in Nat
      <4>1. send[d][p] \in Seq(Nat)
        BY <1>2, TypesAt DEF IInv
      <4> QED
        BY <4>1
    <3> HIDE DEF k, d, w
    <3> QED
      BY <3>1, <3>3, <3>4
  <2>4. send[d][p][k] = recv[d][p].items[k] /\ k \in 1 .. Len(recv[d][p].items)
    <3>1. /\ Len(send[d][p]) = recv[d][p].next
          /\ send[d][p][k] = recv[d][p].items[k]
      BY <1>2, <2>2, <2>3 DEF IInv, Answering
    <3>2. /\ recv[d][p].next <= Len(recv[d][p].items)
          /\ recv[d][p].next \in Nat /\ Len(recv[d][p].items) \in Nat
      BY <1>2, ReadBounds
    <3> HIDE DEF k, d, w
    <3> QED
      BY <2>3, <3>1, <3>2
  <2>5. recv[d][p].items[k] = Replied(p)[d] + k
    <3>1. Follows(recv[d][p].items, Len(got[d][p]) - recv[d][p].next)
      BY <1>2 DEF IInv, ChainOf, Chain
    <3> HIDE DEF k, d, w
    <3> QED
      BY <2>2, <2>4, <3>1 DEF Follows
  <2>6. Reply(p, i) = [pe |-> d, nr |-> send[d][p][k]]
    BY DEF Reply
  <2> HIDE DEF k, d, w
  <2> QED
    BY <2>1, <2>4, <2>5, <2>6
<1>5. Place(p, i) = easy_mod(e + (n + i - 1), L)
  <2> DEFINE s == easy_mod(e + n, L)
  <2>1. i \in Nat /\ 1 <= i /\ i <= Len(w)
    BY <1>2
  <2>2. Place(p, i) = IF s < L THEN (s + i - 1) % L ELSE s + i - 1
    BY DEF Place
  <2> HIDE DEF w, n, e, L
  <2>3. n <= L - i /\ s \in Nat /\ s < L
    BY <1>2, <1>3, <2>1 DEF easy_mod
  <2>4. s + i - 1 \in Nat /\ s + i - 1 < 2 * L
    BY <1>2, <1>3, <2>1, <2>3
  <2>5. (s + i - 1) % L = easy_mod(s + i - 1, L)
    BY <1>3, <2>4, Turn
  <2>6. easy_mod(s + i - 1, L) = easy_mod(e + (n + i - 1), L)
    BY <1>2, <1>3, <2>1, <2>3 DEF easy_mod
  <2> QED
    BY <2>2, <2>3, <2>5, <2>6
<1> QED
  BY <1>4, <1>5

\* If there is a reply to each query, all that was pushed is answered.
LEMMA AllArrived ==
  ASSUME IInv, AInv, bi, AllAt("answer"), AllReplied, NEW p \in PE, NEW d \in PE
  PROVE  Len(got[d][p]) = pushed[p][d]
<1> DEFINE w == replay[p]
           n == Number(w, d, Len(w))
           l == Len(got[d][p])
           next == recv[d][p].next
           items == recv[d][p].items
<1>1. w \in Seq(PE) /\ Len(w) \in Nat /\ DOMAIN w = 1 .. Len(w)
  BY AnswersAt, LenProperties
<1>2. got[d][p] \in Seq(Nat) /\ next \in Nat /\ items \in Seq(Nat) /\ pushed[p][d] \in Nat
  BY TypesAt DEF IInv
<1>3. l \in Nat /\ Len(items) \in Nat
  BY <1>2
<1>4. (l - next) + n = pushed[p][d]
  BY DEF AInv, Asking, Waiting, Replied
<1>5. at[d] = "answer" /\ Len(send[d][p]) = next
  BY DEF AllAt, IInv, Answering
<1>6. /\ next <= Len(items) /\ next <= l
      /\ pushed[p][d] = (l - next + Len(items)) + Len(<<>>) + Count(circle[p], d, Len(circle[p]))
  <2>1. at[p] = "answer"
    BY DEF AllAt
  <2> QED
    BY <2>1 DEF IInv, ChainOf, Chain, Outgoing
<1>7. Count(circle[p], d, Len(circle[p])) \in Nat /\ Len(<<>>) = 0
  <2>1. Len(circle[p]) \in Nat
    BY TypesAt DEF IInv
  <2> QED
    BY <2>1, CountType
<1>8. n \in Nat /\ n <= next
  <2>1. CASE n = 0
    BY <1>2, <2>1
  <2>2. CASE n # 0
    <3>1. PICK i \in 1 .. Len(w) : w[i] = d /\ Number(w, d, i) = n
      BY <1>1, <2>2, NumberReached
    <3>2. Number(w, w[i], i) <= Len(send[w[i]][p])
      BY <1>1, <3>1 DEF AllReplied, HasReply
    <3>3. n \in Nat
      BY <1>1, <3>1, NumberBound
    <3> QED
      BY <1>5, <3>1, <3>2, <3>3
  <2> QED
    BY <2>1, <2>2
<1> HIDE DEF w, n, l, next, items
<1>9. l = pushed[p][d]
  <2>1. pushed[p][d] >= l
    BY <1>2, <1>3, <1>6, <1>7
  <2>2. pushed[p][d] <= l
    BY <1>2, <1>3, <1>4, <1>8
  <2> QED
    BY <1>2, <1>3, <2>1, <2>2
<1> QED
  BY <1>9 DEF l

\* The replies come into the ring behind those that wait there.
LEMMA ReplyAnswers ==
  ASSUME IInv, AInv, bi, AllAt("answer"), AllReplied, Gather
  PROVE  AInv'
<1>1. /\ bi' = bi /\ asked' = asked /\ taken' = taken /\ eldest' = eldest
      /\ pushed' = pushed /\ round' = round /\ state' = state
      /\ n_replies' = [p \in PE |-> n_replies[p] + Len(replay[p])]
      /\ replay' = [p \in PE |-> <<>>]
      /\ recv' = [p \in PE |-> EmptyRecv] /\ at' = [p \in PE |-> "client"] /\ got' = got
      /\ reorder' = [p \in PE |-> [x \in Space |->
           IF \E i \in DOMAIN replay[p] : Place(p, i) = x
           THEN Reply(p, CHOOSE i \in DOMAIN replay[p] : Place(p, i) = x)
           ELSE reorder[p][x]]]
  BY DEF Gather
<1>2. ASSUME NEW p \in PE
      PROVE  /\ Answered(p)' /\ Asking(p)' /\ Numbered(p)' /\ InSession(p)' /\ Fetched(p)'
             /\ reorder'[p] \in [Space -> Slot] /\ n_replies'[p] \in Nat
  <2> DEFINE L == limit(p)
             e == eldest[p]
             n == n_replies[p]
             a == asked[p]
             t == taken[p]
             r == reorder[p]
             w == replay[p]
             m == Len(w)
             q == reorder'[p]
  <2>1. Answered(p) /\ Asking(p) /\ Numbered(p) /\ InSession(p)
    BY DEF AInv
  <2>2. /\ a \in Seq(Query) /\ t \in Seq(Slot) /\ n \in Nat /\ e \in Nat /\ r \in [Space -> Slot]
        /\ Len(a) \in Nat /\ Len(t) \in Nat /\ m \in Nat /\ w \in Seq(PE)
    BY AnswersAt
  <2>3. DOMAIN w = 1 .. m
    BY <2>2, LenProperties
  <2>4. L \in Nat \ {0} /\ 0 .. L - 1 \subseteq Space
    BY <2>1, RingSpace DEF InSession
  <2>5. /\ e < L /\ n + m <= L /\ Len(a) = Len(t) + n + m
        /\ \A i \in 1 .. Len(t) : t[i] = a[i]
        /\ \A i \in 0 .. n - 1 : r[easy_mod(e + i, L)] = a[Len(t) + i + 1]
    BY <2>1 DEF Answered, InRing
  <2>6. \A i \in 1 .. m : /\ Reply(p, i) = a[Len(t) + n + i]
                          /\ Place(p, i) = easy_mod(e + (n + i - 1), L)
    BY ReplyPlaced
  <2>7. \A x \in Space :
          q[x] = IF \E i \in 1 .. m : Place(p, i) = x
                 THEN Reply(p, CHOOSE i \in 1 .. m : Place(p, i) = x) ELSE r[x]
    BY <1>1, <2>3
  <2>8. q = [x \in Space |-> q[x]]
    BY <1>1
  <2>9. /\ replay'[p] = <<>> /\ n_replies'[p] = n + m
        /\ asked'[p] = a /\ taken'[p] = t /\ eldest'[p] = e /\ pushed'[p] = pushed[p]
        /\ round'[p] = round[p] /\ state'[p] = state[p]
    BY <1>1
  <2>10. limit(p)' = L
    BY <1>1 DEF limit
  <2> HIDE DEF L, e, n, a, t, r, w, m, q
  <2>11. /\ \A i \in 0 .. L - 1 : easy_mod(e + i, L) \in 0 .. L - 1
         /\ \A i, j \in 0 .. L - 1 : easy_mod(e + i, L) = easy_mod(e + j, L) => i = j
    BY <2>2, <2>4, <2>5, Places
  <2>12. \A k \in 1 .. m : n + k - 1 \in 0 .. L - 1 /\ n + k - 1 >= n
    <3>1. n \in Nat /\ m \in Nat /\ L \in Nat /\ n + m <= L
      BY <2>2, <2>4, <2>5
    <3> QED
      BY <3>1
  <2>13. ASSUME NEW i \in 1 .. m
         PROVE  q[easy_mod(e + (n + i - 1), L)] = a[Len(t) + n + i]
    <3> DEFINE x == Place(p, i)
               j == CHOOSE k \in 1 .. m : Place(p, k) = x
    <3>1. j \in 1 .. m /\ Place(p, j) = x
      OBVIOUS
    <3>2. n + i - 1 \in 0 .. L - 1 /\ n + j - 1 \in 0 .. L - 1
      <4> HIDE DEF j
      <4> QED
        BY <2>12, <3>1
    <3>3. x = easy_mod(e + (n + i - 1), L) /\ Place(p, j) = easy_mod(e + (n + j - 1), L)
      BY <2>6, <3>1
    <3>4. n + i - 1 = n + j - 1
      BY <2>11, <3>1, <3>2, <3>3
    <3>5. x \in Space
      BY <2>4, <2>11, <3>2, <3>3
    <3>6. q[x] = Reply(p, j)
      BY <2>7, <3>1, <3>5
    <3> HIDE DEF j
    <3>7. i = j
      BY <2>2, <3>1, <3>4
    <3> QED
      BY <2>6, <3>3, <3>6, <3>7
  <2>14. ASSUME NEW i \in 0 .. n - 1
         PROVE  q[easy_mod(e + i, L)] = a[Len(t) + i + 1]
    <3>1. i \in 0 .. L - 1 /\ easy_mod(e + i, L) \in Space
      <4>1. i \in 0 .. L - 1
        BY <2>2, <2>4, <2>5
      <4> QED
        BY <2>4, <2>11, <4>1
    <3>2. ASSUME NEW k \in 1 .. m PROVE Place(p, k) # easy_mod(e + i, L)
      <4>1. n + k - 1 \in 0 .. L - 1 /\ n + k - 1 # i
        <5>1. i < n /\ i \in Int /\ n \in Nat
          BY <2>2
        <5> QED
          BY <2>12, <5>1
      <4> QED
        BY <2>6, <2>11, <3>1, <4>1
    <3> QED
      BY <2>5, <2>7, <3>1, <3>2
  <2>15. ASSUME NEW i \in 0 .. (n + m) - 1
         PROVE  q[easy_mod(e + i, L)] = a[Len(t) + i + 1]
    <3>1. CASE i < n
      <4>1. i \in 0 .. n - 1
        BY <2>2, <3>1
      <4> QED
        BY <2>14, <4>1
    <3>2. CASE i >= n
      <4>1. /\ i - n + 1 \in 1 .. m /\ n + (i - n + 1) - 1 = i
            /\ Len(t) + n + (i - n + 1) = Len(t) + i + 1
        BY <2>2, <3>2
      <4>2. q[easy_mod(e + (n + (i - n + 1) - 1), L)] = a[Len(t) + n + (i - n + 1)]
        BY <2>13, <4>1
      <4> QED
        BY <4>1, <4>2
    <3> QED
      BY <2>2, <3>1, <3>2
  <2>16. Len(<<>>) = 0
    OBVIOUS
  <2>17. InRing(a, t, q, e, n + m, 0, L)
    <3>1. (n + m) + 0 <= L /\ Len(a) = Len(t) + (n + m) + 0
      BY <2>2, <2>4, <2>5
    <3> QED
      BY <2>5, <2>15, <3>1 DEF InRing
  <2>18. Answered(p)'
    BY <2>9, <2>10, <2>16, <2>17 DEF Answered, q
  <2>19. Asking(p)'
    <3>1. \A d \in PE : Replied(p)'[d] = pushed[p][d] /\ pushed[p][d] \in Nat
      <4>1. \A d \in PE : Len(got[d][p]) = pushed[p][d]
        BY AllArrived
      <4>2. \A d \in PE : recv'[d][p].next = 0
        BY <1>1, EmptyBuffers
      <4>3. \A d \in PE : pushed[p][d] \in Nat
        BY TypesAt DEF IInv
      <4> QED
        BY <1>1, <4>1, <4>2, <4>3 DEF Replied
    <3>2. \A d \in PE : Replied(p)'[d] + Number(<<>>, d, Len(<<>>)) = pushed[p][d]
      BY <3>1, NumberEmpty
    <3>3. Waiting(a, Len(t) + (n + m), <<>>, Replied(p)', pushed[p])
      BY <2>16, <3>2 DEF Waiting
    <3> QED
      BY <2>9, <3>3 DEF Asking
  <2>20. Numbered(p)'
    BY <2>1, <2>9 DEF Numbered, a
  <2>21. InSession(p)' /\ Fetched(p)'
    <3>1. InSession(p)'
      BY <2>1, <2>9 DEF InSession
    <3>2. Fetched(p)'
      BY <1>1, EmptyBuffers DEF Fetched
    <3> QED
      BY <3>1, <3>2
  <2>22. q \in [Space -> Slot]
    <3>1. \A i \in 1 .. m : a[Len(t) + n + i] \in Slot
      <4>1. \A i \in 1 .. m : Len(t) + n + i \in 1 .. Len(a)
        BY <2>2, <2>5
      <4>2. \A i \in 1 .. Len(a) : a[i] \in Query
        BY <2>2, ElementOfSeq
      <4>3. Query \subseteq Slot
        BY Ranks DEF Query, Slot
      <4> QED
        BY <4>1, <4>2, <4>3
    <3>2. ASSUME NEW x \in Space PROVE q[x] \in Slot
      <4>1. CASE \E i \in 1 .. m : Place(p, i) = x
        <5> DEFINE j == CHOOSE k \in 1 .. m : Place(p, k) = x
        <5>1. j \in 1 .. m
          BY <4>1
        <5>2. q[x] = Reply(p, j)
          BY <2>7, <4>1
        <5> HIDE DEF j
        <5> QED
          BY <2>6, <3>1, <5>1, <5>2
      <4>2. CASE ~\E i \in 1 .. m : Place(p, i) = x
        <5>1. q[x] = r[x]
          BY <2>7, <4>2
        <5> QED
          BY <2>2, <5>1
      <4> QED
        BY <4>1, <4>2
    <3> QED
      BY <2>8, <3>2
  <2> QED
    BY <2>2, <2>9, <2>18, <2>19, <2>20, <2>21, <2>22 DEF q
<1>3. AnswerTypes'
  <2>1. reorder' \in [PE -> [Space -> Slot]]
    <3>1. reorder' = [p \in PE |-> reorder'[p]]
      BY <1>1
    <3> QED
      BY <1>2, <3>1
  <2>2. n_replies' \in [PE -> Nat]
    <3>1. n_replies' = [p \in PE |-> n_replies'[p]]
      BY <1>1
    <3> QED
      BY <1>2, <3>1
  <2>3. replay' \in [PE -> Seq(PE)]
    BY <1>1
  <2> QED
    BY <1>1, <2>1, <2>2, <2>3 DEF AInv, AnswerTypes
<1> QED
  BY <1>1, <1>2, <1>3 DEF AInv

\* The queries are exchanged, to be answered.
LEMMA AskExchangeAnswers ==
  ASSUME IInv, AInv, bi, AskExchange
  PROVE  AInv'
<1>1. /\ UNCHANGED bivars /\ pushed' = pushed /\ round' = round /\ recv' = Received(send)
      /\ at' = [p \in PE |-> "answer"] /\ AllAt("agree") /\ got' = got
      /\ state' = [p \in PE |-> Outcome(p, IF further_comm THEN "OK" ELSE "NEAR", over[p])]
  BY DEF AskExchange
<1>2. ASSUME NEW q \in PE PROVE Replied(q)' = Replied(q) /\ Fetched(q)'
  <2>1. ASSUME NEW d \in PE PROVE recv[d][q].next = 0 /\ recv'[d][q].next = 0
    <3>1. at[d] # "answer" /\ Fetched(d)
      BY <1>1 DEF AllAt, AInv
    <3> QED
      BY <1>1, <3>1 DEF Fetched, Received
  <2>2. Replied(q)' = Replied(q)
    BY <1>1, <2>1 DEF Replied
  <2> QED
    BY <1>1, <2>2 DEF Fetched
<1>3. ASSUME NEW q \in PE PROVE state'[q] # "dormant"
  <2>1. state[q] \in {"working", "endgame"}
    BY <1>1, Agreed
  <2>2. \/ state'[q] = Outcome(q, "OK", over[q])
        \/ state'[q] = Outcome(q, "NEAR", over[q])
    BY <1>1
  <2> QED
    BY <2>1, <2>2 DEF Outcome
<1> QED
  BY <1>1, <1>2, <1>3, AnswersSame

\* A PE answers a query in place.
LEMMA AnswerAnswers ==
  ASSUME IInv, AInv, bi, NEW p \in PE, Answer(p), bi' = bi, UNCHANGED bivars
  PROVE  AInv'
<1>1. /\ at[p] = "answer" /\ at' = at /\ pushed' = pushed /\ round' = round /\ state' = state
  BY DEF Answer
<1>2. PICK s \in PE, x \in Nat :
        /\ recv' = [recv EXCEPT ![p][s].next = @ + 1]
        /\ got' = [got EXCEPT ![p][s] = Append(@, x)]
  <2>1. PICK s \in Unanswered(p) :
          /\ recv' = [recv EXCEPT ![p][s].next = @ + 1]
          /\ got' = [got EXCEPT ![p][s] = Append(@, recv[p][s].items[recv[p][s].next + 1])]
    BY DEF Answer
  <2>2. s \in PE /\ recv[p][s].next < Len(recv[p][s].items)
    BY DEF Unanswered
  <2> DEFINE items == recv[p][s].items
             next == recv[p][s].next
  <2>3. items \in Seq(Nat) /\ next \in Nat /\ next < Len(items)
    BY <2>2, TypesAt DEF IInv
  <2> HIDE DEF items, next
  <2>4. items[next + 1] \in Nat
    BY <2>3
  <2> QED
    BY <2>1, <2>2, <2>4 DEF items, next
<1>3. \A q \in PE : at[q] = "answer"
  BY <1>1 DEF IInv, Answering
<1>4. ASSUME NEW q \in PE PROVE Replied(q)' = Replied(q) /\ Fetched(q)'
  <2>1. recv \in [PE -> [PE -> Buffer]] /\ got \in [PE -> [PE -> Seq(Nat)]]
    BY DEF IInv, Types
  <2>2. ASSUME NEW d \in PE
        PROVE  Len(got'[d][q]) - recv'[d][q].next = Len(got[d][q]) - recv[d][q].next
    <3>1. CASE d = p /\ q = s
      <4>1. recv[p][s].next \in Nat /\ got[p][s] \in Seq(Nat)
        BY TypesAt DEF IInv
      <4>2. recv'[p][s].next = recv[p][s].next + 1
        <5>1. recv[p][s] \in Buffer
          BY <2>1
        <5>2. recv'[p][s] = [recv[p][s] EXCEPT !.next = @ + 1]
          BY <1>2, <2>1
        <5> QED
          BY <5>1, <5>2 DEF Buffer
      <4>3. got'[p][s] = Append(got[p][s], x)
        BY <1>2, <2>1
      <4>4. Len(got'[p][s]) = Len(got[p][s]) + 1 /\ Len(got[p][s]) \in Nat
        BY <1>2, <4>1, <4>3
      <4>5. \A k, l \in Nat : (l + 1) - (k + 1) = l - k
        OBVIOUS
      <4>6. Len(got'[p][s]) - recv'[p][s].next = Len(got[p][s]) - recv[p][s].next
        BY <4>1, <4>2, <4>4, <4>5, Zenon
      <4> QED
        BY <3>1, <4>6
    <3>2. CASE d # p \/ q # s
      <4>1. recv'[d][q] = recv[d][q] /\ got'[d][q] = got[d][q]
        BY <1>2, <2>1, <3>2
      <4> QED
        BY <4>1
    <3> QED
      BY <3>1, <3>2
  <2>3. Replied(q)' = Replied(q)
    BY <2>2 DEF Replied
  <2> QED
    BY <1>1, <1>3, <2>3 DEF Fetched
<1> QED
  BY <1>1, <1>4, AnswersSame

\* A client of a biconveyor advances.
LEMMA AdvanceAnswers ==
  ASSUME IInv, AInv, bi, NEW p \in PE, NEW d \in BOOLEAN, StartAdvance(p, d), UNCHANGED bivars
  PROVE  AInv'
<1>1. /\ at[p] = "client" /\ state[p] \notin {"dormant", "complete"}
      /\ pushed' = pushed /\ round' = round /\ recv' = recv /\ got' = got
  BY DEF StartAdvance
<1>2. Types
  BY DEF IInv
<1>3. \A q \in PE : at[q] # "answer" /\ Fetched(q)
  BY <1>1, NoAnswers DEF AInv
<1>4. \A q \in PE : Replied(q)' = Replied(q)
  BY <1>1 DEF Replied
<1>5. \A q \in PE : Fetched(q)'
  BY <1>1, <1>3 DEF Fetched
<1>6. ASSUME NEW q \in PE PROVE state'[q] = "dormant" => state[q] = "dormant"
  <2>1. CASE quiet[p]
    <3>1. state' = [state EXCEPT ![p] = Outcome(p, QuietResult(p), d)]
      BY <2>1 DEF StartAdvance
    <3>2. Outcome(p, QuietResult(p), d) # "dormant"
      BY DEF Outcome, QuietResult
    <3> QED
      BY <1>2, <3>1, <3>2 DEF Types
  <2>2. CASE ~quiet[p]
    BY <2>2 DEF StartAdvance
  <2> QED
    BY <2>1, <2>2
<1> QED
  BY <1>1, <1>4, <1>5, <1>6, AnswersSame

\* They agree not to exchange the queries.
LEMMA AgreeNotAnswers ==
  ASSUME IInv, AInv, bi, AgreeNot, UNCHANGED bivars
  PROVE  AInv'
<1>1. /\ AllAt("agree") /\ at' = [p \in PE |-> "client"] /\ got' = got /\ recv' = recv
      /\ pushed' = pushed /\ round' = round
      /\ state' = [p \in PE |-> Outcome(p, "OK", over[p])]
  BY DEF AgreeNot, Return, buffers
<1>2. \A q \in PE : Replied(q)' = Replied(q) /\ Fetched(q)'
  <2>1. \A q \in PE : at[q] # "answer" /\ Fetched(q)
    BY <1>1 DEF AllAt, AInv
  <2> QED
    BY <1>1, <2>1 DEF Replied, Fetched
<1>3. ASSUME NEW q \in PE PROVE state'[q] # "dormant"
  <2>1. state[q] \in {"working", "endgame"}
    BY <1>1, Agreed
  <2> QED
    BY <1>1, <2>1 DEF Outcome
<1> QED
  BY <1>1, <1>2, <1>3, AnswersSame

\* A push that fails, and a step that changes nothing.
LEMMA IdleAnswers ==
  ASSUME IInv, AInv, bi, UNCHANGED bivars,
         UNCHANGED vars \/ \E p, d \in PE : PushFails(p, d)
  PROVE  AInv'
<1>1. /\ at' = at /\ got' = got /\ recv' = recv /\ pushed' = pushed /\ round' = round
      /\ state' = state
  BY DEF PushFails, vars
<1>2. \A q \in PE : Replied(q)' = Replied(q) /\ Fetched(q)'
  BY <1>1 DEF Replied, Fetched, AInv
<1> QED
  BY <1>1, <1>2, AnswersSame

\* At the end all queries are answered.
LEMMA AllBack ==
  ASSUME IInv, AInv, bi, NEW p \in PE, at[p] # "answer", state[p] \in {"complete", "dormant"}
  PROVE  replay[p] = <<>>
<1>1. ASSUME NEW d \in PE PROVE Number(replay[p], d, Len(replay[p])) = 0
  <2> DEFINE l == Len(got[d][p])
             next == recv[d][p].next
             items == recv[d][p].items
             n == Number(replay[p], d, Len(replay[p]))
  <2>1. circle[p] = <<>> /\ Outgoing(p, d) = <<>>
    BY TheEnd DEF AtEnd
  <2>2. next = 0 /\ next = Len(items)
    <3>1. at[d] # "answer" /\ Course(d) /\ pull_from[d] = N /\ Fetched(d)
      BY NoAnswers DEF IInv, Answering, AInv
    <3>2. next = 0
      BY <3>1 DEF Fetched
    <3>3. Read(d, p)
      BY <3>1, Ranks DEF Course
    <3> QED
      BY <3>2, <3>3 DEF Read
  <2>3. pushed[p][d] = (l - next + Len(items)) + Len(<<>>) + Count(<<>>, d, Len(<<>>))
    BY <2>1 DEF IInv, ChainOf, Chain
  <2>4. Count(<<>>, d, Len(<<>>)) = 0 /\ Len(<<>>) = 0
    BY CountZero
  <2>5. (l - next) + n = pushed[p][d]
    BY DEF AInv, Asking, Waiting, Replied
  <2>6. l \in Nat
    <3>1. got[d][p] \in Seq(Nat)
      BY TypesAt DEF IInv
    <3> QED
      BY <3>1
  <2>7. n \in Nat
    <3>1. /\ Len(replay[p]) \in Nat
          /\ {i \in 1 .. Len(replay[p]) : replay[p][i] = d} \in SUBSET (1 .. Len(replay[p]))
      BY AnswersAt
    <3> QED
      BY <3>1, OneMore DEF Number
  <2> HIDE DEF l, next, items, n
  <2>8. n = 0
    BY <2>2, <2>3, <2>4, <2>5, <2>6, <2>7
  <2> QED
    BY <2>8 DEF n
<1> QED
  BY <1>1, AnswersAt, NumberZero

\* A client resets the biconveyor.
LEMMA ResetAnswers ==
  ASSUME IInv, AInv, bi, NEW p \in PE, ResetBi(p)
  PROVE  AInv'
<1>1. /\ at[p] = "client" /\ state[p] = "complete" /\ round[p] < MaxRounds
      /\ state' = [state EXCEPT ![p] = "dormant"] /\ UNCHANGED bivars
      /\ at' = at /\ got' = got /\ recv' = recv /\ pushed' = pushed /\ round' = round
  BY DEF ResetBi, Reset
<1>2. replay[p] = <<>>
  BY <1>1, AllBack
<1>3. \A q \in PE : q # p => state'[q] = state[q]
  BY <1>1 DEF IInv, Types
<1>4. \A q \in PE : Replied(q)' = Replied(q) /\ Fetched(q)'
  BY <1>1 DEF Replied, Fetched, AInv
<1> QED
  BY <1>1, <1>2, <1>3, <1>4, AnswersSame

\* A PE begins, up to the barrier.
LEMMA BeginAnswers ==
  ASSUME IInv, AInv, bi, NEW p \in PE, Begin(p), UNCHANGED bivars
  PROVE  AInv'
<1>1. /\ at[p] = "client" /\ state[p] = "dormant" /\ state' = state
      /\ recv' = [recv EXCEPT ![p] = EmptyRecv] /\ got' = got
      /\ pushed' = pushed /\ round' = round
  BY DEF Begin
<1>2. \A q \in PE : at[q] # "answer" /\ Fetched(q)
  BY <1>1, NoAnswers DEF AInv
<1>3. recv \in [PE -> [PE -> Buffer]]
  BY DEF IInv, Types
<1>4. \A d, q \in PE : recv[d][q].next = 0 /\ recv'[d][q].next = 0
  <2> SUFFICES ASSUME NEW d \in PE, NEW q \in PE
      PROVE recv[d][q].next = 0 /\ recv'[d][q].next = 0
    OBVIOUS
  <2>1. recv[d][q].next = 0
    BY <1>2 DEF Fetched
  <2>2. recv'[d] = recv[d] \/ recv'[d] = EmptyRecv
    BY <1>1, <1>3
  <2> QED
    BY <2>1, <2>2, EmptyBuffers
<1>5. \A q \in PE : Replied(q)' = Replied(q) /\ Fetched(q)'
  BY <1>1, <1>4 DEF Replied, Fetched
<1> QED
  BY <1>1, <1>5, AnswersSame

\* When all are at the barrier, all queries are answered.
LEMMA AllOver ==
  ASSUME IInv, AInv, NEW p \in PE, FinishBegin
  PROVE  /\ over[p] /\ at[p] = "begin"
         /\ bi => replay[p] = <<>> /\ round[p] < MaxRounds
<1>1. at[p] = "begin" /\ state[p] = "dormant" /\ over[p]
  <2>1. at[p] = "begin" /\ Course(p)
    BY DEF FinishBegin, AllAt, IInv
  <2> QED
    BY <2>1 DEF Course
<1> QED
  BY <1>1 DEF AInv, InSession

\* All begin a session together, with the ring where it was.
LEMMA FinishBeginAnswers ==
  ASSUME CleanStart, IInv, AInv, bi, FinishBeginBi
  PROVE  AInv'
<1>1. /\ AllAt("begin") /\ at' = [p \in PE |-> "client"] /\ state' = [p \in PE |-> "working"]
      /\ pushed' = [p \in PE |-> [d \in PE |-> 0]] /\ round' = [p \in PE |-> round[p] + 1]
      /\ recv' = recv /\ got' = [p \in PE |-> [s \in PE |-> <<>>]]
      /\ reorder' = [p \in PE |-> [i \in Space |-> Garbage]]
      /\ asked' = [p \in PE |-> <<>>] /\ taken' = [p \in PE |-> <<>>]
      /\ bi' = bi /\ replay' = replay /\ eldest' = eldest /\ n_replies' = n_replies
  BY DEF FinishBeginBi, FinishBegin, buffers
<1>2. AnswerTypes'
  <2>1. Garbage \in Slot
    BY SimpleAssumption DEF Garbage, Slot
  <2> QED
    BY <1>1, <2>1 DEF AInv, AnswerTypes
<1>3. ASSUME NEW p \in PE
      PROVE  Answered(p)' /\ Asking(p)' /\ Numbered(p)' /\ InSession(p)' /\ Fetched(p)'
  <2>1. /\ n_replies[p] = 0 /\ replay[p] = <<>> /\ round[p] < MaxRounds
        /\ eldest[p] < Limit[round[p] + 1]
    BY <1>3, AllOver DEF FinishBeginBi, CleanStart
  <2>2. InSession(p) /\ eldest[p] \in Nat
    BY AnswersAt DEF AInv
  <2>3. /\ asked'[p] = <<>> /\ taken'[p] = <<>> /\ replay'[p] = <<>> /\ n_replies'[p] = 0
        /\ eldest'[p] = eldest[p] /\ round'[p] = round[p] + 1 /\ state'[p] = "working"
        /\ \A d \in PE : pushed'[p][d] = 0 /\ got'[d][p] = <<>>
    BY <1>1, <2>1
  <2>4. round[p] \in 1 .. MaxRounds /\ round[p] + 1 \in 1 .. MaxRounds
    BY <2>1, <2>2, ClientAssumption DEF InSession
  <2>5. limit(p)' = Limit[round[p] + 1] /\ limit(p)' \in Nat \ {0} /\ eldest[p] < limit(p)'
    <3>1. limit(p)' = Limit[round[p] + 1]
      BY <2>3 DEF limit
    <3>2. Limit[round[p] + 1] \in Nat \ {0}
      BY <2>4, BiAssumption
    <3> QED
      BY <2>1, <3>1, <3>2
  <2>6. \A d, q \in PE : recv'[d][q].next = 0
    <3> SUFFICES ASSUME NEW d \in PE, NEW q \in PE PROVE recv[d][q].next = 0
      BY <1>1
    <3>1. at[d] # "answer" /\ Fetched(d)
      BY <1>1 DEF AllAt, AInv
    <3> QED
      BY <3>1 DEF Fetched
  <2>7. Len(<<>>) = 0
    OBVIOUS
  <2>8. Answered(p)'
    <3> DEFINE e == eldest[p]
               L == limit(p)'
    <3>1. \A r : InRing(<<>>, <<>>, r, e, 0, 0, L)
      BY <2>2, <2>5, <2>7 DEF InRing
    <3> HIDE DEF L, e
    <3> QED
      BY <2>3, <2>7, <3>1 DEF Answered, L, e
  <2>9. Asking(p)'
    <3>1. \A d \in PE : Replied(p)'[d] = 0
      BY <2>3, <2>6, <2>7 DEF Replied
    <3>2. \A d \in PE : Replied(p)'[d] + Number(<<>>, d, Len(<<>>)) = pushed'[p][d]
      BY <2>3, <3>1, NumberEmpty
    <3>3. \A k : Waiting(<<>>, k, <<>>, Replied(p)', pushed'[p])
      BY <2>7, <3>2 DEF Waiting
    <3> QED
      BY <2>3, <3>3 DEF Asking
  <2>10. Numbered(p)'
    <3>1. \A d \in PE : {i \in DOMAIN <<>> : (<<>>)[i].pe = d} = {}
      OBVIOUS
    <3>2. \A d \in PE : Cardinality({i \in DOMAIN <<>> : (<<>>)[i].pe = d}) = pushed'[p][d]
      BY <2>3, <3>1, FS_EmptySet
    <3> QED
      BY <2>3, <3>2 DEF Numbered, CountedBy
  <2>11. InSession(p)' /\ Fetched(p)'
    BY <2>3, <2>4, <2>6 DEF InSession, Fetched
  <2> QED
    BY <2>8, <2>9, <2>10, <2>11
<1> QED
  BY <1>1, <1>2, <1>3 DEF AInv

\* A step that changes nothing the clients of a biconveyor see.
LEMMA AnswersStill ==
  ASSUME asked' = asked, taken' = taken, over' = over, round' = round
  PROVE  UNCHANGED Answers!vars
BY DEF Answers!vars

\* A client that is done for the first time closes.
LEMMA AnswersClose ==
  ASSUME IInv, NEW p \in PE, NEW d \in BOOLEAN, StartAdvance(p, d),
         asked' = asked, taken' = taken
  PROVE  [Answers!Next]_(Answers!vars)
<1>1. over' = [over EXCEPT ![p] = d] /\ (over[p] => d) /\ over \in [PE -> BOOLEAN] /\ round' = round
  BY DEF StartAdvance, IInv, Types
<1>2. CASE d = over[p]
  <2>1. over' = over
    BY <1>1, <1>2
  <2> QED
    BY <1>1, <2>1, AnswersStill
<1>3. CASE d # over[p]
  <2>1. ~over[p] /\ d = TRUE
    BY <1>1, <1>3
  <2>2. Answers!Close(p)
    BY <1>1, <2>1 DEF Answers!Close
  <2> QED
    BY <2>2 DEF Answers!Next
<1> QED
  BY <1>2, <1>3

\* At the barrier all start the new session together.
LEMMA AnswersRestart ==
  ASSUME IInv, AInv, FinishBegin,
         asked' = [p \in PE |-> <<>>], taken' = [p \in PE |-> <<>>]
  PROVE  [Answers!Next]_(Answers!vars)
<1>1. over' = [p \in PE |-> FALSE] /\ round' = [p \in PE |-> round[p] + 1]
  BY DEF FinishBegin
<1>2. \A q \in PE : over[q]
  BY AllOver
<1>3. Answers!Restart(PE)
  BY <1>1, <1>2 DEF Answers!Restart
<1> QED
  BY <1>3 DEF Answers!Next

\* The steps of a plain conveyor.
LEMMA PlainAnswers ==
  ASSUME IInv, AInv, ~bi, [NextBi]_allvars
  PROVE  AInv' /\ [Answers!Next]_(Answers!vars)
<1>1. UNCHANGED bivars
  BY DEF NextBi, AdvanceBi, CollectiveBi, Plain, Under, allvars
<1>2. AInv'
  BY <1>1, AnswersPlain
<1>3. asked' = asked /\ taken' = taken
  BY <1>1 DEF bivars
<1>4. Step \/ Failure
  BY StepOfNext
<1>5. ASSUME NEW p \in PE, NEW d \in BOOLEAN, StartAdvance(p, d)
      PROVE  [Answers!Next]_(Answers!vars)
  BY <1>3, <1>5, AnswersClose
<1>6. ASSUME FinishBegin PROVE [Answers!Next]_(Answers!vars)
  <2>1. asked = [p \in PE |-> <<>>] /\ taken = [p \in PE |-> <<>>]
    BY DEF AInv
  <2>2. asked' = [p \in PE |-> <<>>] /\ taken' = [p \in PE |-> <<>>]
    BY <1>3, <2>1
  <2> QED
    BY <1>6, <2>2, AnswersRestart
<1>7. ASSUME \/ \E p, d \in PE : Push(p, d) \/ PushFails(p, d)
             \/ \E p \in PE : Pull(p) \/ PullNothing(p) \/ Unpull(p)
             \/ AgreeNot \/ Exchange \/ Failure \/ UNCHANGED vars
             \/ \E p \in PE : Reset(p) \/ Begin(p)
      PROVE  [Answers!Next]_(Answers!vars)
  <2>1. over' = over /\ round' = round
    BY <1>7 DEF Push, PushFails, Pull, PullNothing, Unpull, AgreeNot, Exchange, Failure, Abort,
                Reset, Begin, vars
  <2> QED
    BY <1>3, <2>1, AnswersStill
<1> QED
  BY <1>2, <1>4, <1>5, <1>6, <1>7 DEF Step

\* The steps of a biconveyor.
LEMMA BiconveyorAnswers ==
  ASSUME CleanStart, IInv, AInv, bi, [NextBi]_allvars, ~Failure
  PROVE  AInv' /\ [Answers!Next]_(Answers!vars)
<1>1. ASSUME NEW p \in PE, NEW d \in PE, Ask(p, d)
      PROVE  AInv' /\ [Answers!Next]_(Answers!vars)
  <2>1. AInv' /\ Answers!Ask(p)
    BY <1>1, AskAnswers
  <2> QED
    BY <2>1 DEF Answers!Next
<1>2. ASSUME NEW p \in PE, Take(p)
      PROVE  AInv' /\ [Answers!Next]_(Answers!vars)
  <2>1. AInv' /\ Answers!Take(p)
    BY <1>2, TakeAnswers
  <2> QED
    BY <2>1 DEF Answers!Next
<1>3. ASSUME UNCHANGED bivars, UNCHANGED vars \/ \E p, d \in PE : PushFails(p, d)
      PROVE  AInv' /\ [Answers!Next]_(Answers!vars)
  <2>1. asked' = asked /\ taken' = taken /\ over' = over /\ round' = round
    BY <1>3 DEF bivars, vars, PushFails
  <2> QED
    BY <1>3, <2>1, IdleAnswers, AnswersStill
<1>4. ASSUME NEW p \in PE, NEW d \in BOOLEAN, StartAdvance(p, d), UNCHANGED bivars
      PROVE  AInv' /\ [Answers!Next]_(Answers!vars)
  <2>1. asked' = asked /\ taken' = taken
    BY <1>4 DEF bivars
  <2> QED
    BY <1>4, <2>1, AdvanceAnswers, AnswersClose
<1>5. ASSUME AgreeNot, UNCHANGED bivars
      PROVE  AInv' /\ [Answers!Next]_(Answers!vars)
  <2>1. asked' = asked /\ taken' = taken /\ over' = over /\ round' = round
    BY <1>5 DEF bivars, AgreeNot
  <2> QED
    BY <1>5, <2>1, AgreeNotAnswers, AnswersStill
<1>6. CASE AskExchange
  <2>1. asked' = asked /\ taken' = taken /\ over' = over /\ round' = round
    BY <1>6 DEF bivars, AskExchange
  <2> QED
    BY <1>6, <2>1, AskExchangeAnswers, AnswersStill
<1>7. CASE ReplyExchange
  <2>1. AllAt("answer") /\ AllReplied /\ Gather
    BY <1>7 DEF ReplyExchange, Failure
  <2>2. asked' = asked /\ taken' = taken /\ over' = over /\ round' = round
    BY <2>1 DEF Gather
  <2> QED
    BY <2>1, <2>2, ReplyAnswers, AnswersStill
<1>8. ASSUME NEW p \in PE, Answer(p), UNCHANGED bivars
      PROVE  AInv' /\ [Answers!Next]_(Answers!vars)
  <2>1. bi' = bi /\ asked' = asked /\ taken' = taken /\ over' = over /\ round' = round
    BY <1>8 DEF bivars, Answer
  <2> QED
    BY <1>8, <2>1, AnswerAnswers, AnswersStill
<1>9. CASE FinishBeginBi
  <2>1. FinishBegin /\ asked' = [p \in PE |-> <<>>] /\ taken' = [p \in PE |-> <<>>]
    BY <1>9 DEF FinishBeginBi
  <2> QED
    BY <1>9, <2>1, FinishBeginAnswers, AnswersRestart
<1>10. ASSUME NEW p \in PE, ResetBi(p)
       PROVE  AInv' /\ [Answers!Next]_(Answers!vars)
  <2>1. asked' = asked /\ taken' = taken /\ over' = over /\ round' = round
    BY <1>10 DEF bivars, ResetBi, Reset
  <2> QED
    BY <1>10, <2>1, ResetAnswers, AnswersStill
<1>11. ASSUME NEW p \in PE, Begin(p), UNCHANGED bivars
       PROVE  AInv' /\ [Answers!Next]_(Answers!vars)
  <2>1. asked' = asked /\ taken' = taken /\ over' = over /\ round' = round
    BY <1>11 DEF bivars, Begin
  <2> QED
    BY <1>11, <2>1, BeginAnswers, AnswersStill
<1>12. CASE UNCHANGED allvars
  BY <1>3, <1>12 DEF allvars
<1>13. CASE NextBi
  <2>1. ASSUME NEW p \in PE, NEW d \in PE, AskFails(p, d)
        PROVE  AInv' /\ [Answers!Next]_(Answers!vars)
    BY <1>3, <2>1 DEF AskFails
  <2>2. ASSUME NEW p \in PE, AdvanceBi(p)
        PROVE  AInv' /\ [Answers!Next]_(Answers!vars)
    BY <1>4, <2>2 DEF AdvanceBi, AnyAdvance, Plain, Under
  <2>3. ASSUME NEW p \in PE, Under(Begin(p))
        PROVE  AInv' /\ [Answers!Next]_(Answers!vars)
    BY <1>11, <2>3 DEF Under
  <2>4. CASE CollectiveBi
    <3>1. ASSUME NEW p \in PE, Answer(p)
          PROVE  AInv' /\ [Answers!Next]_(Answers!vars)
      <4>1. UNCHANGED bivars
        BY <3>1 DEF Answer
      <4> QED
        BY <1>8, <3>1, <4>1
    <3>2. CASE Under(AgreeNot)
      BY <1>5, <3>2 DEF Under
    <3> QED
      BY <1>6, <1>7, <1>9, <2>4, <3>1, <3>2 DEF CollectiveBi, Plain
  <2>5. CASE Under(Finished)
    <3>1. UNCHANGED bivars /\ UNCHANGED vars
      BY <2>5 DEF Under, Finished
    <3> QED
      BY <1>3, <3>1
  <2> QED
    BY <1>1, <1>2, <1>10, <1>13, <2>1, <2>2, <2>3, <2>4, <2>5 DEF NextBi, Plain
<1> QED
  BY <1>12, <1>13

\* Every step keeps the invariant, and is one of the queue or hidden, unless the
\* assertion fails.
LEMMA AnswersStep ==
  ASSUME bi => CleanStart, IInv, AInv, [NextBi]_allvars
  PROVE  (AInv' \/ Stopped') /\ [Answers!Next]_(Answers!vars)
<1>1. bi \in BOOLEAN
  BY DEF IInv, Types
<1>2. CASE Failure
  <2>1. asked' = asked /\ taken' = taken /\ over' = over /\ round' = round
    BY <1>2 DEF Failure, Abort, bivars
  <2> QED
    BY <1>2, <2>1, FailureStops, AnswersStill
<1>3. CASE ~Failure
  BY <1>1, <1>3, PlainAnswers, BiconveyorAnswers
<1> QED
  BY <1>2, <1>3

\* Nothing happens after that.
LEMMA StoppedStill ==
  ASSUME Stopped, [NextBi]_allvars
  PROVE  Stopped' /\ [Answers!Next]_(Answers!vars)
<1>1. UNCHANGED allvars
  BY StoppedForGood
<1>2. Stopped'
  BY <1>1 DEF Stopped, TypeOK, allvars, vars, buffers
<1>3. asked' = asked /\ taken' = taken /\ over' = over /\ round' = round
  BY <1>1 DEF allvars, vars, bivars
<1> QED
  BY <1>2, <1>3, AnswersStill

\* The initial states are those of the queue.
LEMMA AnswersStart == ASSUME InitBi PROVE Answers!Init
BY DEF InitBi, Init, Answers!Init

\* Clients of a simple biconveyor pull the replies to their queries in the order in
\* which they pushed them, whatever targets they had, in every session: each reply
\* once, and from the PE that was asked.  That is so for any client, with a sorter
\* and without, as long as each session has a clean start: biconvey_reset and
\* biconvey_begin do not see to that, they leave the ring as it is.
THEOREM AnswersHold == SpecBi /\ []CleanStart => AnswersSpec
<1>1. InitBi => AInv /\ Answers!Init
  BY AnswersInit, AnswersStart
<1>2. CleanStart /\ (IInv \/ Stopped) /\ (AInv \/ Stopped) /\ [NextBi]_allvars
        => (AInv \/ Stopped)' /\ [Answers!Next]_(Answers!vars)
  <2>1. ASSUME CleanStart, IInv, AInv, [NextBi]_allvars
        PROVE  (AInv' \/ Stopped') /\ [Answers!Next]_(Answers!vars)
    BY <2>1, AnswersStep
  <2>2. ASSUME Stopped, [NextBi]_allvars
        PROVE  Stopped' /\ [Answers!Next]_(Answers!vars)
    BY <2>2, StoppedStill
  <2> QED
    BY <2>1, <2>2
<1> QED
  BY <1>1, <1>2, Invariant, PTL DEF SpecBi, AnswersSpec, Answers!Spec

-----------------------------------------------------------------------------
(* Clients that pull all their replies, and a ring that does not get shorter *)

\* A client that has reset its biconveyor has pulled all its replies.
Ready(p) == state[p] = "dormant" => at[p] # "answer" /\ n_replies[p] = 0

AllReady == bi => \A p \in PE : Ready(p)

RingKept == \A s, t \in 1 .. MaxRounds : s <= t => Limit[s] <= Limit[t]

\* That makes a clean start.
LEMMA ReadyStarts ==
  ASSUME RingKept, IInv, AInv, AllReady
  PROVE  bi => CleanStart
<1> SUFFICES ASSUME bi, NEW p \in PE, at[p] = "begin"
    PROVE n_replies[p] = 0 /\ eldest[p] < Limit[round[p] + 1]
  BY DEF CleanStart
<1>1. state[p] = "dormant"
  BY DEF IInv, Course
<1>2. n_replies[p] = 0
  BY <1>1 DEF AllReady, Ready
<1>3. /\ round[p] \in 1 .. MaxRounds /\ round[p] < MaxRounds
      /\ eldest[p] < Limit[round[p]] /\ eldest[p] \in Nat
  BY <1>1, AnswersAt DEF AInv, InSession, Answered, InRing, limit
<1>4. round[p] + 1 \in 1 .. MaxRounds /\ round[p] <= round[p] + 1
  BY <1>3, ClientAssumption
<1>5. Limit[round[p]] \in Nat /\ Limit[round[p] + 1] \in Nat
  BY <1>3, <1>4, BiAssumption
<1>6. Limit[round[p]] <= Limit[round[p] + 1]
  BY <1>3, <1>4 DEF RingKept
<1> QED
  BY <1>2, <1>3, <1>5, <1>6

\* No PE gets out of that by a step.
LEMMA ReadyStep ==
  ASSUME PullsAll, IInv, AInv, AllReady, [NextBi]_allvars
  PROVE  AllReady'
<1>0. Types /\ bi \in BOOLEAN
  BY DEF IInv, Types
<1>1. bi' = bi
  BY StepOfNext DEF Step, Failure, Abort, bivars
<1> SUFFICES ASSUME bi PROVE \A q \in PE : Ready(q)'
  BY <1>1 DEF AllReady
<1>2. \A q \in PE : Ready(q)
  BY DEF AllReady
<1>3. ASSUME NEW p \in PE, Take(p), NEW q \in PE PROVE Ready(q)'
  <2>1. state' = state /\ at' = at /\ state[p] # "dormant"
    BY <1>3 DEF Take, vars, CanPull
  <2>2. q # p => n_replies'[q] = n_replies[q]
    BY <1>3 DEF Take, AInv, AnswerTypes
  <2> QED
    BY <1>2, <2>1, <2>2 DEF Ready
<1>4. ASSUME n_replies' = n_replies, state' = state,
             \A q \in PE : at'[q] # "answer" \/ at'[q] = at[q]
      PROVE  \A q \in PE : Ready(q)'
  BY <1>2, <1>4 DEF Ready
<1>5. ASSUME NEW p \in PE, ResetBi(p), n_replies[p] = 0, NEW q \in PE PROVE Ready(q)'
  <2>1. /\ state' = [state EXCEPT ![p] = "dormant"] /\ at' = at /\ at[p] = "client"
        /\ n_replies' = n_replies
    BY <1>5 DEF ResetBi, Reset, bivars, ring
  <2>2. q # p => state'[q] = state[q]
    BY <1>0, <2>1 DEF Types
  <2> QED
    BY <1>2, <1>5, <2>1, <2>2 DEF Ready
<1>6. ASSUME NEW p \in PE, NEW d \in BOOLEAN, StartAdvance(p, d), UNCHANGED bivars, NEW q \in PE
      PROVE  Ready(q)'
  <2>1. /\ at[p] = "client" /\ state[p] # "dormant" /\ n_replies' = n_replies
        /\ at' = at \/ at' = [at EXCEPT ![p] = "agree"]
        /\ state' = state \/ state' = [state EXCEPT ![p] = Outcome(p, QuietResult(p), d)]
    BY <1>6 DEF StartAdvance, bivars, ring
  <2>2. Outcome(p, QuietResult(p), d) # "dormant"
    BY DEF Outcome, QuietResult
  <2>3. /\ at'[q] # "answer" \/ at'[q] = at[q]
        /\ state'[q] = "dormant" => state[q] = "dormant"
    BY <1>0, <2>1, <2>2 DEF Types
  <2> QED
    BY <1>2, <2>1, <2>3 DEF Ready
<1>7. ASSUME AgreeNot \/ AskExchange, NEW q \in PE PROVE Ready(q)'
  <2>1. state[q] \in {"working", "endgame"}
    BY <1>7, Agreed DEF AgreeNot, AskExchange
  <2>2. \/ state'[q] = Outcome(q, "OK", over[q])
        \/ state'[q] = Outcome(q, "NEAR", over[q])
    BY <1>7 DEF AgreeNot, AskExchange, Return
  <2>3. state'[q] # "dormant"
    BY <2>1, <2>2 DEF Outcome
  <2> QED
    BY <2>3 DEF Ready
<1>8. ASSUME ReplyExchange, NEW q \in PE PROVE Ready(q)'
  <2>1. state[q] # "dormant"
    BY <1>2, <1>8 DEF ReplyExchange, AllAt, Ready
  <2>2. state' = state
    BY <1>8 DEF ReplyExchange, Gather, Abort
  <2> QED
    BY <2>1, <2>2 DEF Ready
<1>9. ASSUME FinishBeginBi, NEW q \in PE PROVE Ready(q)'
  <2>1. state' = [p \in PE |-> "working"]
    BY <1>9 DEF FinishBeginBi, FinishBegin
  <2> QED
    BY <2>1 DEF Ready
<1>10. ASSUME NEW p \in PE, NEW d \in PE, Ask(p, d) \/ AskFails(p, d)
       PROVE  \A q \in PE : Ready(q)'
  <2>1. n_replies' = n_replies /\ state' = state /\ at' = at
    BY <1>10 DEF Ask, AskFails, Push, PushFails, bivars, ring
  <2> QED
    BY <1>4, <2>1
<1>11. ASSUME NEW p \in PE, Answer(p) PROVE \A q \in PE : Ready(q)'
  <2>1. n_replies' = n_replies /\ state' = state /\ at' = at
    BY <1>11 DEF Answer, bivars, ring
  <2> QED
    BY <1>4, <2>1
<1>12. ASSUME NEW p \in PE, Begin(p), UNCHANGED bivars PROVE \A q \in PE : Ready(q)'
  <2>1. n_replies' = n_replies /\ state' = state /\ at' = [at EXCEPT ![p] = "begin"]
    BY <1>12 DEF Begin, bivars, ring
  <2>2. \A q \in PE : at'[q] # "answer" \/ at'[q] = at[q]
    BY <1>0, <2>1 DEF Types
  <2> QED
    BY <1>4, <2>1, <2>2
<1>13. ASSUME UNCHANGED allvars PROVE \A q \in PE : Ready(q)'
  <2>1. n_replies' = n_replies /\ state' = state /\ at' = at
    BY <1>13 DEF allvars, vars, bivars, ring
  <2> QED
    BY <1>4, <2>1
<1>14. CASE CollectiveBi
  BY <1>7, <1>8, <1>9, <1>11, <1>14 DEF CollectiveBi, Plain, Under
<1>15. ASSUME NEW p \in PE, AdvanceBi(p) PROVE \A q \in PE : Ready(q)'
  BY <1>6, <1>15 DEF AdvanceBi, AnyAdvance, Plain, Under
<1>16. CASE Under(Finished)
  BY <1>13, <1>16 DEF Under, Finished, allvars
<1> QED
  BY <1>3, <1>5, <1>10, <1>12, <1>13, <1>14, <1>15, <1>16 DEF NextBi, Plain, Under

\* If each client pulls all its replies before it resets its biconveyor, and no
\* session has a shorter ring than the one before, the replies always come in order.
THEOREM DrainedAnswersHold ==
  ASSUME PullsAll, RingKept
  PROVE  SpecBi => AnswersSpec
<1>1. InitBi => AInv /\ AllReady /\ Answers!Init
  <2>1. InitBi => AllReady
    BY DEF InitBi, Init, AllReady, Ready
  <2> QED
    BY <2>1, AnswersInit, AnswersStart
<1>2. (IInv \/ Stopped) /\ ((AInv /\ AllReady) \/ Stopped) /\ [NextBi]_allvars
        => ((AInv /\ AllReady) \/ Stopped)' /\ [Answers!Next]_(Answers!vars)
  <2>1. ASSUME IInv, AInv, AllReady, [NextBi]_allvars
        PROVE  ((AInv' /\ AllReady') \/ Stopped') /\ [Answers!Next]_(Answers!vars)
    BY <2>1, AnswersStep, ReadyStarts, ReadyStep
  <2>2. ASSUME Stopped, [NextBi]_allvars
        PROVE  Stopped' /\ [Answers!Next]_(Answers!vars)
    BY <2>2, StoppedStill
  <2> QED
    BY <2>1, <2>2
<1> QED
  BY <1>1, <1>2, Invariant, PTL DEF SpecBi, AnswersSpec, Answers!Spec

-----------------------------------------------------------------------------
(* Biconveyors without a sorter *)

\* The queries of such a biconveyor are all exchanged, so that there are replies.
LEMMA DirectReplied ==
  ASSUME IInv, AInv, bi, ~opt.scatter, AllAt("answer"), \A p \in PE : Unanswered(p) = {}
  PROVE  AllReplied
<1> SUFFICES ASSUME NEW p \in PE, NEW i \in DOMAIN replay[p] PROVE HasReply(p, i)
  BY DEF AllReplied
<1> DEFINE w == replay[p]
           d == w[i]
           n == Number(w, d, Len(w))
           l == Len(got[d][p])
           next == recv[d][p].next
           items == recv[d][p].items
<1>1. w \in Seq(PE) /\ Len(w) \in Nat /\ i \in 1 .. Len(w) /\ d \in PE
  <2>1. w \in Seq(PE) /\ Len(w) \in Nat
    BY AnswersAt
  <2>2. i \in 1 .. Len(w)
    BY <2>1, LenProperties
  <2> QED
    BY <2>1, <2>2, ElementOfSeq
<1>2. Number(w, d, i) \in 1 .. n /\ n \in Nat
  BY <1>1, NumberBound
<1>3. (l - next) + n = pushed[p][d]
  BY <1>1 DEF AInv, Asking, Waiting, Replied
<1>4. /\ at[d] = "answer" /\ at[p] = "answer" /\ Len(send[d][p]) = next
      /\ circle[p] = <<>> /\ Outgoing(p, d) = <<>>
  <2>1. at[d] = "answer" /\ at[p] = "answer"
    BY <1>1 DEF AllAt
  <2>2. Answering(d) /\ Room(p)
    BY <1>1 DEF IInv
  <2>3. Len(send[d][p]) = next
    BY <2>1, <2>2 DEF Answering
  <2> QED
    BY <2>1, <2>2, <2>3 DEF Room, Outgoing
<1>5. pushed[p][d] = (l - next + Len(items)) + Len(<<>>) + Count(<<>>, d, Len(<<>>))
  <2>1. Chain(got[d][p], items, next, <<>>, <<>>, d, pushed[p][d])
    <3>1. ChainOf(p, d)
      BY <1>1 DEF IInv
    <3> QED
      BY <1>4, <3>1 DEF ChainOf
  <2> HIDE DEF l, next, items, d
  <2> QED
    BY <2>1 DEF Chain, l
<1>6. Count(<<>>, d, Len(<<>>)) = 0 /\ Len(<<>>) = 0
  BY CountZero
<1>7. next = Len(items) /\ next \in Nat
  <2>1. ~(next < Len(items))
    BY <1>1 DEF Unanswered
  <2>2. next <= Len(items) /\ next \in Nat /\ Len(items) \in Nat
    BY <1>1, ReadBounds
  <2> HIDE DEF next, items
  <2> QED
    BY <2>1, <2>2
<1>8. l \in Nat
  <2>1. got[d][p] \in Seq(Nat)
    BY <1>1, TypesAt DEF IInv
  <2> QED
    BY <2>1
<1> HIDE DEF n, l, next, items
<1>9. n = next
  BY <1>2, <1>3, <1>5, <1>6, <1>7, <1>8
<1>10. Number(w, d, i) <= Len(send[d][p])
  BY <1>2, <1>4, <1>9
<1> QED
  BY <1>10 DEF HasReply

\* The options of a conveyor stay.
LEMMA OptionsStay ==
  ASSUME [NextBi]_allvars
  PROVE  opt' = opt /\ bi' = bi
<1>1. CASE Step
  <2>1. opt' = opt
    BY <1>1 DEF Step, Push, PushFails, Pull, PullNothing, Unpull, StartAdvance, AgreeNot,
                Exchange, AskExchange, ReplyExchange, Gather, Abort, Answer, FinishBegin, Reset,
                Begin, vars
  <2> QED
    BY <1>1, <2>1 DEF Step
<1>2. CASE Failure
  BY <1>2 DEF Failure, Abort, bivars
<1> QED
  BY <1>1, <1>2, StepOfNext

\* If no biconveyor is built with a sorter, each query has its reply when the replies
\* are gathered: the assertion in bisimple_advance holds, in all sessions that have a
\* clean start.
THEOREM RepliesFound ==
  ASSUME \A o \in BiOptions : ~o.scatter
  PROVE  SpecBi /\ []CleanStart => []RepliesPresent
<1> DEFINE Direct == bi => ~opt.scatter
           Live   == IInv /\ AInv /\ Direct
<1>1. InitBi => Live
  <2>1. InitBi => Direct
    <3> SUFFICES ASSUME InitBi, bi PROVE ~opt.scatter
      OBVIOUS
    <3>1. PICK o \in BiOptions : opt = [o EXCEPT !.steady = TRUE]
      BY DEF InitBi
    <3>2. o \in [scatter : BOOLEAN, steady : BOOLEAN] /\ ~o.scatter
      BY BiAssumption
    <3> QED
      BY <3>1, <3>2
  <2> QED
    BY <2>1, InitInv, AnswersInit
<1>2. CleanStart /\ Live /\ [NextBi]_allvars => Live'
  <2> SUFFICES ASSUME CleanStart, Live, [NextBi]_allvars PROVE Live'
    OBVIOUS
  <2>1. IInv /\ AInv /\ Direct /\ bi \in BOOLEAN
    BY DEF IInv, Types
  <2>2. ~Failure
    <3> SUFFICES ASSUME Failure PROVE FALSE
      OBVIOUS
    <3>1. PICK p \in PE : at[p] = "answer"
      BY Ranks DEF Failure, AllAt
    <3>2. bi
      BY <3>1 DEF IInv, Answering
    <3> QED
      BY <2>1, <3>2, DirectReplied DEF Failure
  <2>3. IInv'
    BY <2>1, <2>2, StepOfNext, StepInv
  <2>4. AInv'
    BY <2>1, <2>2, PlainAnswers, BiconveyorAnswers
  <2>5. Direct'
    BY <2>1, OptionsStay
  <2> QED
    BY <2>3, <2>4, <2>5
<1>3. Live => RepliesPresent
  BY DEF IInv, Types, Standpoint, RepliesPresent
<1> QED
  BY <1>1, <1>2, <1>3, PTL DEF SpecBi
=============================================================================
