---------------------------- MODULE Exstack2Proofs ----------------------------
(***************************************************************************)
(* Exstack2, for every number of PEs, every size of the buffers and every  *)
(* bound.  The first half is its flow control: no buffer and no position   *)
(* of a message queue is written over before it has been read.  The second *)
(* is the data, that it implements FifoLinks: the packages that are in a   *)
(* send buffer, on their way, in a receive buffer and with the client are, *)
(* in this order, the items pushed, none lost, repeated or overtaken.      *)
(***************************************************************************)
EXTENDS Exstack2, FiniteSetTheorems, SequenceTheorems, WellFoundedInduction, TLAPS

-----------------------------------------------------------------------------
(* Powers of two *)

\* What % and \div return.
LEMMA DivMod ==
  ASSUME NEW x \in Nat, NEW n \in Nat \ {0}
  PROVE  /\ x \div n \in Nat /\ x % n \in 0 .. n-1
         /\ x = n * (x \div n) + (x % n)
OBVIOUS

\* A product with a factor of at least one.
LEMMA TimesAtLeast ==
  ASSUME NEW n \in Nat \ {0}, NEW e \in Int, e >= 1
  PROVE  n*e >= n
<1> DEFINE f == e - 1
<1>1. f \in Nat /\ e = f + 1
  OBVIOUS
<1> HIDE DEF f
<1>2. n*f \in Nat
  BY <1>1
<1>3. n*e = n*f + n
  BY <1>1
<1> QED  BY <1>2, <1>3

\* A number smaller than the modulus apart is not congruent.
LEMMA ModApart ==
  ASSUME NEW n \in Nat \ {0}, NEW a \in Nat, NEW b \in Nat,
         a % n = b % n, a <= b, b < a + n
  PROVE  a = b
<1> DEFINE qa == a \div n  qb == b \div n
<1>1. qa \in Nat /\ qb \in Nat /\ a = n*qa + (a % n) /\ b = n*qb + (b % n)
         /\ a % n \in Nat
  <2>1. qa \in Nat /\ a = n*qa + (a % n) /\ a % n \in 0 .. n-1
    BY DivMod
  <2>2. qb \in Nat /\ b = n*qb + (b % n)
    BY DivMod
  <2> QED  BY <2>1, <2>2
<1> HIDE DEF qa, qb
<1>2. b - a = n*(qb - qa)
  <2>1. n*(qb - qa) = n*qb - n*qa
    BY <1>1
  <2>2. n*qb \in Nat /\ n*qa \in Nat
    BY <1>1
  <2> QED  BY <1>1, <2>1, <2>2
<1>3. CASE qb - qa >= 1
  <2>1. n*(qb - qa) >= n
    BY <1>1, <1>3, TimesAtLeast
  <2> QED  BY <2>1, <1>2
<1>4. CASE qb - qa <= 0
  <2>1. qb <= qa
    BY <1>1, <1>4
  <2>2. CASE qb = qa
    BY <2>2, <1>1
  <2>3. CASE qa - qb >= 1
    <3>1. n*(qa - qb) >= n
      BY <1>1, <2>3, TimesAtLeast
    <3>2. n*(qb - qa) = -(n*(qa - qb))
      BY <1>1
    <3> QED  BY <3>1, <3>2, <1>2
  <2> QED  BY <1>1, <2>1, <2>2, <2>3
<1> QED  BY <1>1, <1>3, <1>4

\* Twice a power of two is one.
LEMMA DoublePower ==
  ASSUME NEW n \in Nat \ {0}, PowerOfTwo(n)
  PROVE  PowerOfTwo(2*n)
<1> SUFFICES ASSUME NEW d \in 2 .. 2*n, (2*n) % d = 0, d % 2 # 0
             PROVE  FALSE
  BY DEF PowerOfTwo
<1> DEFINE q == (2*n) \div d  a == d \div 2
<1>1. q \in Nat /\ 2*n = d*q
  <2>1. 2*n \in Nat /\ d \in Nat \ {0}
    OBVIOUS
  <2>2. q \in Nat /\ 2*n = d*q + ((2*n) % d)
    BY <2>1, DivMod
  <2>3. d*q \in Nat
    BY <2>1, <2>2
  <2> QED  BY <2>2, <2>3
<1>2. a \in Nat /\ d = 2*a + 1
  BY DivMod
<1> HIDE DEF q, a
<1>3. PICK b \in Int : q = 2*b
  <2>1. d*q = 2*(a*q) + q
    <3>1. d*q = (2*a + 1)*q
      BY <1>2
    <3>2. (2*a + 1)*q = 2*(a*q) + q
      BY <1>1, <1>2
    <3> QED  BY <3>1, <3>2
  <2>2. a*q \in Int
    BY <1>1, <1>2
  <2>3. q = 2*(n - a*q) /\ n - a*q \in Int
    BY <1>1, <2>1, <2>2
  <2> QED  BY <2>3
<1>4. n = d*b
  <2>1. d*q = 2*(d*b)
    BY <1>3
  <2>2. d*b \in Int
    BY <1>3
  <2> QED  BY <1>1, <2>1, <2>2
<1>5. b >= 1
  BY <1>3, <1>4, <1>1
<1>6. d <= n
  BY <1>4, <1>5
<1>7. n % d = 0
  <2>1. n = d * (n \div d) + (n % d) /\ n % d \in 0 .. d-1 /\ n \div d \in Nat
    <3>1. d \in Nat \ {0}
      OBVIOUS
    <3> QED  BY <3>1, DivMod
  <2> DEFINE c == n \div d  r == n % d
  <2> HIDE DEF c, r
  <2>2. d*b = d*c + r /\ r \in 0 .. d-1 /\ c \in Nat
    BY <2>1, <1>4 DEF c, r
  <2>3. r = d*(b - c)
    BY <2>2
  <2>4. CASE b - c >= 1
    <3>1. d*(b-c) >= d
      BY <2>4, <2>2
    <3> QED  BY <3>1, <2>3, <2>2
  <2>5. CASE b - c <= -1
    <3>1. d*(b-c) <= -d
      BY <2>5, <2>2
    <3> QED  BY <3>1, <2>3, <2>2
  <2>6. CASE b - c = 0
    BY <2>6, <2>3 DEF r
  <2> QED  BY <2>4, <2>5, <2>6, <2>2
<1> QED  BY <1>6, <1>7 DEF PowerOfTwo

\* There is a power of two from 2n up to, but not including, 4n.
LEMMA PowerBetween ==
  \A n \in Nat \ {0} : \E len \in 2*n .. 4*n-1 : PowerOfTwo(len)
<1> DEFINE Bad == {n \in Nat \ {0} : ~\E len \in 2*n .. 4*n-1 : PowerOfTwo(len)}
<1> SUFFICES ASSUME Bad # {} PROVE FALSE
  OBVIOUS
<1>1. PICK n \in Bad : \A m \in Bad : <<m, n>> \notin OpToRel(<, Nat)
  <2>1. Bad \subseteq Nat
    OBVIOUS
  <2> HIDE DEF Bad
  <2> QED  BY <2>1, WFMin, NatLessThanWellFounded, Zenon
<1>2. n \in Nat \ {0} /\ ~\E len \in 2*n .. 4*n-1 : PowerOfTwo(len)
  OBVIOUS
<1>3. n # 1
  <2>1. PowerOfTwo(2)
    BY DEF PowerOfTwo
  <2> QED  BY <2>1, <1>2
<1>4. n-1 \notin Bad
  <2>1. n-1 \in Nat /\ n-1 < n
    BY <1>2
  <2>2. <<n-1, n>> \in OpToRel(<, Nat)
    BY <2>1, <1>2 DEF OpToRel
  <2> HIDE DEF Bad
  <2> QED  BY <2>2, <1>1
<1>5. PICK len \in 2*(n-1) .. 4*(n-1)-1 : PowerOfTwo(len)
  <2>1. n-1 \in Nat \ {0}
    BY <1>2, <1>3
  <2> QED  BY <2>1, <1>4
<1>6. CASE len >= 2*n
  BY <1>6, <1>5, <1>2
<1>7. CASE len < 2*n
  <2>1. PowerOfTwo(2*len)
    BY DoublePower, <1>5, <1>2, <1>3
  <2>2. 2*len \in 2*n .. 4*n-1
    BY <1>7, <1>5, <1>2, <1>3
  <2> QED  BY <2>1, <2>2, <1>2
<1> QED  BY <1>5, <1>6, <1>7, <1>2

\* The queue has a position for every PE, twice over.
LEMMA QueueLenType == QueueLen \in Nat /\ QueueLen >= 2*THREADS /\ QueueLen >= 2
<1>1. \E len \in 2*THREADS .. 4*THREADS-1 : PowerOfTwo(len)
  BY PowerBetween, NAssumption
<1>2. QueueLen \in 2*THREADS .. 4*THREADS-1
  BY <1>1 DEF QueueLen
<1> QED  BY <1>2, NAssumption

-----------------------------------------------------------------------------
(* The inductive invariant *)

\* Where the right of p to send to d may be: with a message on its way, in d's
\* queue, or with an active buffer.
NoteTo(p, d) == \E m \in note[p] : m.to = d
QueuedFrom(p, d) == \E i \in Position : queue[d][i].pe = p
ActiveFrom(p, d) == \E i \in DOMAIN active[d] : active[d][i] = p

\* A buffer holds at most BufCnt packages, and a pop stays inside it.
Bounds ==
  /\ \A p, d \in Thread : Len(snd[p][d]) <= BufCnt
  /\ \A p \in Thread : \A m \in data[p] : Len(m.pkgs) <= BufCnt
  /\ \A p \in Thread : \A m \in note[p] : m.msg.cnt <= BufCnt
  /\ \A r \in Thread : \A i \in Position : queue[r][i].cnt <= BufCnt
  /\ \A r, s \in Thread : pop_ptr[r][s] + pop_cnt[r][s] <= BufCnt

\* A PE has at most one message on its way; the last one is marked.
Notes == \A p \in Thread : \A m \in note[p] :
  /\ \A n \in note[p] : m = n
  /\ m.msg.pe = p
  /\ m.msg.last <=> m.to \notin unflushed[p]

\* A queue holds at most one message of each PE; the last one is marked.
Queued == \A r \in Thread : \A i \in Position : queue[r][i] # Free =>
  /\ queue[r][i].pe \in Thread
  /\ queue[r][i].last <=> r \notin unflushed[queue[r][i].pe]
  /\ \A j \in Position : queue[r][j].pe = queue[r][i].pe => i = j

\* A buffer is active once.
ActiveOnce == \A r \in Thread : \A i, j \in DOMAIN active[r] :
  active[r][i] = active[r][j] => i = j

\* The right of p to send to d is in exactly one place.
Credit == \A p, d \in Thread :
  /\ can_send[p][d] \in {0, 1}
  /\ can_send[p][d] = 1 => ~NoteTo(p, d) /\ ~QueuedFrom(p, d) /\ ~ActiveFrom(p, d)
  /\ can_send[p][d] = 0 => NoteTo(p, d) \/ QueuedFrom(p, d) \/ ActiveFrom(p, d)
  /\ ~(NoteTo(p, d) /\ QueuedFrom(p, d))
  /\ ~(NoteTo(p, d) /\ ActiveFrom(p, d))
  /\ ~(QueuedFrom(p, d) /\ ActiveFrom(p, d))

\* The messages that have been counted but not made active, and their places.
Waiting(r) == num_made_active[r] .. num_msgs[r] - 1
At(k) == k % QueueLen

\* What is not free in the queue has been counted, and a message that has been
\* counted is either in its place or on its way there.
Ring == \A r \in Thread :
  /\ num_made_active[r] <= num_msgs[r]
  /\ num_msgs[r] - num_made_active[r] <= QueueLen
  /\ \A i \in Position : queue[r][i] # Free => \E k \in Waiting(r) : i = At(k)
  /\ \A k \in Waiting(r) : queue[r][At(k)] = Free =>
       \E p \in Thread : \E m \in note[p] : m.to = r /\ m.position = At(k)

\* The position that a message has claimed is free, and its own.
Claimed == \A p \in Thread : \A m \in note[p] : m.position # Unclaimed =>
  /\ queue[m.to][m.position] = Free
  /\ \E k \in Waiting(m.to) : m.position = At(k)
  /\ \A q \in Thread : \A n \in note[q] :
       m.to = n.to /\ m.position = n.position => p = q

\* Every buffer made active is active, or has been popped.
Counts == \A r \in Thread : num_popped[r] + Len(active[r]) = num_made_active[r]

\* The PEs whose last message d has taken from its queue.
DoneSenders(d) == {p \in Thread : d \notin unflushed[p] /\ ~NoteTo(p, d) /\ ~QueuedFrom(p, d)}

\* In a round, num_done_sending counts them.
LastCount == (\A p \in Thread : stage[p] \in {"working", "arrived"}) =>
  \A d \in Thread : num_done_sending[d] = Cardinality(DoneSenders(d))

\* Where exstack2_pop stands, and the active buffer that it pops from.
Popping == \A r \in Thread :
  /\ seen[r] <= num_msgs[r]
  /\ pc[r] # "activate" => seen[r] = 0
  /\ pop_pe[r] # None => /\ current[r] \in 1 .. Len(active[r])
                         /\ active[r][current[r]] = pop_pe[r]
  /\ pc[r] \in {"count", "activate"} => pop_pe[r] = None
  /\ pc[r] \in {"idle", "flush"} /\ pop_pe[r] # None => pop_ptr[r][pop_pe[r]] > 0
  /\ \A s \in Thread : pop_cnt[r][s] > 0 => ActiveFrom(s, r)

\* Where exstack2_flush_needed stands.
Flushing == \A p \in Thread :
  /\ todo[p] \subseteq unflushed[p]
  /\ unflushed[p] # Thread => done[p]
  /\ pc[p] = "flush" => done[p]

\* A PE that is done has nothing left to send or to pop, and one in
\* exstack2_reset() has nothing on its way.
Leaving == \A p \in Thread :
  /\ all_done[p] => /\ unflushed[p] = {} /\ done[p] /\ AllPopped(p)
  /\ stage[p] # "working" => pc[p] = "idle" /\ Settled(p)
  /\ stage[p] \in {"arrived", "clearing"} => all_done[p]

\* Nothing waits at p, and every right to send is back.
Quiet(p) ==
  /\ can_send[p] = [d \in Thread |-> 1]
  /\ queue[p] = [i \in Position |-> Free]
  /\ active[p] = <<>>
  /\ num_popped[p] = num_msgs[p]
  /\ pop_pe[p] = None
  /\ pop_cnt[p] = [s \in Thread |-> 0]

\* The state that a new round starts from.
Cleared(p) ==
  /\ num_done_sending[p] = 0 /\ num_msgs[p] = 0 /\ num_made_active[p] = 0
  /\ num_popped[p] = 0 /\ unflushed[p] = Thread /\ ~all_done[p] /\ ~done[p]

\* All PEs are between the two barriers of exstack2_reset(), or none is.
Stages ==
  \/ \A p \in Thread : stage[p] \in {"working", "arrived"}
  \/ \A p \in Thread : stage[p] \in {"clearing", "cleared"} /\ Quiet(p)
       /\ (stage[p] = "cleared" => Cleared(p))

IInv == TypeOKEx2 /\ Bounds /\ Notes /\ Queued /\ ActiveOnce /\ Credit /\ Ring
  /\ Claimed /\ Counts /\ LastCount /\ Popping /\ Flushing /\ Leaving /\ Stages

-----------------------------------------------------------------------------
(* Types *)

IsPosition(k) == At(k) \in Position /\ At(k) # Unclaimed

LEMMA PositionType == \A k \in Nat : IsPosition(k)
<1> SUFFICES ASSUME NEW k \in Nat PROVE IsPosition(k)
  OBVIOUS
<1>1. QueueLen \in Nat \ {0}
  BY QueueLenType
<1>2. k % QueueLen \in 0 .. QueueLen-1
  BY <1>1, DivMod
<1> QED  BY <1>1, <1>2 DEF IsPosition, At, Position, Unclaimed

LEMMA FreeIsNone == Free.pe = None /\ Free \notin Message /\ None \notin Thread
BY NAssumption DEF Free, Message, None, Thread

\* The types of the entries.
LEMMA Entries ==
  ASSUME TypeOKEx2, NEW p \in Thread, NEW d \in Thread
  PROVE  /\ snd[p][d] \in Seq(Nat) /\ can_send[p][d] \in Nat
         /\ pop_cnt[p][d] \in Nat /\ pop_ptr[p][d] \in Nat
         /\ items_pushed[p][d] \in Nat /\ items_popped[p][d] \in Seq(Nat)
         /\ rcv[p][d] \in [Slot -> Nat]
BY DEF TypeOKEx2

LEMMA PEntries ==
  ASSUME TypeOKEx2, NEW p \in Thread
  PROVE  /\ num_msgs[p] \in Nat /\ num_made_active[p] \in Nat
         /\ num_popped[p] \in Nat /\ num_done_sending[p] \in 0 .. THREADS
         /\ active[p] \in Seq(Thread) /\ current[p] \in Nat
         /\ pop_pe[p] \in Thread \cup {None} /\ seen[p] \in Nat
         /\ unflushed[p] \in SUBSET Thread /\ todo[p] \in SUBSET Thread
         /\ unpops[p] \in Nat /\ ex_round[p] \in Nat
BY DEF TypeOKEx2

LEMMA Notation ==
  ASSUME TypeOKEx2, NEW p \in Thread, NEW m \in note[p]
  PROVE  /\ m \in [to : Thread, position : Position \cup {Unclaimed}, msg : Message]
         /\ m.to \in Thread /\ m.position \in Position \cup {Unclaimed}
         /\ m.msg \in Message
         /\ m.msg.pe \in Thread /\ m.msg.cnt \in Nat /\ m.msg.last \in BOOLEAN
<1>1. m \in [to : Thread, position : Position \cup {Unclaimed}, msg : Message]
  BY DEF TypeOKEx2
<1> QED  BY <1>1 DEF Message

LEMMA Queue ==
  ASSUME TypeOKEx2, NEW r \in Thread, NEW i \in Position
  PROVE  /\ queue[r][i] \in Message \cup {Free}
         /\ queue[r][i] # Free => /\ queue[r][i] \in Message
                                  /\ queue[r][i].pe \in Thread
                                  /\ queue[r][i].cnt \in Nat
         /\ queue[r][i].pe \in Thread => queue[r][i] # Free
<1>1. queue[r][i] \in Message \cup {Free}
  BY DEF TypeOKEx2
<1>2. \A x \in Message : x.pe \in Thread /\ x.cnt \in Nat
  BY DEF Message
<1> QED  BY <1>1, <1>2, FreeIsNone

\* One entry of an array is assigned.
LEMMA OneEntry ==
  ASSUME NEW T, NEW F \in [Thread -> [Thread -> T]], NEW r \in Thread, NEW s \in Thread,
         NEW v \in T
  PROVE  [F EXCEPT ![r][s] = v] \in [Thread -> [Thread -> T]]
OBVIOUS

LEMMA SendTypes ==
  ASSUME TypeOKEx2, Bounds, NEW p \in Thread, NEW d \in Thread, NEW last \in BOOLEAN,
         NEW rest \in Seq(Nat), Send(p, d, last, rest)
  PROVE  /\ snd' \in [Thread -> [Thread -> Seq(Nat)]]
         /\ can_send' \in [Thread -> [Thread -> Nat]]
         /\ data' \in [Thread -> SUBSET [to : Thread, pkgs : Seq(Nat)]]
         /\ note' \in [Thread -> SUBSET [to : Thread, position : Position \cup {Unclaimed},
                         msg : Message]]
<1>1. snd[p][d] \in Seq(Nat) /\ Len(snd[p][d]) \in Nat
  BY DEF TypeOKEx2
<1>2. snd' \in [Thread -> [Thread -> Seq(Nat)]]
  BY DEF TypeOKEx2, Send
<1>3. can_send' \in [Thread -> [Thread -> Nat]]
  BY DEF TypeOKEx2, Send, Spent
<1>4. data' \in [Thread -> SUBSET [to : Thread, pkgs : Seq(Nat)]]
  <2> DEFINE m == [to |-> d, pkgs |-> snd[p][d]]
             T == SUBSET [to : Thread, pkgs : Seq(Nat)]
  <2>1. {m} \in T /\ {} \in T
    BY <1>1
  <2>2. data \in [Thread -> T]
    BY DEF TypeOKEx2
  <2>3. data' = [data EXCEPT ![p] = IF snd[p][d] = <<>> THEN {} ELSE {m}]
    BY DEF Send
  <2> HIDE DEF m, T
  <2>4. data' \in [Thread -> T]
    BY <2>1, <2>2, <2>3
  <2> QED  BY <2>4 DEF T
<1>5. note' \in [Thread -> SUBSET [to : Thread, position : Position \cup {Unclaimed},
                         msg : Message]]
  <2> DEFINE m == [to |-> d, position |-> Unclaimed,
                   msg |-> [pe |-> p, cnt |-> Len(snd[p][d]), last |-> last]]
             T == SUBSET [to : Thread, position : Position \cup {Unclaimed}, msg : Message]
  <2>1. [pe |-> p, cnt |-> Len(snd[p][d]), last |-> last] \in Message
    BY <1>1 DEF Message
  <2>2. {m} \in T
    BY <2>1
  <2>3. note \in [Thread -> T]
    BY DEF TypeOKEx2
  <2>4. note' = [note EXCEPT ![p] = {m}]
    BY DEF Send
  <2> HIDE DEF m, T
  <2>5. note' \in [Thread -> T]
    BY <2>2, <2>3, <2>4
  <2> QED  BY <2>5 DEF T
<1> QED  BY <1>2, <1>3, <1>4, <1>5

\* The two ways a push can go.
Appends(p, d) ==
  /\ Len(snd[p][d]) < BufCnt
  /\ snd' = [snd EXCEPT ![p][d] = Append(@, items_pushed[p][d] + 1)]
  /\ UNCHANGED <<can_send, wires>>

SendsFull(p, d) ==
  /\ Len(snd[p][d]) = BufCnt /\ can_send[p][d] # 0
  /\ Send(p, d, FALSE, <<items_pushed[p][d] + 1>>)

LEMMA PushCases ==
  ASSUME NEW p \in Thread, NEW d \in Thread, PushEx2(p, d)
  PROVE  /\ items_pushed' = [items_pushed EXCEPT ![p][d] = items_pushed[p][d] + 1]
         /\ Appends(p, d) \/ SendsFull(p, d)
         /\ UNCHANGED <<receiver, flush, cycle, unpops, items_popped, all_done, pc>>
         /\ Ready(p) /\ ~done[p]
BY Zenon DEF PushEx2, Appends, SendsFull

LEMMA PushTypes ==
  ASSUME TypeOKEx2, Bounds, NEW p \in Thread, NEW d \in Thread, PushEx2(p, d)
  PROVE  TypeOKEx2'
<1>1. items_pushed[p][d] + 1 \in Nat
  BY Entries
<1>2. items_pushed' \in [Thread -> [Thread -> Nat]]
  <2>1. items_pushed' = [items_pushed EXCEPT ![p][d] = items_pushed[p][d] + 1]
    BY PushCases
  <2> QED  BY <1>1, <2>1 DEF TypeOKEx2
<1>3. UNCHANGED <<receiver, flush, cycle, unpops, items_popped, all_done, pc>>
  BY PushCases
<1>4. /\ snd' \in [Thread -> [Thread -> Seq(Nat)]]
      /\ can_send' \in [Thread -> [Thread -> Nat]]
      /\ data' \in [Thread -> SUBSET [to : Thread, pkgs : Seq(Nat)]]
      /\ note' \in [Thread -> SUBSET [to : Thread, position : Position \cup {Unclaimed},
                         msg : Message]]
      /\ UNCHANGED <<queue, num_msgs>>
  <2>1. CASE Appends(p, d)
    <3> DEFINE item == items_pushed[p][d] + 1
    <3>1. snd' \in [Thread -> [Thread -> Seq(Nat)]]
      <4>1. snd[p][d] \in Seq(Nat)
        BY DEF TypeOKEx2
      <4>3. snd' = [snd EXCEPT ![p][d] = Append(snd[p][d], item)]
        BY <2>1 DEF Appends
      <4>4. item \in Nat
        BY <1>1
      <4> HIDE DEF item
      <4>2. Append(snd[p][d], item) \in Seq(Nat)
        BY <4>1, <4>4
      <4> QED  BY <4>2, <4>3 DEF TypeOKEx2
    <3> QED  BY <3>1, <2>1 DEF TypeOKEx2, wires, Appends
  <2>2. CASE SendsFull(p, d)
    <3> DEFINE rest == <<items_pushed[p][d] + 1>>
    <3>1. rest \in Seq(Nat)
      BY <1>1
    <3>2. Send(p, d, FALSE, rest)
      BY <2>2 DEF SendsFull
    <3> HIDE DEF rest
    <3>3. UNCHANGED <<queue, num_msgs>>
      BY <3>2 DEF Send
    <3> QED  BY <3>1, <3>2, <3>3, SendTypes
  <2> QED  BY <2>1, <2>2, PushCases
<1> QED  BY <1>2, <1>3, <1>4 DEF TypeOKEx2, receiver, flush, cycle

LEMMA FinishTypes ==
  ASSUME TypeOKEx2, NEW p \in Thread, Finish(p)
  PROVE  TypeOKEx2'
BY DEF TypeOKEx2, Finish, sender, receiver, wires, flush, history

LEMMA StartFlushTypes ==
  ASSUME TypeOKEx2, NEW p \in Thread, StartFlush(p)
  PROVE  TypeOKEx2'
BY DEF TypeOKEx2, StartFlush, sender, receiver, wires, cycle, history

LEMMA FlushOneTypes ==
  ASSUME TypeOKEx2, Bounds, NEW p \in Thread, FlushOne(p)
  PROVE  TypeOKEx2'
<1>1. PICK d \in todo[p] :
       /\ IF can_send[p][d] # 0
          THEN Send(p, d, TRUE, <<>>)
          ELSE UNCHANGED <<sender, wires>>
       /\ unflushed' = [unflushed EXCEPT ![p] = Left(p, d)]
       /\ todo' = [todo EXCEPT ![p] = @ \ {d}]
       /\ pc' = [pc EXCEPT ![p] = IF todo[p] = {d} THEN "idle" ELSE "flush"]
  BY Zenon DEF FlushOne
<1>2. d \in Thread
  BY DEF TypeOKEx2
<1>3. /\ unflushed' \in [Thread -> SUBSET Thread]
      /\ todo' \in [Thread -> SUBSET Thread]
      /\ pc' \in [Thread -> {"idle", "again", "count", "activate", "flush"}]
  <2>1. Left(p, d) \in SUBSET Thread
    BY DEF TypeOKEx2, Left
  <2> QED  BY <1>1, <2>1 DEF TypeOKEx2
<1>4. /\ snd' \in [Thread -> [Thread -> Seq(Nat)]]
      /\ can_send' \in [Thread -> [Thread -> Nat]]
      /\ data' \in [Thread -> SUBSET [to : Thread, pkgs : Seq(Nat)]]
      /\ note' \in [Thread -> SUBSET [to : Thread, position : Position \cup {Unclaimed},
                         msg : Message]]
      /\ UNCHANGED <<queue, num_msgs>>
  <2>1. CASE Send(p, d, TRUE, <<>>)
    <3>1. <<>> \in Seq(Nat)
      OBVIOUS
    <3>2. UNCHANGED <<queue, num_msgs>>
      BY <2>1 DEF Send
    <3> QED  BY <2>1, <1>2, <3>1, <3>2, SendTypes
  <2>2. CASE UNCHANGED <<sender, wires>>
    BY <2>2 DEF TypeOKEx2, sender, wires
  <2> QED  BY <1>1, <2>1, <2>2
<1>5. UNCHANGED <<receiver, cycle, history, all_done>>
  BY DEF FlushOne
<1> QED  BY <1>3, <1>4, <1>5 DEF TypeOKEx2, receiver, cycle, history

LEMMA ProceedTypes ==
  ASSUME TypeOKEx2, NEW p \in Thread, Proceed(p)
  PROVE  TypeOKEx2'
BY DEF TypeOKEx2, Proceed, sender, receiver, wires, flush, cycle, history

LEMMA PopItemTypes ==
  ASSUME TypeOKEx2, Bounds, NEW r \in Thread, PopItem(r)
  PROVE  TypeOKEx2'
<1> DEFINE s == pop_pe[r]
           i == pop_ptr[r][s] + 1
<1>1. s \in Thread /\ pop_cnt[r][s] > 0
  <2>1. pop_pe[r] \in Thread \cup {None}
    BY DEF TypeOKEx2
  <2> QED  BY <2>1 DEF PopItem, HasItem
<1>4. /\ items_popped' = [items_popped EXCEPT ![r][s] = Append(@, rcv[r][s][i])]
      /\ pop_ptr' = [pop_ptr EXCEPT ![r][s] = i]
      /\ pop_cnt' = [pop_cnt EXCEPT ![r][s] = @ - 1]
      /\ pc' = [pc EXCEPT ![r] = "idle"]
  BY DEF PopItem
<1> HIDE DEF s
<1>5. /\ pop_ptr[r][s] \in Nat /\ pop_cnt[r][s] \in Nat /\ i \in Nat
      /\ pop_cnt[r][s] - 1 \in Nat
  <2>1. pop_ptr[r][s] \in Nat /\ pop_cnt[r][s] \in Nat
    BY <1>1 DEF TypeOKEx2
  <2> QED  BY <2>1, <1>1
<1>2. i \in Slot
  <2>2. pop_ptr[r][s] + pop_cnt[r][s] <= BufCnt
    BY <1>1 DEF Bounds
  <2> QED  BY <1>5, <2>2, <1>1, BufCntAssumption DEF Slot
<1> HIDE DEF i
<1>3. rcv[r][s][i] \in Nat
  BY <1>1, <1>2 DEF TypeOKEx2
<1>6. items_popped' \in [Thread -> [Thread -> Seq(Nat)]]
  <2>1. items_popped[r][s] \in Seq(Nat)
    BY <1>1 DEF TypeOKEx2
  <2> DEFINE x == rcv[r][s][i]
  <2>2. items_popped' = [items_popped EXCEPT ![r][s] = Append(items_popped[r][s], x)]
    BY <1>4
  <2> HIDE DEF x
  <2>3. Append(items_popped[r][s], x) \in Seq(Nat)
    BY <2>1, <1>3 DEF x
  <2> QED  BY <1>1, <2>2, <2>3 DEF TypeOKEx2
<1>7. /\ pop_ptr' \in [Thread -> [Thread -> Nat]]
      /\ pop_cnt' \in [Thread -> [Thread -> Nat]]
  <2>1. pop_ptr' \in [Thread -> [Thread -> Nat]]
    BY <1>1, <1>4, <1>5 DEF TypeOKEx2
  <2>2. pop_cnt' = [pop_cnt EXCEPT ![r][s] = pop_cnt[r][s] - 1]
    BY <1>4
  <2>3. pop_cnt' \in [Thread -> [Thread -> Nat]]
    BY <1>1, <2>2, <1>5 DEF TypeOKEx2
  <2> QED  BY <2>1, <2>3
<1>8. pc' \in [Thread -> {"idle", "again", "count", "activate", "flush"}]
  BY <1>4 DEF TypeOKEx2
<1>9. UNCHANGED <<sender, rcv, num_made_active, num_popped, num_done_sending,
                 active, current, pop_pe, seen, wires, flush, cycle, unpops, items_pushed,
                 all_done>>
  BY DEF PopItem
<1> QED  BY <1>6, <1>7, <1>8, <1>9 DEF TypeOKEx2, sender, wires, flush, cycle

LEMMA CountMessagesTypes ==
  ASSUME TypeOKEx2, NEW r \in Thread, CountMessages(r)
  PROVE  TypeOKEx2'
<1>1. /\ seen' = [seen EXCEPT ![r] = num_msgs[r]]
      /\ pc' = [pc EXCEPT ![r] = "activate"]
      /\ UNCHANGED <<sender, rcv, num_made_active, num_popped, num_done_sending,
                 active, current, pop_pe, pop_cnt, pop_ptr, wires, flush, cycle,
                 history, all_done>>
  BY DEF CountMessages
<1> QED  BY <1>1 DEF TypeOKEx2, sender, wires, flush, cycle, history

LEMMA PickTypes ==
  ASSUME TypeOKEx2, NEW r \in Thread, Pick(r)
  PROVE  TypeOKEx2'
<1>1. /\ current' \in [Thread -> Nat]
      /\ pop_pe' \in [Thread -> Thread \cup {None}]
      /\ pc' \in [Thread -> {"idle", "again", "count", "activate", "flush"}]
  <2>1. CASE /\ pc' = [pc EXCEPT ![r] = "idle"]
             /\ UNCHANGED <<current, pop_pe>>
    BY <2>1 DEF TypeOKEx2
  <2>2. CASE \E i \in 1 .. Len(active[r]) :
          /\ current' = [current EXCEPT ![r] = i]
          /\ pop_pe'  = [pop_pe EXCEPT ![r] = active[r][i]]
          /\ pc'      = [pc EXCEPT ![r] = "again"]
    <3>1. PICK i \in 1 .. Len(active[r]) :
          /\ current' = [current EXCEPT ![r] = i]
          /\ pop_pe'  = [pop_pe EXCEPT ![r] = active[r][i]]
          /\ pc'      = [pc EXCEPT ![r] = "again"]
      BY <2>2
    <3>2. active[r] \in Seq(Thread)
      BY Zenon DEF TypeOKEx2
    <3>3. i \in Nat /\ active[r][i] \in Thread
      BY <3>2
    <3>4. /\ current \in [Thread -> Nat] /\ pop_pe \in [Thread -> Thread \cup {None}]
          /\ pc \in [Thread -> {"idle", "again", "count", "activate", "flush"}]
      BY Zenon DEF TypeOKEx2
    <3> QED  BY ONLY <3>1, <3>3, <3>4
  <2> QED  BY <2>1, <2>2 DEF Pick
<1>2. /\ seen' = [seen EXCEPT ![r] = 0]
      /\ UNCHANGED <<sender, rcv, num_made_active, num_popped, num_done_sending,
                 active, pop_cnt, pop_ptr, wires, flush, cycle, history,
                 all_done>>
  BY DEF Pick
<1>3. seen' \in [Thread -> Nat]
  BY <1>2 DEF TypeOKEx2
<1> QED  BY <1>1, <1>2, <1>3 DEF TypeOKEx2, sender, wires, flush, cycle, history

LEMMA UnpopTypes ==
  ASSUME TypeOKEx2, Popping, NEW r \in Thread, Unpop(r)
  PROVE  TypeOKEx2'
<1> DEFINE s == pop_pe[r]
<1>1. s \in Thread /\ pc[r] = "idle"
  <2>1. pop_pe[r] \in Thread \cup {None}
    BY DEF TypeOKEx2
  <2> QED  BY <2>1 DEF Unpop, Ready
<1>2. /\ pop_ptr' = [pop_ptr EXCEPT ![r][s] = @ - 1]
      /\ pop_cnt' = [pop_cnt EXCEPT ![r][s] = @ + 1]
      /\ items_popped' = [items_popped EXCEPT ![r][s] = SubSeq(@, 1, Len(@) - 1)]
      /\ pop_pe' = [pop_pe EXCEPT ![r] = None]
      /\ unpops' = [unpops EXCEPT ![r] = @ + 1]
      /\ UNCHANGED <<sender, rcv, num_made_active, num_popped, num_done_sending,
                 active, current, seen, wires, flush, cycle, items_pushed, all_done,
                 pc>>
  BY DEF Unpop
<1>3. pop_ptr[r][s] > 0
  BY <1>1, FreeIsNone DEF Popping
<1> HIDE DEF s
<1>4. pop_ptr' \in [Thread -> [Thread -> Nat]]
  <2>1. pop_ptr[r][s] - 1 \in Nat
    <3>1. pop_ptr[r][s] \in Nat
      BY <1>1 DEF TypeOKEx2
    <3> QED  BY <3>1, <1>3
  <2>2. pop_ptr' = [pop_ptr EXCEPT ![r][s] = pop_ptr[r][s] - 1]
    BY <1>2
  <2> QED  BY <1>1, <2>1, <2>2 DEF TypeOKEx2
<1>5. pop_cnt' \in [Thread -> [Thread -> Nat]]
  <2>1. pop_cnt[r][s] + 1 \in Nat
    BY <1>1, Entries
  <2>3. pop_cnt \in [Thread -> [Thread -> Nat]]
    BY DEF TypeOKEx2
  <2>2. pop_cnt' = [pop_cnt EXCEPT ![r][s] = pop_cnt[r][s] + 1]
    BY <1>2
  <2> QED  BY <1>1, <2>1, <2>2, <2>3, OneEntry
<1>6. items_popped' \in [Thread -> [Thread -> Seq(Nat)]]
  <2> DEFINE rest == SubSeq(items_popped[r][s], 1, Len(items_popped[r][s]) - 1)
  <2>1. items_popped[r][s] \in Seq(Nat)
    BY <1>1 DEF TypeOKEx2
  <2>2. rest \in Seq(Nat)
    <3>1. Len(items_popped[r][s]) \in Nat /\ \A i \in 1 .. Len(items_popped[r][s]) - 1 : items_popped[r][s][i] \in Nat
      BY ONLY <2>1
    <3> QED  BY ONLY <2>1, <3>1, SubSeqProperties
  <2>3. items_popped' = [items_popped EXCEPT ![r][s] = rest]
    BY <1>2
  <2> HIDE DEF rest
  <2> QED  BY <1>1, <2>2, <2>3 DEF TypeOKEx2
<1>7. pop_pe' \in [Thread -> Thread \cup {None}] /\ unpops' \in [Thread -> Nat]
  <2>1. pop_pe \in [Thread -> Thread \cup {None}] /\ unpops \in [Thread -> Nat]
    BY Zenon DEF TypeOKEx2
  <2> QED  BY <1>2, <2>1
<1> QED  BY <1>2, <1>4, <1>5, <1>6, <1>7 DEF TypeOKEx2, sender, wires, flush, cycle

LEMMA PopEmptyTypes ==
  ASSUME TypeOKEx2, Popping, NEW r \in Thread, PopEmpty(r)
  PROVE  TypeOKEx2'
<1> DEFINE s == pop_pe[r]
           last == active[r][Len(active[r])]
           rest == SubSeq([active[r] EXCEPT ![current[r]] = last], 1, Len(active[r]) - 1)
<1>1. s \in Thread
  <2>1. pop_pe[r] \in Thread \cup {None}
    BY DEF TypeOKEx2
  <2> QED  BY <2>1 DEF PopEmpty
<1>2. /\ can_send' = [can_send EXCEPT ![s][r] = @ + 1]
      /\ num_popped' = [num_popped EXCEPT ![r] = @ + 1]
      /\ active' = [active EXCEPT ![r] = rest]
      /\ pop_pe' = [pop_pe EXCEPT ![r] = None]
      /\ pc' = [pc EXCEPT ![r] = "count"]
  BY DEF PopEmpty, Release
<1>3. UNCHANGED <<snd, rcv, num_made_active, num_done_sending, current, pop_cnt,
                 pop_ptr, seen, wires, flush, cycle, history, all_done>>
  BY DEF PopEmpty
<1>4. rest \in Seq(Thread)
  <2>1. active[r] \in Seq(Thread) /\ current[r] \in 1 .. Len(active[r])
    BY <1>1, FreeIsNone DEF TypeOKEx2, Popping
  <2>2. last \in Thread
    BY <2>1
  <2>3. [active[r] EXCEPT ![current[r]] = last] \in Seq(Thread)
    BY <2>1, <2>2
  <2>4. Len([active[r] EXCEPT ![current[r]] = last]) = Len(active[r])
    BY <2>1, <2>2
  <2>5. Len(active[r]) - 1 \in Nat
    BY <2>1
  <2> HIDE DEF last
  <2> QED  BY <2>1, <2>3, <2>4, <2>5
<1> HIDE DEF rest, s
<1>5. can_send' \in [Thread -> [Thread -> Nat]]
  <2>1. can_send[s][r] + 1 \in Nat
    BY <1>1, Entries
  <2>3. can_send \in [Thread -> [Thread -> Nat]]
    BY DEF TypeOKEx2
  <2>2. can_send' = [can_send EXCEPT ![s][r] = can_send[s][r] + 1]
    BY <1>2
  <2> QED  BY <1>1, <2>1, <2>2, <2>3, OneEntry
<1>8. /\ active \in [Thread -> Seq(Thread)] /\ num_popped \in [Thread -> Nat]
      /\ pop_pe \in [Thread -> Thread \cup {None}]
      /\ pc \in [Thread -> {"idle", "again", "count", "activate", "flush"}]
  BY Zenon DEF TypeOKEx2
<1>6. active' \in [Thread -> Seq(Thread)]
  BY <1>2, <1>4, <1>8
<1>7. /\ num_popped' \in [Thread -> Nat]
      /\ pop_pe' \in [Thread -> Thread \cup {None}]
      /\ pc' \in [Thread -> {"idle", "again", "count", "activate", "flush"}]
  BY ONLY <1>2, <1>8
<1> QED  BY <1>3, <1>5, <1>6, <1>7 DEF TypeOKEx2, wires, flush, cycle, history

\* The message that is made active.
LEMMA NextMessageType ==
  ASSUME TypeOKEx2, NEW r \in Thread, NextMessage(r) # Free
  PROVE  /\ At(num_made_active[r]) \in Position
         /\ NextMessage(r) = queue[r][At(num_made_active[r])]
         /\ NextMessage(r) \in Message
<1>1. num_made_active[r] \in Nat
  BY DEF TypeOKEx2
<1>2. At(num_made_active[r]) \in Position
  BY <1>1, PositionType DEF IsPosition
<1>3. NextMessage(r) = queue[r][At(num_made_active[r])]
  BY DEF NextMessage, At
<1>4. queue[r][At(num_made_active[r])] \in Message \cup {Free}
  BY <1>2 DEF TypeOKEx2
<1> QED  BY <1>2, <1>3, <1>4

\* What Activate does with the message.
LEMMA ActivateCases ==
  ASSUME NEW r \in Thread, Activate(r)
  PROVE  /\ pc[r] = "activate" /\ MoreMessages(r)
         /\ num_done_sending' = [num_done_sending EXCEPT ![r] = @ + Lasts(r)]
         /\ IF NextMessage(r).cnt # 0
            THEN /\ pop_cnt' = [pop_cnt EXCEPT ![r][NextMessage(r).pe] = NextMessage(r).cnt]
                 /\ pop_ptr' = [pop_ptr EXCEPT ![r][NextMessage(r).pe] = 0]
            ELSE UNCHANGED <<pop_cnt, pop_ptr>>
         /\ active' = [active EXCEPT ![r] = Append(@, NextMessage(r).pe)]
         /\ num_made_active' = [num_made_active EXCEPT ![r] = @ + 1]
         /\ queue' = [queue EXCEPT ![r][At(num_made_active[r])] = Free]
         /\ UNCHANGED <<sender, rcv, num_popped, current, pop_pe, seen, num_msgs, data,
                 note, flush, cycle, history, all_done, pc>>
BY Zenon DEF Activate, At

\* num_done_sending is bounded by its meaning, in ActivateCount below.
LEMMA ActivateTypes ==
  ASSUME TypeOKEx2, NEW r \in Thread, Activate(r),
         num_done_sending' \in [Thread -> 0 .. THREADS]
  PROVE  TypeOKEx2'
<1> DEFINE m == NextMessage(r)
<1>1. m \in Message
  BY NextMessageType, ActivateCases DEF MoreMessages
<1>2. m.pe \in Thread /\ m.cnt \in Nat
  BY <1>1 DEF Message
<1>3. /\ pop_cnt' \in [Thread -> [Thread -> Nat]]
      /\ pop_ptr' \in [Thread -> [Thread -> Nat]]
  <2>1. CASE m.cnt # 0
    <3>1. /\ pop_cnt' = [pop_cnt EXCEPT ![r][m.pe] = m.cnt]
          /\ pop_ptr' = [pop_ptr EXCEPT ![r][m.pe] = 0]
      BY <2>1, ActivateCases
    <3> HIDE DEF m
    <3> QED  BY <1>2, <3>1 DEF TypeOKEx2
  <2>2. CASE m.cnt = 0
    <3>1. UNCHANGED <<pop_cnt, pop_ptr>>
      BY <2>2, ActivateCases
    <3> QED  BY <3>1 DEF TypeOKEx2
  <2> QED  BY <2>1, <2>2
<1>4. active' \in [Thread -> Seq(Thread)]
  <2>1. active' = [active EXCEPT ![r] = Append(active[r], m.pe)]
    BY ActivateCases
  <2>2. active[r] \in Seq(Thread)
    BY DEF TypeOKEx2
  <2>3. Append(active[r], m.pe) \in Seq(Thread)
    BY <1>2, <2>2
  <2> HIDE DEF m
  <2> QED  BY <2>1, <2>3 DEF TypeOKEx2
<1>5. num_made_active' \in [Thread -> Nat]
  <2>1. num_made_active' = [num_made_active EXCEPT ![r] = @ + 1]
    BY ActivateCases
  <2>2. num_made_active \in [Thread -> Nat]
    BY DEF TypeOKEx2
  <2> HIDE DEF m
  <2> QED  BY ONLY <2>1, <2>2
<1>6. queue' \in [Thread -> [Position -> Message \cup {Free}]]
  <2> DEFINE i == At(num_made_active[r])
  <2>1. queue' = [queue EXCEPT ![r][i] = Free]
    BY ActivateCases
  <2>2. i \in Position
    BY NextMessageType, ActivateCases DEF MoreMessages
  <2> HIDE DEF i
  <2> QED  BY <2>1, <2>2 DEF TypeOKEx2
<1>7. UNCHANGED <<sender, rcv, num_popped, current, pop_pe, seen, num_msgs, data,
                 note, flush, cycle, history, all_done, pc>>
  BY ActivateCases
<1> QED  BY <1>3, <1>4, <1>5, <1>6, <1>7 DEF TypeOKEx2, sender, flush, cycle, history

\* An array from 1 to n is a sequence.
LEMMA ArrayIsSeq ==
  ASSUME NEW n \in Nat, NEW T, NEW f \in [1 .. n -> T]
  PROVE  f \in Seq(T) /\ Len(f) = n
<1>1. f \in Seq(T)
  BY SeqDef
<1>2. DOMAIN f = 1 .. Len(f) /\ Len(f) \in Nat
  BY <1>1, LenProperties
<1>3. 1 .. n = 1 .. Len(f)
  BY <1>2
<1>4. CASE n < Len(f)
  <2>1. Len(f) \in 1 .. Len(f) /\ Len(f) \notin 1 .. n
    BY <1>2, <1>4
  <2> QED  BY <2>1, <1>3
<1>5. CASE Len(f) < n
  <2>1. n \in 1 .. n /\ n \notin 1 .. Len(f)
    BY <1>2, <1>5
  <2> QED  BY <2>1, <1>3
<1> QED  BY <1>1, <1>2, <1>4, <1>5

LEMMA LandDataTypes ==
  ASSUME TypeOKEx2, Bounds, NEW p \in Thread, LandData(p)
  PROVE  TypeOKEx2'
<1>1. PICK m \in data[p] :
        rcv' = [rcv EXCEPT ![m.to][p] = m.pkgs \o SubSeq(@, Len(m.pkgs)+1, BufCnt)]
  BY Zenon DEF LandData
<1>2. m.to \in Thread /\ m.pkgs \in Seq(Nat)
  <2>1. m \in [to : Thread, pkgs : Seq(Nat)]
    BY DEF TypeOKEx2
  <2> QED  BY <2>1
<1>3. Len(m.pkgs) <= BufCnt
  BY DEF Bounds
<1> DEFINE d == m.to
           head == m.pkgs
           old == rcv[d][p]
           rest == SubSeq(old, Len(head)+1, BufCnt)
<1>4. old \in [1 .. BufCnt -> Nat]
  BY <1>2, Entries DEF Slot
<1>5. old \in Seq(Nat) /\ Len(old) = BufCnt
  BY <1>4, BufCntAssumption, ArrayIsSeq
<1>6. head \o rest \in [Slot -> Nat]
  <2> HIDE DEF old, head
  <2>1. head \in Seq(Nat) /\ Len(head) \in Nat /\ Len(head) <= BufCnt
    BY <1>2, <1>3 DEF head
  <2>2. /\ rest \in Seq(Nat)
        /\ Len(rest) = BufCnt - Len(head)
    <3>1. \A i \in Len(head)+1 .. BufCnt : i \in 1 .. Len(old)
      BY <2>1, <1>5
    <3>2. rest \in Seq(Nat)
      BY <1>5, <2>1, <3>1, BufCntAssumption
    <3>3. Len(rest) = IF Len(head)+1 <= BufCnt THEN BufCnt - (Len(head)+1) + 1 ELSE 0
      BY <1>5, <2>1, BufCntAssumption
    <3> QED  BY <3>2, <3>3, <2>1, BufCntAssumption
  <2> HIDE DEF rest
  <2>3. head \o rest \in Seq(Nat) /\ Len(head \o rest) = Len(head) + Len(rest)
    BY ONLY <2>1, <2>2, Zenon, ConcatProperties
  <2>4. Len(head \o rest) = BufCnt
    BY ONLY <2>1, <2>2, <2>3, BufCntAssumption
  <2>5. head \o rest \in [1 .. Len(head \o rest) -> Nat]
    BY <2>3, LenProperties
  <2> QED  BY <2>4, <2>5 DEF Slot
<1>7. rcv' = [rcv EXCEPT ![d][p] = head \o rest]
  BY <1>1
<1> HIDE DEF d, head, rest, old
<1>8. rcv' \in [Thread -> [Thread -> [Slot -> Nat]]]
  <2> DEFINE T == [Slot -> Nat]
             v == head \o rest
  <2>1. rcv \in [Thread -> [Thread -> T]] /\ v \in T /\ d \in Thread
    BY <1>6, <1>2 DEF TypeOKEx2, d
  <2>2. rcv' = [rcv EXCEPT ![d][p] = v]
    BY <1>7
  <2> HIDE DEF T, v
  <2>3. rcv' \in [Thread -> [Thread -> T]]
    BY <2>1, <2>2, OneEntry
  <2> QED  BY <2>3 DEF T
<1>9. data' \in [Thread -> SUBSET [to : Thread, pkgs : Seq(Nat)]]
  <2>1. data' = [data EXCEPT ![p] = {}]
    BY DEF LandData
  <2> QED  BY <2>1 DEF TypeOKEx2
<1>10. UNCHANGED <<sender, num_made_active, num_popped, num_done_sending, active,
                 current, pop_pe, pop_cnt, pop_ptr, seen, queue, num_msgs, note,
                 flush, cycle, history, all_done, pc>>
  BY DEF LandData
<1> QED  BY <1>8, <1>9, <1>10 DEF TypeOKEx2, sender, flush, cycle, history

\* The message of PE p in note[p] claims a position.
Claims(p, m) ==
  /\ m.position = Unclaimed
  /\ note' = [note EXCEPT ![p] =
                {[m EXCEPT !.position = At(num_msgs[m.to])]}]
  /\ num_msgs' = [num_msgs EXCEPT ![m.to] = @ + 1]

LEMMA ClaimCases ==
  ASSUME NEW p \in Thread, Claim(p)
  PROVE  /\ \E m \in note[p] : Claims(p, m)
         /\ Fenced(p)
         /\ UNCHANGED <<sender, receiver, queue, data, flush, cycle, history,
                 all_done, pc>>
BY Zenon DEF Claim, Claims, At

LEMMA ClaimTypes ==
  ASSUME TypeOKEx2, NEW p \in Thread, Claim(p)
  PROVE  TypeOKEx2'
<1>1. PICK m \in note[p] : Claims(p, m)
  BY ClaimCases
<1>2. m.to \in Thread /\ m \in [to : Thread, position : Position \cup {Unclaimed}, msg : Message]
  BY Notation
<1> DEFINE k == num_msgs[m.to]
           n == [m EXCEPT !.position = At(k)]
           T == SUBSET [to : Thread, position : Position \cup {Unclaimed}, msg : Message]
<1>3. At(k) \in Position
  BY <1>2, PEntries, PositionType DEF IsPosition
<1>4. {n} \in T
  <2> HIDE DEF k
  <2>1. n \in [to : Thread, position : Position \cup {Unclaimed}, msg : Message]
    BY <1>2, <1>3
  <2> QED  BY <2>1
<1>5. note' = [note EXCEPT ![p] = {n}]
  BY <1>1 DEF Claims
<1>6. note \in [Thread -> T]
  BY DEF TypeOKEx2
<1>7. note' \in [Thread -> T]
  <2> HIDE DEF T, n
  <2> QED  BY <1>4, <1>5, <1>6
<1>8. num_msgs' \in [Thread -> Nat]
  <2>1. num_msgs' = [num_msgs EXCEPT ![m.to] = num_msgs[m.to] + 1]
    BY <1>1 DEF Claims
  <2>2. num_msgs[m.to] + 1 \in Nat
    BY <1>2, PEntries
  <2>3. num_msgs \in [Thread -> Nat]
    BY DEF TypeOKEx2
  <2> QED  BY <1>2, <2>1, <2>2, <2>3
<1>9. UNCHANGED <<sender, receiver, queue, data, flush, cycle, history,
                 all_done, pc>>
  BY ClaimCases
<1> QED  BY <1>7, <1>8, <1>9 DEF TypeOKEx2, sender, receiver, flush, cycle, history

\* The message m of PE p lands in the queue.
Lands(p, m) ==
  /\ m.position # Unclaimed
  /\ queue' = [queue EXCEPT ![m.to][m.position] = m.msg]
  /\ note' = [note EXCEPT ![p] = {}]

LEMMA LandCases ==
  ASSUME NEW p \in Thread, LandNote(p)
  PROVE  /\ \E m \in note[p] : Lands(p, m)
         /\ UNCHANGED <<sender, receiver, num_msgs, data, flush, cycle, history,
                 all_done, pc>>
BY Zenon DEF LandNote, Lands

LEMMA LandNoteTypes ==
  ASSUME TypeOKEx2, NEW p \in Thread, LandNote(p)
  PROVE  TypeOKEx2'
<1>1. PICK m \in note[p] : Lands(p, m)
  BY LandCases
<1>2. m.to \in Thread /\ m.position \in Position /\ m.msg \in Message
  <2>1. m.position # Unclaimed
    BY <1>1 DEF Lands
  <2> QED  BY Notation, <2>1
<1>3. queue' \in [Thread -> [Position -> Message \cup {Free}]]
  <2> DEFINE T == Message \cup {Free}
             v == m.msg
             i == m.position
             d == m.to
  <2>1. v \in T /\ i \in Position /\ d \in Thread /\ queue \in [Thread -> [Position -> T]]
    BY <1>2 DEF TypeOKEx2
  <2>2. queue' = [queue EXCEPT ![d][i] = v]
    BY <1>1 DEF Lands
  <2> HIDE DEF T, v, i, d
  <2>3. queue' \in [Thread -> [Position -> T]]
    BY <2>1, <2>2
  <2> QED  BY <2>3 DEF T
<1>4. note' \in [Thread -> SUBSET [to : Thread, position : Position \cup {Unclaimed},
                         msg : Message]]
  <2>1. note' = [note EXCEPT ![p] = {}]
    BY <1>1 DEF Lands
  <2> QED  BY <2>1 DEF TypeOKEx2
<1>5. UNCHANGED <<sender, receiver, num_msgs, data, flush, cycle, history,
                 all_done, pc>>
  BY LandCases
<1> QED  BY <1>3, <1>4, <1>5 DEF TypeOKEx2, sender, receiver, flush, cycle, history

LEMMA EnterResetTypes ==
  ASSUME TypeOKEx2, NEW p \in Thread, EnterReset(p)
  PROVE  TypeOKEx2'
<1>1. /\ stage' = [stage EXCEPT ![p] = "arrived"]
      /\ UNCHANGED <<sender, receiver, wires, flush, done, ex_round, history,
                 all_done, pc>>
  BY DEF EnterReset
<1> QED  BY <1>1 DEF TypeOKEx2, sender, receiver, wires, flush, history

LEMMA BarrierTypes ==
  ASSUME TypeOKEx2, FirstBarrier \/ SecondBarrier
  PROVE  TypeOKEx2'
<1>1. /\ stage' = [p \in Thread |-> "clearing"] \/ stage' = [p \in Thread |-> "working"]
      /\ UNCHANGED <<sender, receiver, wires, flush, done, ex_round, history,
                 all_done, pc>>
  BY DEF FirstBarrier, SecondBarrier
<1>2. stage' \in [Thread -> {"working", "arrived", "clearing", "cleared"}]
  BY <1>1
<1> QED  BY <1>1, <1>2 DEF TypeOKEx2, sender, receiver, wires, flush, history

LEMMA ClearTypes ==
  ASSUME TypeOKEx2, NEW p \in Thread, Clear(p)
  PROVE  TypeOKEx2'
<1>1. /\ num_done_sending' \in [Thread -> 0 .. THREADS]
      /\ num_popped' \in [Thread -> Nat] /\ num_msgs' \in [Thread -> Nat]
      /\ num_made_active' \in [Thread -> Nat] /\ current' \in [Thread -> Nat]
  <2>1. 0 \in 0 .. THREADS
    BY NAssumption
  <2>2. num_done_sending \in [Thread -> 0 .. THREADS] /\ num_done_sending' = [num_done_sending EXCEPT ![p] = 0]
    BY DEF TypeOKEx2, Clear
  <2>3. num_done_sending' \in [Thread -> 0 .. THREADS]
    BY <2>1, <2>2
  <2>4. /\ num_popped' \in [Thread -> Nat] /\ num_msgs' \in [Thread -> Nat]
        /\ num_made_active' \in [Thread -> Nat] /\ current' \in [Thread -> Nat]
    BY DEF TypeOKEx2, Clear
  <2> QED  BY <2>3, <2>4
<1>5. active' \in [Thread -> Seq(Thread)]
  BY DEF TypeOKEx2, Clear
<1>2. /\ stage' \in [Thread -> {"working", "arrived", "clearing", "cleared"}]
      /\ done' \in [Thread -> BOOLEAN]
      /\ all_done' \in [Thread -> BOOLEAN]
      /\ unpops' \in [Thread -> Nat]
  BY DEF TypeOKEx2, Clear
<1>6. unflushed' \in [Thread -> SUBSET Thread]
  BY DEF TypeOKEx2, Clear
<1>7. ex_round' \in [Thread -> Nat]
  <2>1. ex_round \in [Thread -> Nat] /\ ex_round' = [ex_round EXCEPT ![p] = ex_round[p] + 1]
    BY DEF TypeOKEx2, Clear
  <2> QED  BY <2>1
<1>8. items_pushed' \in [Thread -> [Thread -> Nat]]
  <2> DEFINE none == [d \in Thread |-> 0]
             T == [Thread -> Nat]
  <2>1. none \in T
    OBVIOUS
  <2>2. items_pushed \in [Thread -> T] /\ items_pushed' = [items_pushed EXCEPT ![p] = none]
    BY DEF TypeOKEx2, Clear
  <2> HIDE DEF none, T
  <2>3. items_pushed' \in [Thread -> T]
    BY <2>1, <2>2
  <2> QED  BY <2>3 DEF T
<1>3. items_popped' \in [Thread -> [Thread -> Seq(Nat)]]
  <2> DEFINE none == [s \in Thread |-> <<>>]
             T == [Thread -> Seq(Nat)]
  <2>1. none \in T
    OBVIOUS
  <2>2. items_popped \in [Thread -> T] /\ items_popped' = [items_popped EXCEPT ![p] = none]
    BY DEF TypeOKEx2, Clear
  <2> HIDE DEF none, T
  <2>3. items_popped' \in [Thread -> T]
    BY <2>1, <2>2
  <2> QED  BY <2>3 DEF T
<1>4. UNCHANGED <<sender, rcv, pop_pe, pop_cnt, pop_ptr, seen, queue, data, note,
                 todo, pc>>
  BY DEF Clear
<1> QED  BY <1>1, <1>2, <1>3, <1>4, <1>5, <1>6, <1>7, <1>8 DEF TypeOKEx2, sender

LEMMA InitTypes == InitEx2 => TypeOKEx2
<1> SUFFICES ASSUME InitEx2 PROVE TypeOKEx2
  OBVIOUS
<1>1. /\ snd \in [Thread -> [Thread -> Seq(Nat)]] /\ items_popped \in [Thread -> [Thread -> Seq(Nat)]]
      /\ active \in [Thread -> Seq(Thread)]
  BY DEF InitEx2
<1>2. queue \in [Thread -> [Position -> Message \cup {Free}]]
  BY DEF InitEx2
<1>3. num_done_sending \in [Thread -> 0 .. THREADS]
  BY NAssumption DEF InitEx2
<1>4. /\ data \in [Thread -> SUBSET [to : Thread, pkgs : Seq(Nat)]]
      /\ note \in [Thread -> SUBSET [to : Thread, position : Position \cup {Unclaimed},
                         msg : Message]]
      /\ unflushed \in [Thread -> SUBSET Thread] /\ todo \in [Thread -> SUBSET Thread]
  BY DEF InitEx2
<1>5. /\ can_send \in [Thread -> [Thread -> Nat]] /\ rcv \in [Thread -> [Thread -> [Slot -> Nat]]]
      /\ pop_cnt \in [Thread -> [Thread -> Nat]] /\ pop_ptr \in [Thread -> [Thread -> Nat]]
      /\ items_pushed \in [Thread -> [Thread -> Nat]]
  BY DEF InitEx2
<1>6. /\ num_msgs \in [Thread -> Nat] /\ num_made_active \in [Thread -> Nat]
      /\ num_popped \in [Thread -> Nat] /\ current \in [Thread -> Nat]
      /\ pop_pe \in [Thread -> Thread \cup {None}] /\ all_done \in [Thread -> BOOLEAN]
      /\ pc \in [Thread -> {"idle", "again", "count", "activate", "flush"}]
      /\ seen \in [Thread -> Nat]
      /\ done \in [Thread -> BOOLEAN]
      /\ stage \in [Thread -> {"working", "arrived", "clearing", "cleared"}]
      /\ ex_round \in [Thread -> Nat] /\ unpops \in [Thread -> Nat]
  BY DEF InitEx2
<1> QED  BY <1>1, <1>2, <1>3, <1>4, <1>5, <1>6 DEF TypeOKEx2

-----------------------------------------------------------------------------
(* Sending a buffer *)

\* PE p, which has nothing on its way, posts the message m to d.
Posts(p, d, m) ==
  /\ Settled(p) /\ can_send[p][d] # 0 /\ d \in unflushed[p]
  /\ can_send' = [can_send EXCEPT ![p][d] = 0]
  /\ note' = [note EXCEPT ![p] = {m}]
  /\ m.to = d /\ m.position = Unclaimed
  /\ m.msg.pe = p /\ m.msg.cnt = Len(snd[p][d])
  /\ m.msg.last <=> d \notin unflushed'[p]
  /\ \A q, e \in Thread : q # p \/ e # d => (e \in unflushed'[q] <=> e \in unflushed[q])
  /\ UNCHANGED <<queue, num_msgs, num_made_active, active, num_done_sending, stage>>

LEMMA PushPosts ==
  ASSUME TypeOKEx2, Flushing, NEW p \in Thread, NEW d \in Thread, PushEx2(p, d), SendsFull(p, d)
  PROVE  \E m : Posts(p, d, m)
<1> DEFINE rest == <<items_pushed[p][d] + 1>>
           m == [to |-> d, position |-> Unclaimed,
                 msg |-> [pe |-> p, cnt |-> Len(snd[p][d]), last |-> FALSE]]
<1>1. Send(p, d, FALSE, rest) /\ can_send[p][d] # 0
  BY DEF SendsFull
<1>2. Ready(p) /\ ~done[p] /\ UNCHANGED <<receiver, flush, cycle>>
  BY PushCases
<1>3. unflushed[p] = Thread
  BY <1>2 DEF Flushing
<1>4. unflushed' = unflushed
  BY <1>2 DEF flush
<1> HIDE DEF rest
<1>5. /\ note' = [note EXCEPT ![p] = {m}]
      /\ can_send' = [can_send EXCEPT ![p][d] = 0]
      /\ UNCHANGED <<queue, num_msgs>>
  BY <1>1 DEF Send, Spent
<1>6. m.msg.last <=> d \notin unflushed'[p]
  BY <1>3, <1>4
<1>7. /\ m.to = d /\ m.position = Unclaimed
      /\ m.msg.pe = p /\ m.msg.cnt = Len(snd[p][d])
  OBVIOUS
<1>8. UNCHANGED <<num_made_active, active, num_done_sending, stage>>
  BY <1>2 DEF receiver, cycle
<1>9. Settled(p)
  BY <1>2 DEF Ready
<1> HIDE DEF m
<1>10. Posts(p, d, m)
  BY <1>1, <1>3, <1>4, <1>5, <1>6, <1>7, <1>8, <1>9 DEF Posts
<1> QED  BY <1>10

\* One pass of the flush loop that sends.
FlushSends(p, d) ==
  /\ can_send[p][d] # 0 /\ Send(p, d, TRUE, <<>>)
  /\ unflushed' = [unflushed EXCEPT ![p] = @ \ {d}]

\* One that does not.
FlushSkips(p, d) ==
  /\ can_send[p][d] = 0 /\ UNCHANGED <<sender, wires, unflushed>>

LEMMA FlushCases ==
  ASSUME TypeOKEx2, NEW p \in Thread, FlushOne(p)
  PROVE  /\ pc[p] = "flush" /\ Settled(p)
         /\ UNCHANGED <<receiver, cycle, history, all_done>>
         /\ \E d \in todo[p] :
              /\ FlushSends(p, d) \/ FlushSkips(p, d)
              /\ todo' = [todo EXCEPT ![p] = @ \ {d}]
              /\ pc' = [pc EXCEPT ![p] = IF todo[p] = {d} THEN "idle" ELSE "flush"]
<1>1. PICK d \in todo[p] :
       /\ IF can_send[p][d] # 0
          THEN Send(p, d, TRUE, <<>>)
          ELSE UNCHANGED <<sender, wires>>
       /\ unflushed' = [unflushed EXCEPT ![p] = Left(p, d)]
       /\ todo' = [todo EXCEPT ![p] = @ \ {d}]
       /\ pc' = [pc EXCEPT ![p] = IF todo[p] = {d} THEN "idle" ELSE "flush"]
  BY Zenon DEF FlushOne
<1>2. /\ pc[p] = "flush" /\ Settled(p)
      /\ UNCHANGED <<receiver, cycle, history, all_done>>
  BY DEF FlushOne
<1>3. CASE can_send[p][d] # 0
  <2>1. Send(p, d, TRUE, <<>>)
    BY <1>1, <1>3, Zenon
  <2>2. unflushed' = [unflushed EXCEPT ![p] = @ \ {d}]
    BY <1>1, <1>3 DEF Left
  <2>3. FlushSends(p, d)
    BY <2>1, <2>2, <1>3, Zenon DEF FlushSends
  <2> QED  BY <2>3, <1>1, <1>2, Zenon
<1>4. CASE can_send[p][d] = 0
  <2>1. UNCHANGED <<sender, wires>>
    BY <1>1, <1>4, Zenon
  <2>2. unflushed' = unflushed
    BY <1>1, <1>4 DEF Left, TypeOKEx2
  <2>3. FlushSkips(p, d)
    BY <2>1, <2>2, <1>4 DEF FlushSkips
  <2> QED  BY <2>3, <1>1, <1>2, Zenon
<1> QED  BY <1>3, <1>4

LEMMA FlushPosts ==
  ASSUME TypeOKEx2, Flushing, NEW p \in Thread, NEW d \in todo[p], Settled(p),
         FlushSends(p, d), UNCHANGED <<receiver, cycle>>
  PROVE  d \in Thread /\ \E m : Posts(p, d, m)
<1> DEFINE m == [to |-> d, position |-> Unclaimed,
                 msg |-> [pe |-> p, cnt |-> Len(snd[p][d]), last |-> TRUE]]
<1>1. /\ can_send[p][d] # 0
      /\ unflushed' = [unflushed EXCEPT ![p] = @ \ {d}]
  BY DEF FlushSends
<1>2. Send(p, d, TRUE, <<>>)
  BY DEF FlushSends
<1>3. d \in unflushed[p] /\ d \in Thread
  BY DEF Flushing, TypeOKEx2
<1>5. /\ note' = [note EXCEPT ![p] = {m}]
      /\ can_send' = [can_send EXCEPT ![p][d] = 0]
      /\ UNCHANGED <<queue, num_msgs>>
  BY <1>2 DEF Send, Spent
<1>4. unflushed \in [Thread -> SUBSET Thread]
  BY DEF TypeOKEx2
<1>6. d \notin unflushed'[p]
  BY <1>1, <1>4
<1>61. m.msg.last <=> d \notin unflushed'[p]
  BY <1>6
<1>7. /\ m.to = d /\ m.position = Unclaimed
      /\ m.msg.pe = p /\ m.msg.cnt = Len(snd[p][d])
  OBVIOUS
<1>8. UNCHANGED <<num_made_active, active, num_done_sending, stage>>
  BY DEF receiver, cycle
<1>9. \A q, e \in Thread : q # p \/ e # d => (e \in unflushed'[q] <=> e \in unflushed[q])
  BY <1>1, <1>4
<1> HIDE DEF m
<1>10. Posts(p, d, m)
  BY <1>1, <1>3, <1>5, <1>61, <1>7, <1>8, <1>9 DEF Posts
<1> QED  BY <1>10, <1>3

-----------------------------------------------------------------------------
(* Where the right to send of a pair is *)

\* Where the right to send of q to e may be, besides with q.
SamePair(q, e) ==
  /\ NoteTo(q, e)' <=> NoteTo(q, e)
  /\ QueuedFrom(q, e)' <=> QueuedFrom(q, e)
  /\ ActiveFrom(q, e)' <=> ActiveFrom(q, e)

LEMMA SamePairs ==
  ASSUME UNCHANGED <<note, queue, active>>
  PROVE  \A q, e \in Thread : SamePair(q, e)
BY DEF SamePair, NoteTo, QueuedFrom, ActiveFrom

LEMMA PostPairs ==
  ASSUME TypeOKEx2, NEW p \in Thread, NEW d \in Thread, NEW m, Posts(p, d, m)
  PROVE  /\ \A q, e \in Thread : q # p \/ e # d => SamePair(q, e)
         /\ NoteTo(p, d)' /\ ~NoteTo(p, d)
         /\ QueuedFrom(p, d)' <=> QueuedFrom(p, d)
         /\ ActiveFrom(p, d)' <=> ActiveFrom(p, d)
<1>1. /\ note[p] = {} /\ note' = [note EXCEPT ![p] = {m}] /\ m.to = d
      /\ UNCHANGED <<queue, active>>
  BY DEF Posts, Settled
<1>2. note'[p] = {m} /\ \A q \in Thread : q # p => note'[q] = note[q]
  BY <1>1 DEF TypeOKEx2
<1>3. \A q, e \in Thread : q # p \/ e # d => (NoteTo(q, e)' <=> NoteTo(q, e))
  <2> TAKE q, e \in Thread
  <2>1. CASE q = p
    BY <2>1, <1>1, <1>2 DEF NoteTo
  <2>2. CASE q # p
    BY <2>2, <1>2 DEF NoteTo
  <2> QED  BY <2>1, <2>2
<1>4. NoteTo(p, d)' /\ ~NoteTo(p, d)
  BY <1>1, <1>2 DEF NoteTo
<1>5. \A q, e \in Thread : QueuedFrom(q, e)' <=> QueuedFrom(q, e)
  BY <1>1 DEF QueuedFrom
<1>6. \A q, e \in Thread : ActiveFrom(q, e)' <=> ActiveFrom(q, e)
  BY <1>1 DEF ActiveFrom
<1> QED  BY <1>3, <1>4, <1>5, <1>6 DEF SamePair

LEMMA ClaimPairs ==
  ASSUME TypeOKEx2, Notes, NEW p \in Thread, NEW m \in note[p], Claims(p, m),
         UNCHANGED <<queue, active>>
  PROVE  \A q, e \in Thread : SamePair(q, e)
<1> DEFINE n == [m EXCEPT !.position = At(num_msgs[m.to])]
<1>1. n.to = m.to
  BY Notation
<1>2. note' = [note EXCEPT ![p] = {n}]
  BY DEF Claims
<1> HIDE DEF n
<1>3. note'[p] = {n} /\ \A q \in Thread : q # p => note'[q] = note[q]
  BY <1>2 DEF TypeOKEx2
<1>4. \A x \in note[p] : x = m
  BY DEF Notes
<1>5. \A q, e \in Thread : NoteTo(q, e)' <=> NoteTo(q, e)
  <2> TAKE q, e \in Thread
  <2>1. CASE q = p
    BY <2>1, <1>1, <1>3, <1>4 DEF NoteTo
  <2>2. CASE q # p
    BY <2>2, <1>3 DEF NoteTo
  <2> QED  BY <2>1, <2>2
<1>6. \A q, e \in Thread : QueuedFrom(q, e)' <=> QueuedFrom(q, e)
  BY DEF QueuedFrom
<1>7. \A q, e \in Thread : ActiveFrom(q, e)' <=> ActiveFrom(q, e)
  BY DEF ActiveFrom
<1> QED  BY <1>5, <1>6, <1>7 DEF SamePair

LEMMA LandPairs ==
  ASSUME TypeOKEx2, Notes, Claimed, NEW p \in Thread, NEW m \in note[p], Lands(p, m),
         UNCHANGED active
  PROVE  /\ \A q, e \in Thread : q # p \/ e # m.to => SamePair(q, e)
         /\ NoteTo(p, m.to) /\ ~NoteTo(p, m.to)' /\ QueuedFrom(p, m.to)'
         /\ ActiveFrom(p, m.to)' <=> ActiveFrom(p, m.to)
<1> DEFINE d == m.to
           i == m.position
           v == m.msg
<1>1. /\ i # Unclaimed
      /\ queue' = [queue EXCEPT ![d][i] = v]
      /\ note' = [note EXCEPT ![p] = {}]
  BY DEF Lands
<1>2. d \in Thread /\ i \in Position /\ v.pe = p
  BY <1>1, Notation DEF Notes
<1>3. queue[d][i] = Free
  BY <1>1 DEF Claimed
<1>4. note'[p] = {} /\ \A q \in Thread : q # p => note'[q] = note[q]
  BY <1>1 DEF TypeOKEx2
<1>5. \A x \in note[p] : x = m
  BY DEF Notes
<1>6. \A q, e \in Thread : q # p \/ e # d => (NoteTo(q, e)' <=> NoteTo(q, e))
  <2> TAKE q, e \in Thread
  <2>1. CASE q = p
    BY <2>1, <1>4, <1>5 DEF NoteTo
  <2>2. CASE q # p
    BY <2>2, <1>4 DEF NoteTo
  <2> QED  BY <2>1, <2>2
<1>7. NoteTo(p, d) /\ ~NoteTo(p, d)'
  BY <1>4 DEF NoteTo
<1> HIDE DEF d, i, v
<1>8. queue'[d][i] = v /\ \A e \in Thread : \A j \in Position :
        e # d \/ j # i => queue'[e][j] = queue[e][j]
  BY <1>1, <1>2 DEF TypeOKEx2
<1>9. QueuedFrom(p, d)'
  BY <1>8, <1>2 DEF QueuedFrom
<1>10. \A q, e \in Thread : q # p \/ e # d => (QueuedFrom(q, e)' <=> QueuedFrom(q, e))
  <2> TAKE q, e \in Thread
  <2> HAVE q # p \/ e # d
  <2>1. CASE e # d
    BY <2>1, <1>8 DEF QueuedFrom
  <2>2. CASE e = d /\ q # p
    <3>1. queue[d][i].pe # q
      BY <1>3, FreeIsNone
    <3>2. queue'[d][i].pe # q
      BY <1>8, <1>2, <2>2
    <3>3. \A j \in Position : queue'[d][j].pe = q <=> queue[d][j].pe = q
      BY <3>1, <3>2, <1>8, <1>2
    <3> QED  BY <3>3, <2>2 DEF QueuedFrom
  <2> QED  BY <2>1, <2>2
<1>11. \A q, e \in Thread : ActiveFrom(q, e)' <=> ActiveFrom(q, e)
  BY DEF ActiveFrom
<1> QED  BY <1>2, <1>6, <1>7, <1>9, <1>10, <1>11 DEF SamePair, d

\* Activate takes a message of s from position i.
Takes(r, s, i) ==
  /\ pc[r] = "activate" /\ num_made_active[r] < seen[r]
  /\ s \in Thread /\ i \in Position /\ i = At(num_made_active[r])
  /\ queue[r][i] \in Message /\ queue[r][i].pe = s
  /\ NextMessage(r) = queue[r][i]
  /\ queue' = [queue EXCEPT ![r][i] = Free]
  /\ active' = [active EXCEPT ![r] = Append(active[r], s)]
  /\ num_made_active' = [num_made_active EXCEPT ![r] = num_made_active[r] + 1]
  /\ UNCHANGED <<sender, rcv, num_popped, current, pop_pe, seen, num_msgs, data,
                 note, flush, cycle, history, all_done, pc>>

LEMMA ActivateTakes ==
  ASSUME TypeOKEx2, NEW r \in Thread, Activate(r)
  PROVE  \E s, i : Takes(r, s, i)
<1> DEFINE s == NextMessage(r).pe
           i == At(num_made_active[r])
<1>1. pc[r] = "activate" /\ num_made_active[r] < seen[r] /\ NextMessage(r) # Free
  BY ActivateCases DEF MoreMessages
<1>2. i \in Position /\ NextMessage(r) = queue[r][i] /\ NextMessage(r) \in Message
  BY <1>1, NextMessageType
<1>3. s \in Thread
  BY <1>2 DEF Message
<1>4. /\ queue' = [queue EXCEPT ![r][i] = Free]
      /\ active' = [active EXCEPT ![r] = Append(active[r], s)]
      /\ num_made_active' = [num_made_active EXCEPT ![r] = num_made_active[r] + 1]
      /\ UNCHANGED <<sender, rcv, num_popped, current, pop_pe, seen, num_msgs, data,
                 note, flush, cycle, history, all_done, pc>>
  BY ActivateCases
<1>5. Takes(r, s, i)
  BY <1>1, <1>2, <1>3, <1>4, Zenon DEF Takes
<1> QED  BY <1>5

LEMMA ActivatePairs ==
  ASSUME TypeOKEx2, Queued, NEW r \in Thread, NEW s, NEW i, Takes(r, s, i)
  PROVE  /\ \A q, e \in Thread : q # s \/ e # r => SamePair(q, e)
         /\ NoteTo(s, r)' <=> NoteTo(s, r)
         /\ QueuedFrom(s, r) /\ ~QueuedFrom(s, r)' /\ ActiveFrom(s, r)'
<1>1. /\ s \in Thread /\ i \in Position
      /\ queue[r][i] # Free /\ queue[r][i].pe = s
  BY FreeIsNone DEF Takes
<1>2. /\ active' = [active EXCEPT ![r] = Append(active[r], s)]
      /\ queue' = [queue EXCEPT ![r][i] = Free]
      /\ note' = note
  BY DEF Takes
<1>3. queue[r][i] # Free /\ queue[r][i].pe = s
  BY <1>1
<1>4. queue'[r][i] = Free /\ \A e \in Thread : \A j \in Position :
        e # r \/ j # i => queue'[e][j] = queue[e][j]
  BY <1>1, <1>2 DEF TypeOKEx2
<1>5. \A j \in Position : queue[r][j].pe = s => i = j
  BY <1>1, <1>3 DEF Queued
<1>6. QueuedFrom(s, r) /\ ~QueuedFrom(s, r)'
  <2>1. QueuedFrom(s, r)
    BY <1>1, <1>3 DEF QueuedFrom
  <2>2. \A j \in Position : queue'[r][j].pe # s
    BY <1>4, <1>5, <1>1, FreeIsNone
  <2> QED  BY <2>1, <2>2 DEF QueuedFrom
<1>7. \A q, e \in Thread : q # s \/ e # r => (QueuedFrom(q, e)' <=> QueuedFrom(q, e))
  <2> TAKE q, e \in Thread
  <2> HAVE q # s \/ e # r
  <2>1. CASE e # r
    BY <2>1, <1>4 DEF QueuedFrom
  <2>2. CASE e = r /\ q # s
    <3>1. \A j \in Position : queue'[r][j].pe = q <=> queue[r][j].pe = q
      BY <2>2, <1>3, <1>4, <1>1, FreeIsNone
    <3> QED  BY <3>1, <2>2 DEF QueuedFrom
  <2> QED  BY <2>1, <2>2
<1>8. active'[r] = Append(active[r], s) /\ \A e \in Thread : e # r => active'[e] = active[e]
  BY <1>2 DEF TypeOKEx2
<1>9. active[r] \in Seq(Thread)
  BY PEntries
<1>10. /\ DOMAIN active'[r] = 1 .. Len(active[r]) + 1 /\ DOMAIN active[r] = 1 .. Len(active[r])
       /\ Len(active[r]) \in Nat
       /\ \A j \in 1 .. Len(active[r]) : active'[r][j] = active[r][j]
       /\ active'[r][Len(active[r]) + 1] = s
  BY <1>8, <1>9, <1>1
<1>11. ActiveFrom(s, r)'
  <2>1. Len(active[r]) + 1 \in DOMAIN active'[r]
    BY <1>10
  <2> QED  BY <2>1, <1>10 DEF ActiveFrom
<1>12. \A q, e \in Thread : q # s \/ e # r => (ActiveFrom(q, e)' <=> ActiveFrom(q, e))
  <2> TAKE q, e \in Thread
  <2> HAVE q # s \/ e # r
  <2>1. CASE e # r
    BY <2>1, <1>8 DEF ActiveFrom
  <2>2. CASE e = r /\ q # s
    <3>1. ASSUME NEW j \in DOMAIN active[r], active[r][j] = q
          PROVE  j \in DOMAIN active'[r] /\ active'[r][j] = q
      BY <3>1, <1>10
    <3>2. ASSUME NEW j \in DOMAIN active'[r], active'[r][j] = q
          PROVE  j \in DOMAIN active[r] /\ active[r][j] = q
      BY <3>2, <1>10, <2>2
    <3> QED  BY <3>1, <3>2, <2>2 DEF ActiveFrom
  <2> QED  BY <2>1, <2>2
<1>13. \A q, e \in Thread : NoteTo(q, e)' <=> NoteTo(q, e)
  BY <1>2 DEF NoteTo
<1> QED  BY <1>1, <1>6, <1>7, <1>11, <1>12, <1>13 DEF SamePair

\* The last element takes the place of the one at c.
Removed(seq, c) == SubSeq([seq EXCEPT ![c] = seq[Len(seq)]], 1, Len(seq) - 1)

LEMMA RemovedFacts ==
  ASSUME NEW T, NEW seq \in Seq(T), NEW c \in 1 .. Len(seq)
  PROVE  /\ Removed(seq, c) \in Seq(T)
         /\ Len(Removed(seq, c)) = Len(seq) - 1
         /\ \A j \in 1 .. Len(seq) - 1 :
              Removed(seq, c)[j] = IF j = c THEN seq[Len(seq)] ELSE seq[j]
<1> DEFINE t == [seq EXCEPT ![c] = seq[Len(seq)]]
<1>1. Len(seq) \in 1 .. Len(seq) /\ Len(seq) \in Nat
  BY LenProperties
<1>2. seq[Len(seq)] \in T
  BY <1>1, ElementOfSeq
<1>3. /\ t \in Seq(T) /\ Len(t) = Len(seq)
      /\ \A j \in 1 .. Len(seq) : t[j] = IF j = c THEN seq[Len(seq)] ELSE seq[j]
  BY <1>2, ExceptSeq
<1> HIDE DEF t
<1>4. \A j \in 1 .. Len(seq) - 1 : t[j] \in T
  BY <1>1, <1>3, ElementOfSeq
<1> DEFINE n == Len(seq) - 1
<1>12. n \in Nat
  BY <1>1
<1>8. \A j \in 1 .. n : t[j] \in T
  BY <1>4
<1> HIDE DEF n
<1>7. n \in Nat /\ 1 \in Int /\ (IF 1 <= n THEN n - 1 + 1 ELSE 0) = n /\ n - 1 + 1 = n
  BY <1>12
<1>9. /\ SubSeq(t, 1, n) \in Seq(T)
      /\ Len(SubSeq(t, 1, n)) = (IF 1 <= n THEN n - 1 + 1 ELSE 0)
      /\ \A j \in 1 .. n - 1 + 1 : SubSeq(t, 1, n)[j] = t[1 + j - 1]
  BY <1>7, <1>8, SubSeqProperties
<1>5. /\ SubSeq(t, 1, n) \in Seq(T)
      /\ Len(SubSeq(t, 1, n)) = n
      /\ \A j \in 1 .. n : SubSeq(t, 1, n)[j] = t[j]
  <2>1. \A j \in 1 .. n : 1 + j - 1 = j
    BY <1>7
  <2> QED  BY <1>7, <1>9, <2>1
<1>6. Removed(seq, c) = SubSeq(t, 1, n)
  BY DEF Removed, t, n
<1>10. \A j \in 1 .. n : j \in 1 .. Len(seq)
  BY <1>1 DEF n
<1>11. \A j \in 1 .. n : Removed(seq, c)[j] = IF j = c THEN seq[Len(seq)] ELSE seq[j]
  BY <1>3, <1>5, <1>6, <1>10
<1> QED  BY <1>5, <1>6, <1>11 DEF n

\* What PopEmpty gives back.
Releases(r, s) ==
  /\ s = pop_pe[r] /\ s \in Thread
  /\ current[r] \in 1 .. Len(active[r]) /\ active[r][current[r]] = s
  /\ can_send' = [can_send EXCEPT ![s][r] = can_send[s][r] + 1]
  /\ num_popped' = [num_popped EXCEPT ![r] = num_popped[r] + 1]
  /\ active' = [active EXCEPT ![r] = Removed(active[r], current[r])]
  /\ pop_pe' = [pop_pe EXCEPT ![r] = None]
  /\ pc' = [pc EXCEPT ![r] = "count"]
  /\ UNCHANGED <<snd, rcv, num_made_active, num_done_sending, current, pop_cnt,
                 pop_ptr, seen, wires, flush, cycle, history, all_done>>

LEMMA PopEmptyReleases ==
  ASSUME TypeOKEx2, Popping, NEW r \in Thread, PopEmpty(r)
  PROVE  AtHead(r) /\ ~HasItem(r) /\ \E s : Releases(r, s)
<1>1. pop_pe[r] \in Thread
  BY PEntries DEF PopEmpty
<1>2. current[r] \in 1 .. Len(active[r]) /\ active[r][current[r]] = pop_pe[r]
  BY <1>1, FreeIsNone DEF Popping
<1>3. /\ can_send' = [can_send EXCEPT ![pop_pe[r]][r] = @ + 1]
      /\ num_popped' = [num_popped EXCEPT ![r] = @ + 1]
      /\ active' = [active EXCEPT ![r] = Removed(active[r], current[r])]
      /\ pop_pe' = [pop_pe EXCEPT ![r] = None]
      /\ pc' = [pc EXCEPT ![r] = "count"]
  BY Zenon DEF PopEmpty, Release, Removed
<1>4. UNCHANGED <<snd, rcv, num_made_active, num_done_sending, current, pop_cnt,
                 pop_ptr, seen, wires, flush, cycle, history, all_done>>
  BY DEF PopEmpty
<1>5. AtHead(r) /\ ~HasItem(r)
  BY DEF PopEmpty
<1>6. Releases(r, pop_pe[r])
  BY <1>1, <1>2, <1>3, <1>4, Zenon DEF Releases
<1> QED  BY <1>5, <1>6

LEMMA ReleasePairs ==
  ASSUME TypeOKEx2, ActiveOnce, NEW r \in Thread, NEW s, Releases(r, s)
  PROVE  /\ \A q, e \in Thread : q # s \/ e # r => SamePair(q, e)
         /\ NoteTo(s, r)' <=> NoteTo(s, r)
         /\ QueuedFrom(s, r)' <=> QueuedFrom(s, r)
         /\ ActiveFrom(s, r) /\ ~ActiveFrom(s, r)'
<1> DEFINE c == current[r]
           seq == active[r]
<1>1. /\ c \in 1 .. Len(seq) /\ seq[c] = s /\ s \in Thread
      /\ active' = [active EXCEPT ![r] = Removed(seq, c)]
      /\ note' = note /\ queue' = queue
  BY DEF Releases, wires
<1>2. seq \in Seq(Thread) /\ DOMAIN seq = 1 .. Len(seq) /\ Len(seq) \in Nat
  BY PEntries, LenProperties
<1>3. \A i, j \in DOMAIN seq : seq[i] = seq[j] => i = j
  BY DEF ActiveOnce
<1>4. active'[r] = Removed(seq, c) /\ \A e \in Thread : e # r => active'[e] = active[e]
  BY <1>1 DEF TypeOKEx2
<1>5. active[r] = seq
  OBVIOUS
<1> HIDE DEF c, seq
<1>6. /\ active'[r] \in Seq(Thread)
      /\ Len(active'[r]) = Len(seq) - 1
      /\ \A j \in 1 .. Len(seq) - 1 : active'[r][j] = IF j = c THEN seq[Len(seq)] ELSE seq[j]
  <2>1. /\ Removed(seq, c) \in Seq(Thread)
        /\ Len(Removed(seq, c)) = Len(seq) - 1
        /\ \A j \in 1 .. Len(seq) - 1 :
              Removed(seq, c)[j] = IF j = c THEN seq[Len(seq)] ELSE seq[j]
    BY <1>1, <1>2, RemovedFacts
  <2> QED  BY <2>1, <1>4, Zenon
<1>7. DOMAIN active'[r] = 1 .. Len(seq) - 1
  BY <1>6, LenProperties
<1>8. ~ActiveFrom(s, r)'
  <2> SUFFICES ASSUME NEW j \in 1 .. Len(seq) - 1, active'[r][j] = s PROVE FALSE
    BY <1>7 DEF ActiveFrom
  <2>1. j \in DOMAIN seq /\ Len(seq) \in DOMAIN seq /\ c \in DOMAIN seq /\ j # Len(seq)
    BY <1>1, <1>2
  <2>2. CASE j = c
    <3>1. seq[Len(seq)] = s
      BY <1>6, <2>2
    <3>2. Len(seq) = c
      BY <3>1, <1>1, <1>3, <2>1
    <3> QED  BY <3>2, <2>1, <2>2
  <2>3. CASE j # c
    <3>1. seq[j] = s
      BY <1>6, <2>3
    <3> QED  BY <3>1, <1>1, <1>3, <2>1, <2>3
  <2> QED  BY <2>2, <2>3
<1>9. ActiveFrom(s, r)
  BY <1>1, <1>2, <1>5 DEF ActiveFrom
<1>10. \A q, e \in Thread : q # s \/ e # r => (ActiveFrom(q, e)' <=> ActiveFrom(q, e))
  <2> TAKE q, e \in Thread
  <2> HAVE q # s \/ e # r
  <2>1. CASE e # r
    BY <2>1, <1>4 DEF ActiveFrom
  <2>2. CASE e = r /\ q # s
    <3>1. ASSUME NEW j \in DOMAIN seq, seq[j] = q
          PROVE  \E k \in DOMAIN active'[r] : active'[r][k] = q
      <4>1. j # c
        BY <3>1, <1>1, <2>2
      <4>2. CASE j = Len(seq)
        <5>1. c \in 1 .. Len(seq) - 1
          BY <4>1, <4>2, <1>1, <1>2
        <5>2. active'[r][c] = q
          BY <5>1, <1>6, <4>2, <3>1
        <5> QED  BY <5>1, <5>2, <1>7
      <4>3. CASE j # Len(seq)
        <5>1. j \in 1 .. Len(seq) - 1
          BY <4>3, <1>2
        <5>2. active'[r][j] = q
          BY <5>1, <4>1, <1>6, <3>1
        <5> QED  BY <5>1, <5>2, <1>7
      <4> QED  BY <4>2, <4>3
    <3>2. ASSUME NEW j \in DOMAIN active'[r], active'[r][j] = q
          PROVE  \E k \in DOMAIN seq : seq[k] = q
      <4>1. j \in 1 .. Len(seq) - 1
        BY <1>7
      <4>4. q = IF j = c THEN seq[Len(seq)] ELSE seq[j]
        BY <4>1, <1>6, <3>2, Zenon
      <4>5. j \in DOMAIN seq /\ Len(seq) \in DOMAIN seq
        BY <4>1, <1>2
      <4>2. CASE j = c
        BY <4>2, <4>4, <4>5
      <4>3. CASE j # c
        BY <4>3, <4>4, <4>5
      <4> QED  BY <4>2, <4>3
    <3> QED  BY <3>1, <3>2, <2>2, <1>5 DEF ActiveFrom
  <2> QED  BY <2>1, <2>2
<1>11. \A q, e \in Thread : /\ NoteTo(q, e)' <=> NoteTo(q, e)
                            /\ QueuedFrom(q, e)' <=> QueuedFrom(q, e)
  BY <1>1 DEF NoteTo, QueuedFrom
<1> QED  BY <1>1, <1>8, <1>9, <1>10, <1>11 DEF SamePair

-----------------------------------------------------------------------------
(* Credit, Notes and Queued *)

CreditOf(p, d) ==
  /\ can_send[p][d] \in {0, 1}
  /\ can_send[p][d] = 1 => ~NoteTo(p, d) /\ ~QueuedFrom(p, d) /\ ~ActiveFrom(p, d)
  /\ can_send[p][d] = 0 => NoteTo(p, d) \/ QueuedFrom(p, d) \/ ActiveFrom(p, d)
  /\ ~(NoteTo(p, d) /\ QueuedFrom(p, d))
  /\ ~(NoteTo(p, d) /\ ActiveFrom(p, d))
  /\ ~(QueuedFrom(p, d) /\ ActiveFrom(p, d))

LEMMA CreditNow ==
  ASSUME Credit, NEW p \in Thread, NEW d \in Thread
  PROVE  CreditOf(p, d)
BY DEF Credit, CreditOf

LEMMA SameCredit ==
  ASSUME Credit, NEW p \in Thread, NEW d \in Thread, SamePair(p, d),
         can_send'[p][d] = can_send[p][d]
  PROVE  CreditOf(p, d)'
<1>1. CreditOf(p, d)
  BY CreditNow
<1> QED  BY <1>1 DEF CreditOf, SamePair

\* All rights to send but the one of s to r stay where they are.
LEMMA CreditStep ==
  ASSUME Credit, NEW s \in Thread, NEW r \in Thread,
         \A q, e \in Thread : q # s \/ e # r =>
           SamePair(q, e) /\ can_send'[q][e] = can_send[q][e],
         CreditOf(s, r)'
  PROVE  Credit'
<1>1. \A q, e \in Thread : CreditOf(q, e)'
  <2> TAKE q, e \in Thread
  <2>1. CASE q = s /\ e = r
    BY <2>1
  <2>2. CASE q # s \/ e # r
    <3>1. SamePair(q, e) /\ can_send'[q][e] = can_send[q][e]
      BY <2>2
    <3> QED  BY <3>1, SameCredit
  <2> QED  BY <2>1, <2>2
<1> QED  BY <1>1 DEF Credit, CreditOf

LEMMA PostCredit ==
  ASSUME TypeOKEx2, Credit, NEW p \in Thread, NEW d \in Thread, NEW m, Posts(p, d, m)
  PROVE  Credit'
<1>1. \A q, e \in Thread : q # p \/ e # d => SamePair(q, e)
  BY PostPairs
<1>2. /\ NoteTo(p, d)' /\ ~NoteTo(p, d)
      /\ QueuedFrom(p, d)' <=> QueuedFrom(p, d)
      /\ ActiveFrom(p, d)' <=> ActiveFrom(p, d)
  BY PostPairs
<1>3. can_send' = [can_send EXCEPT ![p][d] = 0] /\ can_send[p][d] # 0
  BY DEF Posts
<1>4. can_send'[p][d] = 0 /\ \A q, e \in Thread : q # p \/ e # d => can_send'[q][e] = can_send[q][e]
  BY <1>3 DEF TypeOKEx2
<1>5. CreditOf(p, d)
  BY CreditNow
<1>6. CreditOf(p, d)'
  BY <1>2, <1>3, <1>4, <1>5 DEF CreditOf
<1> QED  BY <1>1, <1>4, <1>6, CreditStep

LEMMA ClaimCredit ==
  ASSUME TypeOKEx2, Notes, Credit, NEW p \in Thread, NEW m \in note[p], Claims(p, m),
         UNCHANGED <<queue, active, can_send>>
  PROVE  Credit'
<1>1. \A q, e \in Thread : SamePair(q, e)
  BY ClaimPairs
<1>2. \A q, e \in Thread : CreditOf(q, e)'
  BY <1>1, SameCredit
<1> QED  BY <1>2 DEF Credit, CreditOf

LEMMA LandCredit ==
  ASSUME TypeOKEx2, Notes, Claimed, Credit, NEW p \in Thread, NEW m \in note[p], Lands(p, m),
         UNCHANGED <<active, can_send>>
  PROVE  Credit'
<1>1. /\ \A q, e \in Thread : q # p \/ e # m.to => SamePair(q, e)
      /\ NoteTo(p, m.to) /\ ~NoteTo(p, m.to)' /\ QueuedFrom(p, m.to)'
      /\ ActiveFrom(p, m.to)' <=> ActiveFrom(p, m.to)
  BY LandPairs
<1>2. m.to \in Thread
  BY Notation
<1>3. CreditOf(p, m.to)
  BY <1>2, CreditNow
<1>4. CreditOf(p, m.to)'
  BY <1>1, <1>3 DEF CreditOf
<1> QED  BY <1>1, <1>2, <1>4, CreditStep

LEMMA ActivateCredit ==
  ASSUME TypeOKEx2, Queued, Credit, NEW r \in Thread, NEW s, NEW i, Takes(r, s, i)
  PROVE  Credit'
<1>1. /\ \A q, e \in Thread : q # s \/ e # r => SamePair(q, e)
      /\ NoteTo(s, r)' <=> NoteTo(s, r)
      /\ QueuedFrom(s, r) /\ ~QueuedFrom(s, r)' /\ ActiveFrom(s, r)'
  BY ActivatePairs
<1>2. s \in Thread /\ can_send' = can_send
  BY DEF Takes, sender
<1>3. CreditOf(s, r)
  BY <1>2, CreditNow
<1>4. CreditOf(s, r)'
  BY <1>1, <1>2, <1>3 DEF CreditOf
<1> QED  BY <1>1, <1>2, <1>4, CreditStep

LEMMA ReleaseCredit ==
  ASSUME TypeOKEx2, ActiveOnce, Credit, NEW r \in Thread, NEW s, Releases(r, s)
  PROVE  Credit'
<1>1. /\ \A q, e \in Thread : q # s \/ e # r => SamePair(q, e)
      /\ NoteTo(s, r)' <=> NoteTo(s, r)
      /\ QueuedFrom(s, r)' <=> QueuedFrom(s, r)
      /\ ActiveFrom(s, r) /\ ~ActiveFrom(s, r)'
  BY ReleasePairs
<1>2. s \in Thread /\ can_send' = [can_send EXCEPT ![s][r] = can_send[s][r] + 1]
  BY DEF Releases
<1>3. /\ can_send'[s][r] = can_send[s][r] + 1
      /\ \A q, e \in Thread : q # s \/ e # r => can_send'[q][e] = can_send[q][e]
  BY <1>2 DEF TypeOKEx2
<1>4. CreditOf(s, r)
  BY <1>2, CreditNow
<1>5. can_send[s][r] = 0
  BY <1>1, <1>4 DEF CreditOf
<1>6. can_send'[s][r] = 1
  BY <1>3, <1>5
<1>7. CreditOf(s, r)'
  BY <1>1, <1>4, <1>6 DEF CreditOf
<1> QED  BY <1>1, <1>2, <1>3, <1>7, CreditStep

LEMMA SameCreditAll ==
  ASSUME Credit, UNCHANGED <<can_send, note, queue, active>>
  PROVE  Credit'
BY DEF Credit, NoteTo, QueuedFrom, ActiveFrom

-----------------------------------------------------------------------------
(* Notes and Queued *)

LEMMA PostNotes ==
  ASSUME TypeOKEx2, Notes, NEW p \in Thread, NEW d \in Thread, NEW m, Posts(p, d, m)
  PROVE  Notes'
<1>1. /\ note' = [note EXCEPT ![p] = {m}] /\ m.to = d /\ m.msg.pe = p
      /\ m.msg.last <=> d \notin unflushed'[p]
      /\ \A q, e \in Thread : q # p \/ e # d => (e \in unflushed'[q] <=> e \in unflushed[q])
  BY DEF Posts
<1>2. note'[p] = {m} /\ \A q \in Thread : q # p => note'[q] = note[q]
  BY <1>1 DEF TypeOKEx2
<1>3. ASSUME NEW q \in Thread, NEW x \in note'[q]
      PROVE  /\ \A n \in note'[q] : x = n
             /\ x.msg.pe = q
             /\ x.msg.last <=> x.to \notin unflushed'[q]
  <2>1. CASE q = p
    BY <2>1, <1>1, <1>2, <1>3
  <2>2. CASE q # p
    <3>1. x \in note[q] /\ note'[q] = note[q]
      BY <2>2, <1>2, <1>3
    <3>2. x.to \in Thread
      BY <3>1, Notation
    <3>3. x.to \in unflushed'[q] <=> x.to \in unflushed[q]
      BY <1>1, <2>2, <3>2
    <3>4. /\ \A n \in note[q] : x = n
          /\ x.msg.pe = q
          /\ x.msg.last <=> x.to \notin unflushed[q]
      BY <3>1 DEF Notes
    <3> QED  BY <3>1, <3>3, <3>4
  <2> QED  BY <2>1, <2>2
<1> QED  BY <1>3 DEF Notes

LEMMA PostQueued ==
  ASSUME TypeOKEx2, Credit, Queued, NEW p \in Thread, NEW d \in Thread, NEW m, Posts(p, d, m)
  PROVE  Queued'
<1>1. /\ can_send[p][d] # 0 /\ queue' = queue
      /\ \A q, e \in Thread : q # p \/ e # d => (e \in unflushed'[q] <=> e \in unflushed[q])
  BY DEF Posts
<1>2. ~QueuedFrom(p, d)
  <2>1. CreditOf(p, d)
    BY CreditNow
  <2> QED  BY <2>1, <1>1 DEF CreditOf
<1>3. ASSUME NEW r \in Thread, NEW i \in Position, queue[r][i] # Free
      PROVE  /\ queue[r][i].pe \in Thread
             /\ queue[r][i].last <=> r \notin unflushed'[queue[r][i].pe]
             /\ \A j \in Position : queue[r][j].pe = queue[r][i].pe => i = j
  <2>1. /\ queue[r][i].pe \in Thread
        /\ queue[r][i].last <=> r \notin unflushed[queue[r][i].pe]
        /\ \A j \in Position : queue[r][j].pe = queue[r][i].pe => i = j
    BY <1>3 DEF Queued
  <2>2. queue[r][i].pe # p \/ r # d
    BY <1>2 DEF QueuedFrom
  <2>3. r \in unflushed'[queue[r][i].pe] <=> r \in unflushed[queue[r][i].pe]
    BY <1>1, <2>1, <2>2
  <2> QED  BY <2>1, <2>3
<1> QED  BY <1>1, <1>3 DEF Queued

LEMMA ClaimNotes ==
  ASSUME TypeOKEx2, Notes, NEW p \in Thread, NEW m \in note[p], Claims(p, m),
         UNCHANGED unflushed
  PROVE  Notes'
<1> DEFINE n == [m EXCEPT !.position = At(num_msgs[m.to])]
<1>1. n.to = m.to /\ n.msg = m.msg
  BY Notation
<1>2. note' = [note EXCEPT ![p] = {n}]
  BY DEF Claims
<1> HIDE DEF n
<1>3. note'[p] = {n} /\ \A q \in Thread : q # p => note'[q] = note[q]
  BY <1>2 DEF TypeOKEx2
<1>4. ASSUME NEW q \in Thread, NEW x \in note'[q]
      PROVE  /\ \A y \in note'[q] : x = y
             /\ x.msg.pe = q
             /\ x.msg.last <=> x.to \notin unflushed[q]
  <2>1. CASE q = p
    <3>1. x = n /\ \A y \in note'[q] : x = y
      BY <2>1, <1>3
    <3>2. m.msg.pe = p /\ (m.msg.last <=> m.to \notin unflushed[p])
      BY DEF Notes
    <3> QED  BY <2>1, <3>1, <3>2, <1>1
  <2>2. CASE q # p
    <3>1. note'[q] = note[q]
      BY <2>2, <1>3
    <3> QED  BY <3>1 DEF Notes
  <2> QED  BY <2>1, <2>2
<1> QED  BY <1>4 DEF Notes

LEMMA LandNotes ==
  ASSUME TypeOKEx2, Notes, NEW p \in Thread, NEW m \in note[p], Lands(p, m),
         UNCHANGED unflushed
  PROVE  Notes'
<1>1. note'[p] = {} /\ \A q \in Thread : q # p => note'[q] = note[q]
  BY DEF TypeOKEx2, Lands
<1>2. ASSUME NEW q \in Thread, NEW x \in note'[q]
      PROVE  /\ \A y \in note'[q] : x = y
             /\ x.msg.pe = q
             /\ x.msg.last <=> x.to \notin unflushed[q]
  <2>1. note'[q] = note[q]
    BY <1>1, <1>2
  <2> QED  BY <2>1 DEF Notes
<1> QED  BY <1>2 DEF Notes

LEMMA LandQueued ==
  ASSUME TypeOKEx2, Notes, Queued, Credit, Claimed, NEW p \in Thread, NEW m \in note[p],
         Lands(p, m), UNCHANGED unflushed
  PROVE  Queued'
<1> DEFINE d == m.to
           i == m.position
           v == m.msg
<1>1. /\ i # Unclaimed
      /\ queue' = [queue EXCEPT ![d][i] = v]
  BY DEF Lands
<1>2. d \in Thread /\ i \in Position /\ v.pe = p /\ (v.last <=> d \notin unflushed[p])
  BY <1>1, Notation DEF Notes
<1>3. ~QueuedFrom(p, d)
  <2>1. NoteTo(p, d)
    BY DEF NoteTo
  <2>2. CreditOf(p, d)
    BY <1>2, CreditNow
  <2> QED  BY <2>1, <2>2 DEF CreditOf
<1> HIDE DEF d, i, v
<1>4. queue'[d][i] = v /\ \A e \in Thread : \A j \in Position :
        e # d \/ j # i => queue'[e][j] = queue[e][j]
  BY <1>1, <1>2 DEF TypeOKEx2
<1>5. ASSUME NEW r \in Thread, NEW k \in Position, queue'[r][k] # Free
      PROVE  /\ queue'[r][k].pe \in Thread
             /\ queue'[r][k].last <=> r \notin unflushed[queue'[r][k].pe]
             /\ \A j \in Position : queue'[r][j].pe = queue'[r][k].pe => k = j
  <2>1. CASE r = d /\ k = i
    <3>1. queue'[r][k] = v
      BY <2>1, <1>4
    <3>2. \A j \in Position : j # i => queue'[d][j].pe # p
      BY <1>2, <1>3, <1>4 DEF QueuedFrom
    <3> QED  BY <3>1, <3>2, <2>1, <1>2
  <2>2. CASE r # d \/ k # i
    <3>1. queue'[r][k] = queue[r][k]
      BY <2>2, <1>4
    <3>2. /\ queue[r][k].pe \in Thread
          /\ queue[r][k].last <=> r \notin unflushed[queue[r][k].pe]
          /\ \A j \in Position : queue[r][j].pe = queue[r][k].pe => k = j
      BY <3>1, <1>5 DEF Queued
    <3>3. ASSUME NEW j \in Position, queue'[r][j].pe = queue'[r][k].pe
          PROVE  k = j
      <4>1. CASE r = d /\ j = i
        <5>1. queue[r][k].pe = p
          BY <3>1, <3>3, <4>1, <1>4, <1>2
        <5> QED  BY <5>1, <4>1, <1>3 DEF QueuedFrom
      <4>2. CASE r # d \/ j # i
        <5>1. queue'[r][j] = queue[r][j]
          BY <4>2, <1>4
        <5> QED  BY <5>1, <3>1, <3>2, <3>3
      <4> QED  BY <4>1, <4>2
    <3> QED  BY <3>1, <3>2, <3>3
  <2> QED  BY <2>1, <2>2
<1> QED  BY <1>5 DEF Queued

LEMMA ActivateQueued ==
  ASSUME TypeOKEx2, Queued, NEW r \in Thread, NEW s, NEW i, Takes(r, s, i)
  PROVE  Queued'
<1>1. /\ r \in Thread /\ i \in Position
      /\ queue' = [queue EXCEPT ![r][i] = Free]
      /\ unflushed' = unflushed
  BY DEF Takes, flush
<1>2. queue'[r][i] = Free /\ \A e \in Thread : \A j \in Position :
        e # r \/ j # i => queue'[e][j] = queue[e][j]
  BY <1>1 DEF TypeOKEx2
<1>3. ASSUME NEW e \in Thread, NEW k \in Position, queue'[e][k] # Free
      PROVE  /\ queue'[e][k].pe \in Thread
             /\ queue'[e][k].last <=> e \notin unflushed[queue'[e][k].pe]
             /\ \A j \in Position : queue'[e][j].pe = queue'[e][k].pe => k = j
  <2>1. e # r \/ k # i
    BY <1>2, <1>3
  <2>2. queue'[e][k] = queue[e][k]
    BY <2>1, <1>2
  <2>3. /\ queue[e][k].pe \in Thread
        /\ queue[e][k].last <=> e \notin unflushed[queue[e][k].pe]
        /\ \A j \in Position : queue[e][j].pe = queue[e][k].pe => k = j
    BY <2>2, <1>3 DEF Queued
  <2>4. \A j \in Position : queue'[e][j].pe = queue'[e][k].pe => k = j
    <3> TAKE j \in Position
    <3>1. CASE e = r /\ j = i
      BY <3>1, <1>2, <2>2, <2>3, FreeIsNone
    <3>2. CASE e # r \/ j # i
      <4>1. queue'[e][j] = queue[e][j]
        BY <3>2, <1>2
      <4> QED  BY <4>1, <2>2, <2>3
    <3> QED  BY <3>1, <3>2
  <2> QED  BY <2>2, <2>3, <2>4
<1> QED  BY <1>1, <1>3 DEF Queued

-----------------------------------------------------------------------------
(* ActiveOnce, Counts and the positions of a queue *)

LEMMA ActivateOnce ==
  ASSUME TypeOKEx2, Queued, Credit, ActiveOnce, NEW r \in Thread, NEW s, NEW i, Takes(r, s, i)
  PROVE  ActiveOnce'
<1>1. /\ s \in Thread /\ i \in Position /\ queue[r][i].pe = s
      /\ active' = [active EXCEPT ![r] = Append(active[r], s)]
  BY DEF Takes
<1>2. ~ActiveFrom(s, r)
  <2>1. QueuedFrom(s, r)
    BY <1>1 DEF QueuedFrom
  <2>2. CreditOf(s, r)
    BY <1>1, CreditNow
  <2> QED  BY <2>1, <2>2 DEF CreditOf
<1>3. active'[r] = Append(active[r], s) /\ \A e \in Thread : e # r => active'[e] = active[e]
  BY <1>1 DEF TypeOKEx2
<1>4. active[r] \in Seq(Thread)
  BY PEntries
<1>5. /\ DOMAIN active'[r] = 1 .. Len(active[r]) + 1 /\ DOMAIN active[r] = 1 .. Len(active[r])
      /\ Len(active[r]) \in Nat
      /\ \A j \in 1 .. Len(active[r]) : active'[r][j] = active[r][j]
      /\ active'[r][Len(active[r]) + 1] = s
  BY <1>3, <1>4, <1>1
<1>6. \A j \in 1 .. Len(active[r]) : active[r][j] # s
  BY <1>2, <1>5 DEF ActiveFrom
<1>7. \A j, k \in 1 .. Len(active[r]) : active[r][j] = active[r][k] => j = k
  BY <1>5 DEF ActiveOnce
<1>8. \A j, k \in 1 .. Len(active[r]) + 1 : active'[r][j] = active'[r][k] => j = k
  <2> TAKE j, k \in 1 .. Len(active[r]) + 1
  <2>1. CASE j \in 1 .. Len(active[r]) /\ k \in 1 .. Len(active[r])
    BY <2>1, <1>5, <1>7
  <2>2. CASE j = Len(active[r]) + 1 /\ k \in 1 .. Len(active[r])
    BY <2>2, <1>5, <1>6
  <2>3. CASE k = Len(active[r]) + 1 /\ j \in 1 .. Len(active[r])
    BY <2>3, <1>5, <1>6
  <2>4. CASE k = Len(active[r]) + 1 /\ j = Len(active[r]) + 1
    BY <2>4
  <2> QED  BY <2>1, <2>2, <2>3, <2>4, <1>5
<1>9. ASSUME NEW e \in Thread
      PROVE  \A j, k \in DOMAIN active'[e] : active'[e][j] = active'[e][k] => j = k
  <2>1. CASE e = r
    BY <2>1, <1>8, <1>5
  <2>2. CASE e # r
    BY <2>2, <1>3 DEF ActiveOnce
  <2> QED  BY <2>1, <2>2
<1> QED  BY <1>9 DEF ActiveOnce

LEMMA ReleaseOnce ==
  ASSUME TypeOKEx2, ActiveOnce, NEW r \in Thread, NEW s, Releases(r, s)
  PROVE  ActiveOnce'
<1> DEFINE c == current[r]
           seq == active[r]
<1>1. /\ c \in 1 .. Len(seq) /\ seq[c] = s /\ s \in Thread
      /\ active' = [active EXCEPT ![r] = Removed(seq, c)]
  BY DEF Releases
<1>2. seq \in Seq(Thread) /\ DOMAIN seq = 1 .. Len(seq) /\ Len(seq) \in Nat
  BY PEntries, LenProperties
<1>3. \A i, j \in DOMAIN seq : seq[i] = seq[j] => i = j
  BY DEF ActiveOnce
<1>4. active'[r] = Removed(seq, c) /\ \A e \in Thread : e # r => active'[e] = active[e]
  BY <1>1 DEF TypeOKEx2
<1> HIDE DEF c, seq
<1>6. /\ Removed(seq, c) \in Seq(Thread)
      /\ Len(Removed(seq, c)) = Len(seq) - 1
      /\ \A j \in 1 .. Len(seq) - 1 :
            Removed(seq, c)[j] = IF j = c THEN seq[Len(seq)] ELSE seq[j]
  BY <1>1, <1>2, RemovedFacts
<1>7. DOMAIN Removed(seq, c) = 1 .. Len(seq) - 1
  BY <1>6, LenProperties
<1>8. \A j, k \in 1 .. Len(seq) - 1 : Removed(seq, c)[j] = Removed(seq, c)[k] => j = k
  <2> TAKE j, k \in 1 .. Len(seq) - 1
  <2>1. /\ j \in DOMAIN seq /\ k \in DOMAIN seq /\ Len(seq) \in DOMAIN seq
        /\ j # Len(seq) /\ k # Len(seq)
    <3> DEFINE n == Len(seq)
    <3>1. DOMAIN seq = 1 .. n /\ n \in Nat /\ j \in 1 .. n-1 /\ k \in 1 .. n-1
      BY <1>2
    <3> HIDE DEF n
    <3>2. j \in 1 .. n /\ k \in 1 .. n /\ n \in 1 .. n /\ j # n /\ k # n
      BY <3>1
    <3> QED  BY <3>1, <3>2 DEF n
  <2>2. CASE j = c /\ k = c
    BY <2>2
  <2>3. CASE j = c /\ k # c
    BY <2>3, <2>1, <1>3, <1>6
  <2>4. CASE j # c /\ k = c
    BY <2>4, <2>1, <1>3, <1>6
  <2>5. CASE j # c /\ k # c
    BY <2>5, <2>1, <1>3, <1>6
  <2> QED  BY <2>2, <2>3, <2>4, <2>5
<1>9. ASSUME NEW e \in Thread
      PROVE  \A j, k \in DOMAIN active'[e] : active'[e][j] = active'[e][k] => j = k
  <2>1. CASE e = r
    BY <2>1, <1>4, <1>7, <1>8
  <2>2. CASE e # r
    BY <2>2, <1>4 DEF ActiveOnce
  <2> QED  BY <2>1, <2>2
<1> QED  BY <1>9 DEF ActiveOnce

LEMMA ActivateCounts ==
  ASSUME TypeOKEx2, Counts, NEW r \in Thread, NEW s, NEW i, Takes(r, s, i)
  PROVE  Counts'
<1>1. /\ s \in Thread
      /\ active' = [active EXCEPT ![r] = Append(active[r], s)]
      /\ num_made_active' = [num_made_active EXCEPT ![r] = num_made_active[r] + 1]
      /\ num_popped' = num_popped
  BY DEF Takes
<1>2. ASSUME NEW e \in Thread
      PROVE  num_popped'[e] + Len(active'[e]) = num_made_active'[e]
  <2>1. num_popped[e] + Len(active[e]) = num_made_active[e]
    BY DEF Counts
  <2>2. CASE e = r
    <3>1. active'[r] = Append(active[r], s) /\ num_made_active'[r] = num_made_active[r] + 1
      BY <1>1 DEF TypeOKEx2
    <3>2. Len(Append(active[r], s)) = Len(active[r]) + 1 /\ Len(active[r]) \in Nat
      BY <1>1, PEntries
    <3>3. num_popped[r] \in Nat
      BY PEntries
    <3> QED  BY <2>1, <2>2, <3>1, <3>2, <3>3, <1>1
  <2>3. CASE e # r
    <3>1. active'[e] = active[e] /\ num_made_active'[e] = num_made_active[e]
      BY <2>3, <1>1 DEF TypeOKEx2
    <3> QED  BY <2>1, <3>1, <1>1
  <2> QED  BY <2>2, <2>3
<1> QED  BY <1>2 DEF Counts

LEMMA ReleaseCounts ==
  ASSUME TypeOKEx2, Counts, NEW r \in Thread, NEW s, Releases(r, s)
  PROVE  Counts'
<1>1. /\ current[r] \in 1 .. Len(active[r])
      /\ active' = [active EXCEPT ![r] = Removed(active[r], current[r])]
      /\ num_popped' = [num_popped EXCEPT ![r] = num_popped[r] + 1]
      /\ num_made_active' = num_made_active
  BY DEF Releases
<1>2. ASSUME NEW e \in Thread
      PROVE  num_popped'[e] + Len(active'[e]) = num_made_active'[e]
  <2>1. num_popped[e] + Len(active[e]) = num_made_active[e]
    BY DEF Counts
  <2>2. CASE e = r
    <3>1. active'[r] = Removed(active[r], current[r]) /\ num_popped'[r] = num_popped[r] + 1
      BY <1>1 DEF TypeOKEx2
    <3>2. Len(Removed(active[r], current[r])) = Len(active[r]) - 1
      BY <1>1, PEntries, RemovedFacts
    <3>3. num_popped[r] \in Nat /\ Len(active[r]) \in Nat
      BY PEntries, LenProperties
    <3> QED  BY <2>1, <2>2, <3>1, <3>2, <3>3, <1>1
  <2>3. CASE e # r
    <3>1. active'[e] = active[e] /\ num_popped'[e] = num_popped[e]
      BY <2>3, <1>1 DEF TypeOKEx2
    <3> QED  BY <2>1, <3>1, <1>1
  <2> QED  BY <2>2, <2>3
<1> QED  BY <1>2 DEF Counts

-----------------------------------------------------------------------------
(* Ring and Claimed *)

RingOf(r) ==
  /\ num_made_active[r] <= num_msgs[r]
  /\ num_msgs[r] - num_made_active[r] <= QueueLen
  /\ \A i \in Position : queue[r][i] # Free => \E k \in Waiting(r) : i = At(k)
  /\ \A k \in Waiting(r) : queue[r][At(k)] = Free =>
       \E p \in Thread : \E m \in note[p] : m.to = r /\ m.position = At(k)

LEMMA RingNow == Ring <=> \A r \in Thread : RingOf(r)
BY DEF Ring, RingOf

LEMMA WaitingType ==
  ASSUME TypeOKEx2, NEW r \in Thread, NEW k \in Waiting(r)
  PROVE  k \in Nat /\ At(k) \in Position /\ At(k) # Unclaimed
<1>1. num_made_active[r] \in Nat /\ num_msgs[r] \in Nat
  BY PEntries
<1>2. k \in Nat
  BY <1>1 DEF Waiting
<1> QED  BY <1>2, PositionType DEF IsPosition

\* Two messages that wait at the same position are one.
LEMMA OnePosition ==
  ASSUME TypeOKEx2, NEW r \in Thread, num_msgs[r] - num_made_active[r] <= QueueLen,
         NEW j \in Waiting(r), NEW k \in Waiting(r), At(j) = At(k)
  PROVE  j = k
<1>1. num_made_active[r] \in Nat /\ num_msgs[r] \in Nat /\ QueueLen \in Nat \ {0}
  BY PEntries, QueueLenType
<1>2. j \in Nat /\ k \in Nat /\ j < k + QueueLen /\ k < j + QueueLen
  BY <1>1 DEF Waiting
<1>3. j % QueueLen = k % QueueLen
  BY DEF At
<1>4. CASE j <= k
  BY <1>1, <1>2, <1>3, <1>4, ModApart
<1>5. CASE k <= j
  BY <1>1, <1>2, <1>3, <1>5, ModApart
<1> QED  BY <1>2, <1>4, <1>5

\* PE p has sent the message that waits as number k.
Holds(p, r, k) ==
  \/ queue[r][At(k)].pe = p
  \/ \E m \in note[p] : m.to = r /\ m.position = At(k)

LEMMA Holder ==
  ASSUME TypeOKEx2, Ring, Queued, NEW r \in Thread, NEW k \in Waiting(r)
  PROVE  \E p \in Thread : Holds(p, r, k)
<1>1. At(k) \in Position
  BY WaitingType
<1>2. RingOf(r)
  BY RingNow
<1>3. CASE queue[r][At(k)] # Free
  BY <1>1, <1>3 DEF Queued, Holds
<1>4. CASE queue[r][At(k)] = Free
  BY <1>2, <1>4 DEF RingOf, Holds
<1> QED  BY <1>3, <1>4

LEMMA OneHeld ==
  ASSUME TypeOKEx2, Ring, Queued, Notes, Credit, NEW r \in Thread, NEW p \in Thread,
         NEW j \in Waiting(r), NEW k \in Waiting(r), Holds(p, r, j), Holds(p, r, k)
  PROVE  j = k
<1>1. At(j) \in Position /\ At(k) \in Position
  BY WaitingType
<1>2. num_msgs[r] - num_made_active[r] <= QueueLen
  BY DEF Ring
<1>3. ~(NoteTo(p, r) /\ QueuedFrom(p, r))
  BY CreditNow DEF CreditOf
<1>4. At(j) = At(k)
  <2>1. CASE queue[r][At(j)].pe = p /\ queue[r][At(k)].pe = p
    <3>1. queue[r][At(j)] # Free
      BY <2>1, FreeIsNone
    <3> QED  BY <3>1, <2>1, <1>1 DEF Queued
  <2>2. CASE \E m \in note[p] : m.to = r /\ m.position = At(j)
    <3>1. NoteTo(p, r)
      BY <2>2 DEF NoteTo
    <3>2. queue[r][At(k)].pe # p
      BY <3>1, <1>3, <1>1 DEF QueuedFrom
    <3>3. \E m \in note[p] : m.to = r /\ m.position = At(k)
      BY <3>2 DEF Holds
    <3> QED  BY <3>3, <2>2 DEF Notes
  <2>3. CASE \E m \in note[p] : m.to = r /\ m.position = At(k)
    <3>1. NoteTo(p, r)
      BY <2>3 DEF NoteTo
    <3>2. queue[r][At(j)].pe # p
      BY <3>1, <1>3, <1>1 DEF QueuedFrom
    <3>3. \E m \in note[p] : m.to = r /\ m.position = At(j)
      BY <3>2 DEF Holds
    <3> QED  BY <3>3, <2>3 DEF Notes
  <2> QED  BY <2>1, <2>2, <2>3 DEF Holds
<1> QED  BY <1>2, <1>4, OnePosition

\* There is at most one message on its way, or in the queue, for each PE.
LEMMA WaitingFew ==
  ASSUME TypeOKEx2, Ring, Queued, Notes, Credit, NEW r \in Thread
  PROVE  num_msgs[r] - num_made_active[r] <= THREADS
<1> DEFINE W == Waiting(r)
           f == [k \in W |-> CHOOSE p \in Thread : Holds(p, r, k)]
<1>1. num_made_active[r] \in Nat /\ num_msgs[r] \in Nat
  BY PEntries
<1>2. f \in [W -> Thread] /\ \A k \in W : Holds(f[k], r, k)
  BY Holder
<1>3. IsFiniteSet(Thread) /\ Cardinality(Thread) = THREADS
  <2>1. 0 \in Int /\ THREADS - 1 \in Int
    BY NAssumption
  <2>2. /\ IsFiniteSet(0 .. THREADS-1)
        /\ Cardinality(0 .. THREADS-1) = IF 0 > THREADS-1 THEN 0 ELSE THREADS-1-0+1
    BY <2>1, FS_Interval
  <2>3. (IF 0 > THREADS-1 THEN 0 ELSE THREADS-1-0+1) = THREADS
    BY NAssumption
  <2> QED  BY <2>2, <2>3 DEF Thread
<1>4. /\ IsFiniteSet(W)
      /\ num_made_active[r] <= num_msgs[r] - 1 => Cardinality(W) = num_msgs[r] - num_made_active[r]
  <2> DEFINE a == num_made_active[r]
             b == num_msgs[r] - 1
  <2>1. a \in Int /\ b \in Int
    BY <1>1
  <2>2. W = a .. b
    BY DEF Waiting
  <2>3. a <= b => ~(a > b) /\ b - a + 1 = num_msgs[r] - num_made_active[r]
    BY <1>1
  <2> HIDE DEF a, b, W
  <2>4. IsFiniteSet(a .. b) /\ Cardinality(a .. b) = IF a > b THEN 0 ELSE b - a + 1
    BY <2>1, FS_Interval
  <2> QED  BY <2>2, <2>3, <2>4 DEF a, b
<1> HIDE DEF f, W
<1>5. SUFFICES ASSUME THREADS < num_msgs[r] - num_made_active[r] PROVE FALSE
  BY <1>1, NAssumption
<1>6. num_made_active[r] <= num_msgs[r] - 1
  BY <1>1, <1>5, NAssumption
<1>7. Cardinality(Thread) < Cardinality(W)
  BY <1>3, <1>4, <1>5, <1>6
<1>8. \E j, k \in W : j # k /\ f[j] = f[k]
  BY <1>2, <1>3, <1>4, <1>7, FS_PigeonHole
<1>9. PICK j, k \in W : j # k /\ f[j] = f[k]
  BY <1>8
<1>10. Holds(f[j], r, j) /\ Holds(f[j], r, k) /\ f[j] \in Thread
  BY <1>2, <1>9
<1> QED  BY <1>9, <1>10, OneHeld DEF W

-----------------------------------------------------------------------------
(* Ring and Claimed *)

LEMMA PostRing ==
  ASSUME TypeOKEx2, Ring, NEW p \in Thread, NEW d \in Thread, NEW m, Posts(p, d, m)
  PROVE  Ring'
<1>1. /\ note[p] = {} /\ note' = [note EXCEPT ![p] = {m}]
      /\ UNCHANGED <<queue, num_msgs, num_made_active>>
  BY DEF Posts, Settled
<1>2. \A q \in Thread : q # p => note'[q] = note[q]
  BY <1>1 DEF TypeOKEx2
<1>3. ASSUME NEW r \in Thread PROVE RingOf(r)'
  <2>1. RingOf(r)
    BY RingNow
  <2>2. Waiting(r)' = Waiting(r)
    BY <1>1 DEF Waiting
  <2>3. ASSUME NEW k \in Waiting(r), queue[r][At(k)] = Free
        PROVE  \E q \in Thread : \E x \in note'[q] : x.to = r /\ x.position = At(k)
    <3>1. PICK q \in Thread : \E x \in note[q] : x.to = r /\ x.position = At(k)
      BY <2>1, <2>3 DEF RingOf
    <3>2. q # p
      BY <3>1, <1>1
    <3> QED  BY <3>1, <3>2, <1>2
  <2> QED  BY <2>1, <2>2, <2>3, <1>1 DEF RingOf, At
<1> QED  BY <1>3 DEF Ring, RingOf

LEMMA PostClaimed ==
  ASSUME TypeOKEx2, Claimed, NEW p \in Thread, NEW d \in Thread, NEW m, Posts(p, d, m)
  PROVE  Claimed'
<1>1. /\ note' = [note EXCEPT ![p] = {m}] /\ m.position = Unclaimed
      /\ UNCHANGED <<queue, num_msgs, num_made_active>>
  BY DEF Posts
<1>2. note'[p] = {m} /\ \A q \in Thread : q # p => note'[q] = note[q]
  BY <1>1 DEF TypeOKEx2
<1>3. ASSUME NEW q \in Thread, NEW x \in note'[q], x.position # Unclaimed
      PROVE  /\ queue[x.to][x.position] = Free
             /\ \E k \in Waiting(x.to)' : x.position = At(k)
             /\ \A s \in Thread : \A n \in note'[s] :
                  x.to = n.to /\ x.position = n.position => q = s
  <2>1. q # p
    BY <1>1, <1>2, <1>3
  <2>2. x \in note[q]
    BY <2>1, <1>2
  <2>3. /\ queue[x.to][x.position] = Free
        /\ \E k \in Waiting(x.to) : x.position = At(k)
        /\ \A s \in Thread : \A n \in note[s] :
             x.to = n.to /\ x.position = n.position => q = s
    BY <2>2, <1>3 DEF Claimed
  <2>4. Waiting(x.to)' = Waiting(x.to)
    BY <1>1 DEF Waiting
  <2>5. ASSUME NEW s \in Thread, NEW n \in note'[s], x.to = n.to, x.position = n.position
        PROVE  q = s
    <3>1. n \in note[s]
      BY <2>5, <1>1, <1>2, <1>3
    <3> QED  BY <3>1, <2>3, <2>5
  <2> QED  BY <2>3, <2>4, <2>5
<1> QED  BY <1>1, <1>3 DEF Claimed, At, Unclaimed

\* The position that a message claims is free, and nobody else's.
LEMMA Fresh ==
  ASSUME TypeOKEx2, Ring, Claimed, Queued, Notes, Credit, NEW d \in Thread
  PROVE  /\ num_msgs[d] \in Nat /\ num_made_active[d] \in Nat
         /\ num_made_active[d] <= num_msgs[d]
         /\ num_msgs[d] - num_made_active[d] < QueueLen
         /\ At(num_msgs[d]) \in Position /\ At(num_msgs[d]) # Unclaimed
         /\ queue[d][At(num_msgs[d])] = Free
         /\ \A q \in Thread : \A x \in note[q] :
              x.to = d => x.position # At(num_msgs[d])
<1> DEFINE k == num_msgs[d]
           a == num_made_active[d]
<1>1. k \in Nat /\ a \in Nat /\ a <= k
  BY PEntries DEF Ring
<1>2. k - a < QueueLen
  <2>1. k - a <= THREADS
    BY WaitingFew
  <2> QED  BY <2>1, <1>1, QueueLenType, NAssumption
<1>3. At(k) \in Position /\ At(k) # Unclaimed
  BY <1>1, PositionType DEF IsPosition
<1>4. \A j \in Waiting(d) : At(j) # At(k)
  <2> SUFFICES ASSUME NEW j \in Waiting(d), At(j) = At(k) PROVE FALSE
    OBVIOUS
  <2>1. j \in Nat /\ j < k /\ k < j + QueueLen
    <3>1. j \in a .. k-1
      BY DEF Waiting
    <3> HIDE DEF a, k
    <3> QED  BY <3>1, <1>1, <1>2, QueueLenType
  <2>2. j % QueueLen = k % QueueLen /\ j <= k /\ QueueLen \in Nat \ {0}
    BY <2>1, <1>1, QueueLenType DEF At
  <2> HIDE DEF k
  <2>3. j = k
    BY <2>1, <2>2, <1>1, ModApart
  <2> QED  BY <2>1, <2>3
<1>5. queue[d][At(k)] = Free
  <2>1. RingOf(d)
    BY RingNow
  <2> QED  BY <2>1, <1>3, <1>4 DEF RingOf
<1>6. \A q \in Thread : \A x \in note[q] : x.to = d => x.position # At(k)
  BY <1>3, <1>4 DEF Claimed
<1> QED  BY <1>1, <1>2, <1>3, <1>5, <1>6

\* What changes when m of PE p claims a position.
LEMMA ClaimChanges ==
  ASSUME TypeOKEx2, Notes, NEW p \in Thread, NEW m \in note[p], Claims(p, m)
  PROVE  /\ m.to \in Thread /\ m.position = Unclaimed
         /\ \A x \in note[p] : x = m
         /\ \E n \in note'[p] : /\ note'[p] = {n} /\ n.to = m.to /\ n.msg = m.msg
                               /\ n.position = At(num_msgs[m.to])
         /\ \A q \in Thread : q # p => note'[q] = note[q]
         /\ num_msgs'[m.to] = num_msgs[m.to] + 1
         /\ \A q \in Thread : q # m.to => num_msgs'[q] = num_msgs[q]
<1> DEFINE n == [m EXCEPT !.position = At(num_msgs[m.to])]
<1>1. m.to \in Thread /\ n.to = m.to /\ n.msg = m.msg /\ n.position = At(num_msgs[m.to])
  BY Notation
<1>2. /\ m.position = Unclaimed
      /\ note' = [note EXCEPT ![p] = {n}]
      /\ num_msgs' = [num_msgs EXCEPT ![m.to] = num_msgs[m.to] + 1]
  BY DEF Claims
<1> HIDE DEF n
<1>3. note'[p] = {n} /\ \A q \in Thread : q # p => note'[q] = note[q]
  BY <1>2 DEF TypeOKEx2
<1>4. /\ num_msgs'[m.to] = num_msgs[m.to] + 1
      /\ \A q \in Thread : q # m.to => num_msgs'[q] = num_msgs[q]
  BY <1>1, <1>2 DEF TypeOKEx2
<1>5. \A x \in note[p] : x = m
  BY DEF Notes
<1> QED  BY <1>1, <1>2, <1>3, <1>4, <1>5

LEMMA ClaimRing ==
  ASSUME TypeOKEx2, Ring, Claimed, Queued, Notes, Credit, NEW p \in Thread,
         NEW m \in note[p], Claims(p, m), UNCHANGED <<queue, num_made_active>>
  PROVE  Ring'
<1> DEFINE d == m.to
           k0 == num_msgs[d]
<1>1. /\ d \in Thread /\ m.position = Unclaimed /\ \A x \in note[p] : x = m
      /\ \A q \in Thread : q # p => note'[q] = note[q]
      /\ num_msgs'[d] = k0 + 1
      /\ \A q \in Thread : q # d => num_msgs'[q] = num_msgs[q]
  BY ClaimChanges
<1>2. PICK n \in note'[p] : note'[p] = {n} /\ n.to = d /\ n.position = At(k0)
  BY ClaimChanges
<1>3. /\ k0 \in Nat /\ num_made_active[d] \in Nat
      /\ num_made_active[d] <= k0
      /\ k0 - num_made_active[d] < QueueLen
  BY <1>1, Fresh
<1> HIDE DEF d, k0
<1>4. ASSUME NEW r \in Thread, NEW k \in Waiting(r), queue[r][At(k)] = Free
      PROVE  \E q \in Thread : \E x \in note'[q] : x.to = r /\ x.position = At(k)
  <2>1. PICK q \in Thread : \E x \in note[q] : x.to = r /\ x.position = At(k)
    BY <1>4, RingNow DEF RingOf
  <2>2. q # p
    BY <2>1, <1>1, <1>4, WaitingType
  <2> QED  BY <2>1, <2>2, <1>1
<1>5. ASSUME NEW r \in Thread PROVE RingOf(r)'
  <2>1. RingOf(r)
    BY RingNow
  <2>2. CASE r # d
    <3>1. Waiting(r)' = Waiting(r) /\ num_msgs'[r] = num_msgs[r]
      BY <2>2, <1>1 DEF Waiting
    <3> QED  BY <2>1, <3>1, <1>4 DEF RingOf, At
  <2>3. CASE r = d
    <3>3. num_msgs'[r] = k0 + 1 /\ num_msgs[r] = k0
      BY <2>3, <1>1 DEF k0
    <3>7. num_made_active' = num_made_active
      OBVIOUS
    <3>8. Waiting(r) = num_made_active[r] .. k0 - 1
      BY <3>3 DEF Waiting
    <3>9. Waiting(r)' = num_made_active'[r] .. num_msgs'[r] - 1
      BY DEF Waiting
    <3>10. num_msgs'[r] - 1 = k0
      BY <3>3, <1>3
    <3>1. /\ Waiting(r) = num_made_active[r] .. k0 - 1
          /\ Waiting(r)' = num_made_active[r] .. k0
      BY <3>7, <3>8, <3>9, <3>10
    <3>2. Waiting(r) \subseteq Waiting(r)' /\ \A k \in Waiting(r)' : k \in Waiting(r) \/ k = k0
      BY <3>1, <1>3, <2>3
    <3>4. num_made_active[r] <= num_msgs'[r] /\ num_msgs'[r] - num_made_active[r] <= QueueLen
      BY <3>3, <1>3, <2>3, QueueLenType
    <3>5. ASSUME NEW k \in Waiting(r)', queue[r][At(k)] = Free
          PROVE  \E q \in Thread : \E x \in note'[q] : x.to = r /\ x.position = At(k)
      <4>1. CASE k \in Waiting(r)
        BY <4>1, <3>5, <1>4
      <4>2. CASE k = k0
        BY <4>2, <1>2, <2>3
      <4> QED  BY <4>1, <4>2, <3>2
    <3>6. \A i \in Position : queue[r][i] # Free => \E k \in Waiting(r)' : i = At(k)
      BY <2>1, <3>2 DEF RingOf
    <3> QED  BY <3>4, <3>5, <3>6 DEF RingOf, At
  <2> QED  BY <2>2, <2>3
<1> QED  BY <1>5 DEF Ring, RingOf

LEMMA ClaimClaimed ==
  ASSUME TypeOKEx2, Ring, Claimed, Queued, Notes, Credit, NEW p \in Thread,
         NEW m \in note[p], Claims(p, m), UNCHANGED <<queue, num_made_active>>
  PROVE  Claimed'
<1> DEFINE d == m.to
           k0 == num_msgs[d]
<1>1. /\ d \in Thread
      /\ \A q \in Thread : q # p => note'[q] = note[q]
      /\ num_msgs'[d] = k0 + 1
      /\ \A q \in Thread : q # d => num_msgs'[q] = num_msgs[q]
  BY ClaimChanges
<1>2. PICK n \in note'[p] : note'[p] = {n} /\ n.to = d /\ n.position = At(k0)
  BY ClaimChanges
<1>3. /\ k0 \in Nat /\ num_made_active[d] \in Nat
      /\ num_made_active[d] <= k0
      /\ queue[d][At(k0)] = Free
      /\ \A q \in Thread : \A x \in note[q] : x.to = d => x.position # At(k0)
  BY <1>1, Fresh
<1>4. \A r \in Thread : Waiting(r) \subseteq Waiting(r)'
  <2> TAKE r \in Thread
  <2>1. CASE r = d
    BY <2>1, <1>1, <1>3 DEF Waiting
  <2>2. CASE r # d
    BY <2>2, <1>1 DEF Waiting
  <2> QED  BY <2>1, <2>2
<1>5. k0 \in Waiting(d)'
  BY <1>1, <1>3 DEF Waiting
<1> HIDE DEF d, k0
<1>6. ASSUME NEW q \in Thread, NEW x \in note'[q], x.position # Unclaimed
      PROVE  /\ queue[x.to][x.position] = Free
             /\ \E k \in Waiting(x.to)' : x.position = At(k)
             /\ \A s \in Thread : \A y \in note'[s] :
                  x.to = y.to /\ x.position = y.position => q = s
  <2>1. CASE q = p
    <3>1. x.to = d /\ x.position = At(k0)
      BY <2>1, <1>2
    <3>2. \A s \in Thread : \A y \in note'[s] : x.to = y.to /\ x.position = y.position => s = p
      BY <3>1, <1>1, <1>3
    <3> QED  BY <2>1, <3>1, <3>2, <1>3, <1>5
  <2>2. CASE q # p
    <3>1. x \in note[q]
      BY <2>2, <1>1
    <3>2. /\ queue[x.to][x.position] = Free
          /\ \E k \in Waiting(x.to) : x.position = At(k)
          /\ \A s \in Thread : \A y \in note[s] :
               x.to = y.to /\ x.position = y.position => q = s
      BY <3>1, <1>6 DEF Claimed
    <3>3. x.to \in Thread
      BY <3>1, Notation
    <3>4. ASSUME NEW s \in Thread, NEW y \in note'[s], x.to = y.to, x.position = y.position
          PROVE  q = s
      <4>1. CASE s = p
        <5>1. x.to = d /\ x.position = At(k0)
          BY <4>1, <3>4, <1>2
        <5> QED  BY <5>1, <3>1, <1>3
      <4>2. CASE s # p
        BY <4>2, <3>2, <3>4, <1>1
      <4> QED  BY <4>1, <4>2
    <3> QED  BY <3>2, <3>3, <3>4, <1>4
  <2> QED  BY <2>1, <2>2
<1> QED  BY <1>6 DEF Claimed, At, Unclaimed

\* What changes when the message m of PE p lands.
LEMMA LandChanges ==
  ASSUME TypeOKEx2, Notes, Claimed, NEW p \in Thread, NEW m \in note[p], Lands(p, m)
  PROVE  /\ m.to \in Thread /\ m.position \in Position /\ m.position # Unclaimed
         /\ m.msg \in Message /\ m.msg.pe = p
         /\ \A x \in note[p] : x = m
         /\ note'[p] = {} /\ \A q \in Thread : q # p => note'[q] = note[q]
         /\ queue'[m.to][m.position] = m.msg
         /\ \A e \in Thread : \A j \in Position :
              e # m.to \/ j # m.position => queue'[e][j] = queue[e][j]
<1>1. /\ m.position # Unclaimed
      /\ queue' = [queue EXCEPT ![m.to][m.position] = m.msg]
      /\ note' = [note EXCEPT ![p] = {}]
  BY DEF Lands
<1>2. m.to \in Thread /\ m.position \in Position /\ m.msg \in Message /\ m.msg.pe = p
  BY <1>1, Notation DEF Notes
<1>3. note'[p] = {} /\ \A q \in Thread : q # p => note'[q] = note[q]
  BY <1>1 DEF TypeOKEx2
<1>4. /\ queue'[m.to][m.position] = m.msg
      /\ \A e \in Thread : \A j \in Position :
           e # m.to \/ j # m.position => queue'[e][j] = queue[e][j]
  <2> DEFINE d == m.to
             i == m.position
             v == m.msg
  <2>1. d \in Thread /\ i \in Position /\ queue' = [queue EXCEPT ![d][i] = v]
    BY <1>1, <1>2
  <2> HIDE DEF d, i, v
  <2>2. /\ queue'[d][i] = v
        /\ \A e \in Thread : \A j \in Position : e # d \/ j # i => queue'[e][j] = queue[e][j]
    BY <2>1 DEF TypeOKEx2
  <2> QED  BY <2>2 DEF d, i, v
<1>5. \A x \in note[p] : x = m
  BY DEF Notes
<1> QED  BY <1>1, <1>2, <1>3, <1>4, <1>5

LEMMA LandRing ==
  ASSUME TypeOKEx2, Notes, Ring, Claimed, NEW p \in Thread, NEW m \in note[p], Lands(p, m),
         UNCHANGED <<num_msgs, num_made_active>>
  PROVE  Ring'
<1>1. /\ m.to \in Thread /\ m.position \in Position /\ m.position # Unclaimed
      /\ m.msg \in Message
      /\ \A x \in note[p] : x = m
      /\ \A q \in Thread : q # p => note'[q] = note[q]
      /\ queue'[m.to][m.position] = m.msg
      /\ \A e \in Thread : \A j \in Position :
           e # m.to \/ j # m.position => queue'[e][j] = queue[e][j]
  BY LandChanges
<1>2. \E k \in Waiting(m.to) : m.position = At(k)
  BY <1>1 DEF Claimed
<1>3. ASSUME NEW r \in Thread, NEW i \in Position, queue'[r][i] # Free
      PROVE  \E k \in Waiting(r) : i = At(k)
  <2>1. CASE r = m.to /\ i = m.position
    BY <2>1, <1>2
  <2>2. CASE r # m.to \/ i # m.position
    <3>1. queue[r][i] # Free
      BY <2>2, <1>1, <1>3
    <3> QED  BY <3>1, RingNow DEF RingOf
  <2> QED  BY <2>1, <2>2
<1>4. ASSUME NEW r \in Thread, NEW k \in Waiting(r), queue'[r][At(k)] = Free
      PROVE  \E q \in Thread : \E x \in note'[q] : x.to = r /\ x.position = At(k)
  <2>1. At(k) \in Position
    BY WaitingType
  <2>2. r # m.to \/ At(k) # m.position
    BY <1>1, <1>4, FreeIsNone
  <2>3. queue[r][At(k)] = Free
    BY <2>1, <2>2, <1>1, <1>4
  <2>4. PICK q \in Thread : \E x \in note[q] : x.to = r /\ x.position = At(k)
    BY <2>3, RingNow DEF RingOf
  <2>5. q # p
    BY <2>4, <2>2, <1>1
  <2> QED  BY <2>4, <2>5, <1>1
<1>5. ASSUME NEW r \in Thread PROVE RingOf(r)'
  <2>1. RingOf(r)
    BY RingNow
  <2>2. Waiting(r)' = Waiting(r)
    BY DEF Waiting
  <2> QED  BY <2>1, <2>2, <1>3, <1>4 DEF RingOf, At
<1> QED  BY <1>5 DEF Ring, RingOf

LEMMA LandClaimed ==
  ASSUME TypeOKEx2, Notes, Claimed, NEW p \in Thread, NEW m \in note[p], Lands(p, m),
         UNCHANGED <<num_msgs, num_made_active>>
  PROVE  Claimed'
<1>1. /\ m.to \in Thread /\ m.position \in Position /\ m.position # Unclaimed
      /\ note'[p] = {}
      /\ \A q \in Thread : q # p => note'[q] = note[q]
      /\ \A e \in Thread : \A j \in Position :
           e # m.to \/ j # m.position => queue'[e][j] = queue[e][j]
  BY LandChanges
<1>2. ASSUME NEW q \in Thread, NEW x \in note'[q], x.position # Unclaimed
      PROVE  /\ queue'[x.to][x.position] = Free
             /\ \E k \in Waiting(x.to)' : x.position = At(k)
             /\ \A s \in Thread : \A y \in note'[s] :
                  x.to = y.to /\ x.position = y.position => q = s
  <2>1. q # p /\ x \in note[q]
    BY <1>1, <1>2
  <2>2. /\ queue[x.to][x.position] = Free
        /\ \E k \in Waiting(x.to) : x.position = At(k)
        /\ \A s \in Thread : \A y \in note[s] :
             x.to = y.to /\ x.position = y.position => q = s
    BY <2>1, <1>2 DEF Claimed
  <2>3. x.to \in Thread /\ x.position \in Position
    BY <2>1, <1>2, Notation
  <2>4. x.to # m.to \/ x.position # m.position
    BY <2>1, <2>2
  <2>5. queue'[x.to][x.position] = Free
    BY <1>1, <2>2, <2>3, <2>4
  <2>6. Waiting(x.to)' = Waiting(x.to)
    BY DEF Waiting
  <2>7. \A s \in Thread : \A y \in note'[s] :
             x.to = y.to /\ x.position = y.position => q = s
    <3> TAKE s \in Thread
    <3> TAKE y \in note'[s]
    <3>1. y \in note[s]
      BY <1>1
    <3> QED  BY <3>1, <2>2
  <2> QED  BY <2>2, <2>5, <2>6, <2>7
<1> QED  BY <1>2 DEF Claimed, At, Unclaimed

\* What changes when r takes a message of s from position i.
LEMMA TakeChanges ==
  ASSUME TypeOKEx2, Ring, Popping, NEW r \in Thread, NEW s, NEW i, Takes(r, s, i)
  PROVE  /\ s \in Thread /\ i \in Position /\ i = At(num_made_active[r])
         /\ queue[r][i] # Free /\ queue[r][i].pe = s
         /\ queue'[r][i] = Free
         /\ \A e \in Thread : \A j \in Position : e # r \/ j # i => queue'[e][j] = queue[e][j]
         /\ UNCHANGED <<note, num_msgs>>
         /\ num_made_active'[r] = num_made_active[r] + 1
         /\ \A e \in Thread : e # r => num_made_active'[e] = num_made_active[e]
         /\ num_made_active[r] \in Waiting(r)
         /\ Waiting(r)' = Waiting(r) \ {num_made_active[r]}
         /\ \A e \in Thread : e # r => Waiting(e)' = Waiting(e)
<1>1. /\ s \in Thread /\ i \in Position /\ i = At(num_made_active[r])
      /\ queue[r][i] \in Message /\ queue[r][i].pe = s
      /\ queue' = [queue EXCEPT ![r][i] = Free]
      /\ num_made_active' = [num_made_active EXCEPT ![r] = num_made_active[r] + 1]
      /\ UNCHANGED <<note, num_msgs>>
      /\ num_made_active[r] < seen[r]
  BY DEF Takes
<1>2. queue[r][i] # Free
  BY <1>1, FreeIsNone
<1>3. /\ queue'[r][i] = Free
      /\ \A e \in Thread : \A j \in Position : e # r \/ j # i => queue'[e][j] = queue[e][j]
  BY <1>1 DEF TypeOKEx2
<1>4. /\ num_made_active'[r] = num_made_active[r] + 1
      /\ \A e \in Thread : e # r => num_made_active'[e] = num_made_active[e]
  BY <1>1 DEF TypeOKEx2
<1>5. /\ num_made_active[r] \in Nat /\ num_msgs[r] \in Nat /\ seen[r] \in Nat
      /\ num_made_active[r] < num_msgs[r]
  <2>1. num_made_active[r] \in Nat /\ num_msgs[r] \in Nat /\ seen[r] \in Nat
    BY PEntries
  <2>2. seen[r] <= num_msgs[r]
    BY DEF Popping
  <2> QED  BY <2>1, <2>2, <1>1
<1>6. num_made_active[r] \in Waiting(r)
  BY <1>5 DEF Waiting
<1>7. Waiting(r)' = Waiting(r) \ {num_made_active[r]}
  BY <1>1, <1>4, <1>5 DEF Waiting
<1>8. \A e \in Thread : e # r => Waiting(e)' = Waiting(e)
  BY <1>1, <1>4 DEF Waiting
<1> QED  BY <1>1, <1>2, <1>3, <1>4, <1>6, <1>7, <1>8

LEMMA ActivateRing ==
  ASSUME TypeOKEx2, Ring, Popping, NEW r \in Thread, NEW s, NEW i, Takes(r, s, i)
  PROVE  Ring'
<1> DEFINE a == num_made_active[r]
<1>1. /\ i \in Position /\ i = At(a)
      /\ queue'[r][i] = Free
      /\ \A e \in Thread : \A j \in Position : e # r \/ j # i => queue'[e][j] = queue[e][j]
      /\ UNCHANGED <<note, num_msgs>>
      /\ num_made_active'[r] = a + 1
      /\ \A e \in Thread : e # r => num_made_active'[e] = num_made_active[e]
      /\ a \in Waiting(r)
      /\ Waiting(r)' = Waiting(r) \ {a}
      /\ \A e \in Thread : e # r => Waiting(e)' = Waiting(e)
  BY TakeChanges
<1>2. RingOf(r)
  BY RingNow
<1>3. a \in Nat /\ num_msgs[r] \in Nat /\ a < num_msgs[r]
  <2>1. a \in Nat /\ num_msgs[r] \in Nat
    BY PEntries
  <2>2. a \in a .. num_msgs[r] - 1
    BY <1>1 DEF Waiting
  <2> HIDE DEF a
  <2> QED  BY <2>1, <2>2
<1>4. \A k \in Waiting(r) : k # a => At(k) # i
  BY <1>1, <1>2, OnePosition DEF RingOf
<1>5. num_made_active'[r] <= num_msgs'[r] /\ num_msgs'[r] - num_made_active'[r] <= QueueLen
  <2>1. num_msgs[r] - a <= QueueLen
    BY <1>2 DEF RingOf
  <2> HIDE DEF a
  <2> QED  BY <1>1, <1>3, <2>1, QueueLenType
<1> HIDE DEF a
<1>6. \A j \in Position : queue'[r][j] # Free => \E k \in Waiting(r)' : j = At(k)
  <2> SUFFICES ASSUME NEW j \in Position, queue'[r][j] # Free
               PROVE  \E k \in Waiting(r)' : j = At(k)
    OBVIOUS
  <2>1. j # i /\ queue[r][j] # Free
    BY <1>1
  <2>2. PICK k \in Waiting(r) : j = At(k)
    BY <2>1, <1>2 DEF RingOf
  <2> QED  BY <2>1, <2>2, <1>1
<1>7. \A k \in Waiting(r)' : queue'[r][At(k)] = Free =>
        \E p \in Thread : \E m \in note'[p] : m.to = r /\ m.position = At(k)
  <2> SUFFICES ASSUME NEW k \in Waiting(r)', queue'[r][At(k)] = Free
               PROVE  \E p \in Thread : \E m \in note'[p] : m.to = r /\ m.position = At(k)
    OBVIOUS
  <2>1. k \in Waiting(r) /\ k # a
    BY <1>1
  <2>2. queue[r][At(k)] = Free
    BY <2>1, <1>1, <1>4, WaitingType
  <2> QED  BY <2>1, <2>2, <1>1, <1>2 DEF RingOf
<1>8. RingOf(r)'
  BY <1>5, <1>6, <1>7 DEF RingOf, At
<1>9. ASSUME NEW e \in Thread, e # r PROVE RingOf(e)'
  <2>1. /\ Waiting(e)' = Waiting(e) /\ num_made_active'[e] = num_made_active[e]
        /\ \A j \in Position : queue'[e][j] = queue[e][j]
    BY <1>1, <1>9
  <2>2. RingOf(e)
    BY RingNow
  <2>3. \A k \in Waiting(e) : At(k) \in Position
    BY WaitingType
  <2>4. num_msgs' = num_msgs /\ note' = note
    BY <1>1
  <2>5. \A k \in Waiting(e) : queue'[e][At(k)] = queue[e][At(k)]
    BY <2>1, <2>3
  <2>6. num_made_active'[e] <= num_msgs'[e] /\ num_msgs'[e] - num_made_active'[e] <= QueueLen
    BY <2>1, <2>2, <2>4 DEF RingOf
  <2>7. \A j \in Position : queue'[e][j] # Free => \E k \in Waiting(e)' : j = At(k)
    BY <2>1, <2>2 DEF RingOf
  <2>8. \A k \in Waiting(e)' : queue'[e][At(k)] = Free =>
          \E p \in Thread : \E m \in note'[p] : m.to = e /\ m.position = At(k)
    BY <2>1, <2>2, <2>4, <2>5 DEF RingOf
  <2> QED  BY <2>6, <2>7, <2>8 DEF RingOf, At
<1> QED  BY <1>8, <1>9 DEF Ring, RingOf

LEMMA ActivateClaimed ==
  ASSUME TypeOKEx2, Ring, Claimed, Popping, NEW r \in Thread, NEW s, NEW i, Takes(r, s, i)
  PROVE  Claimed'
<1>1. /\ i \in Position /\ i = At(num_made_active[r]) /\ queue[r][i] # Free
      /\ queue'[r][i] = Free
      /\ \A e \in Thread : \A j \in Position : e # r \/ j # i => queue'[e][j] = queue[e][j]
      /\ note' = note
      /\ Waiting(r)' = Waiting(r) \ {num_made_active[r]}
      /\ \A e \in Thread : e # r => Waiting(e)' = Waiting(e)
  BY TakeChanges
<1>2. ASSUME NEW q \in Thread, NEW x \in note[q], x.position # Unclaimed
      PROVE  /\ queue'[x.to][x.position] = Free
             /\ \E k \in Waiting(x.to)' : x.position = At(k)
             /\ \A t \in Thread : \A y \in note[t] :
                  x.to = y.to /\ x.position = y.position => q = t
  <2>1. /\ queue[x.to][x.position] = Free
        /\ \E k \in Waiting(x.to) : x.position = At(k)
        /\ \A t \in Thread : \A y \in note[t] :
             x.to = y.to /\ x.position = y.position => q = t
    BY <1>2 DEF Claimed
  <2>2. x.to \in Thread /\ x.position \in Position
    BY <1>2, Notation
  <2>3. x.to # r \/ x.position # i
    BY <2>1, <1>1
  <2>4. queue'[x.to][x.position] = Free
    BY <2>1, <2>2, <2>3, <1>1
  <2>5. \E k \in Waiting(x.to)' : x.position = At(k)
    <3>1. CASE x.to = r
      BY <3>1, <2>1, <2>3, <1>1
    <3>2. CASE x.to # r
      BY <3>2, <2>1, <2>2, <1>1
    <3> QED  BY <3>1, <3>2
  <2> QED  BY <2>1, <2>4, <2>5
<1> QED  BY <1>1, <1>2 DEF Claimed, At, Unclaimed

LEMMA SameRing ==
  ASSUME Ring, Claimed, UNCHANGED <<num_made_active, num_msgs, queue, note>>
  PROVE  Ring' /\ Claimed'
BY DEF Ring, Claimed, Waiting, At, Unclaimed

-----------------------------------------------------------------------------
(* LastCount *)

Together == \A p \in Thread : stage[p] \in {"working", "arrived"}

LEMMA DoneFinite ==
  \A d \in Thread : /\ IsFiniteSet(DoneSenders(d))
                    /\ Cardinality(DoneSenders(d)) \in 0 .. THREADS
                    /\ Cardinality(DoneSenders(d)) >= THREADS => DoneSenders(d) = Thread
<1> TAKE d \in Thread
<1>1. IsFiniteSet(Thread) /\ Cardinality(Thread) = THREADS
  <2>1. 0 \in Int /\ THREADS - 1 \in Int
    BY NAssumption
  <2>2. /\ IsFiniteSet(0 .. THREADS-1)
        /\ Cardinality(0 .. THREADS-1) = IF 0 > THREADS-1 THEN 0 ELSE THREADS-1-0+1
    BY <2>1, FS_Interval
  <2>3. (IF 0 > THREADS-1 THEN 0 ELSE THREADS-1-0+1) = THREADS
    BY NAssumption
  <2> QED  BY <2>2, <2>3 DEF Thread
<1>2. DoneSenders(d) \in SUBSET Thread
  BY DEF DoneSenders
<1>3. /\ IsFiniteSet(DoneSenders(d))
      /\ Cardinality(DoneSenders(d)) <= THREADS
      /\ THREADS = Cardinality(DoneSenders(d)) => Thread = DoneSenders(d)
  BY <1>1, <1>2, FS_Subset
<1>4. Cardinality(DoneSenders(d)) \in Nat
  BY <1>3, FS_CardinalityType
<1> QED  BY <1>3, <1>4, NAssumption

\* The senders that are done stay the same.
SameDone(d) == DoneSenders(d)' = DoneSenders(d)

LEMMA SameLastCount ==
  ASSUME LastCount, \A d \in Thread : SameDone(d), UNCHANGED num_done_sending,
         Together' => Together
  PROVE  LastCount'
BY DEF LastCount, SameDone, Together

LEMMA PostDone ==
  ASSUME TypeOKEx2, NEW p \in Thread, NEW d \in Thread, NEW m, Posts(p, d, m)
  PROVE  \A e \in Thread : SameDone(e)
<1>1. \A q, e \in Thread : q # p \/ e # d => SamePair(q, e)
  BY PostPairs
<1>2. NoteTo(p, d)'
  BY PostPairs
<1>3. /\ d \in unflushed[p]
      /\ \A q, e \in Thread : q # p \/ e # d => (e \in unflushed'[q] <=> e \in unflushed[q])
  BY DEF Posts
<1>4. \A q, e \in Thread : q \in DoneSenders(e)' <=> q \in DoneSenders(e)
  BY <1>1, <1>2, <1>3 DEF DoneSenders, SamePair
<1> QED  BY <1>4 DEF SameDone, DoneSenders

LEMMA ClaimDone ==
  ASSUME TypeOKEx2, Notes, NEW p \in Thread, NEW m \in note[p], Claims(p, m),
         UNCHANGED <<queue, active, unflushed>>
  PROVE  \A e \in Thread : SameDone(e)
<1>1. \A q, e \in Thread : SamePair(q, e)
  BY ClaimPairs
<1>4. \A q, e \in Thread : q \in DoneSenders(e)' <=> q \in DoneSenders(e)
  BY <1>1 DEF DoneSenders, SamePair
<1> QED  BY <1>4 DEF SameDone, DoneSenders

LEMMA LandDone ==
  ASSUME TypeOKEx2, Notes, Claimed, NEW p \in Thread, NEW m \in note[p], Lands(p, m),
         UNCHANGED <<active, unflushed>>
  PROVE  \A e \in Thread : SameDone(e)
<1>1. /\ \A q, e \in Thread : q # p \/ e # m.to => SamePair(q, e)
      /\ NoteTo(p, m.to) /\ QueuedFrom(p, m.to)'
  BY LandPairs
<1>4. \A q, e \in Thread : q \in DoneSenders(e)' <=> q \in DoneSenders(e)
  BY <1>1 DEF DoneSenders, SamePair
<1> QED  BY <1>4 DEF SameDone, DoneSenders

LEMMA ReleaseDone ==
  ASSUME NEW r \in Thread, NEW s, Releases(r, s)
  PROVE  \A e \in Thread : SameDone(e)
BY DEF Releases, SameDone, DoneSenders, NoteTo, QueuedFrom, wires, flush

\* Activate counts the sender of the last message, and it is new.
LEMMA ActivateCount ==
  ASSUME TypeOKEx2, Queued, Credit, LastCount, NEW r \in Thread, NEW s, NEW i, Takes(r, s, i),
         num_done_sending' = [num_done_sending EXCEPT ![r] = num_done_sending[r] + Lasts(r)],
         Together
  PROVE  LastCount' /\ num_done_sending' \in [Thread -> 0 .. THREADS]
<1>1. /\ \A q, e \in Thread : q # s \/ e # r => SamePair(q, e)
      /\ NoteTo(s, r)' <=> NoteTo(s, r)
      /\ QueuedFrom(s, r) /\ ~QueuedFrom(s, r)'
  BY ActivatePairs
<1>2. /\ s \in Thread /\ i \in Position /\ queue[r][i] \in Message /\ queue[r][i].pe = s
      /\ NextMessage(r) = queue[r][i] /\ unflushed' = unflushed
  BY DEF Takes, flush
<1>3. queue[r][i].last <=> r \notin unflushed[s]
  BY <1>2, FreeIsNone DEF Queued
<1>4. ~NoteTo(s, r)
  BY <1>1, <1>2, CreditNow DEF CreditOf
<1>5. \A e \in Thread : e # r => DoneSenders(e)' = DoneSenders(e)
  <2> TAKE e \in Thread
  <2> HAVE e # r
  <2>1. \A q \in Thread : q \in DoneSenders(e)' <=> q \in DoneSenders(e)
    BY <1>1, <1>2 DEF DoneSenders, SamePair
  <2> QED  BY <2>1 DEF DoneSenders
<1>6. s \notin DoneSenders(r)
  BY <1>1 DEF DoneSenders
<1>7. \A q \in Thread : q # s => (q \in DoneSenders(r)' <=> q \in DoneSenders(r))
  BY <1>1, <1>2 DEF DoneSenders, SamePair
<1>8. s \in DoneSenders(r)' <=> r \notin unflushed[s]
  BY <1>1, <1>2, <1>4 DEF DoneSenders
<1>9. \A e \in Thread : num_done_sending[e] = Cardinality(DoneSenders(e))
  BY DEF LastCount, Together
<1>10. num_done_sending[r] + Lasts(r) = Cardinality(DoneSenders(r)')
  <2>1. CASE r \notin unflushed[s]
    <3>1. DoneSenders(r)' = DoneSenders(r) \cup {s}
      BY <2>1, <1>2, <1>7, <1>8 DEF DoneSenders
    <3>2. Cardinality(DoneSenders(r) \cup {s}) = Cardinality(DoneSenders(r)) + 1
      <4> DEFINE S == DoneSenders(r)
      <4>1. s \notin S /\ IsFiniteSet(S)
        BY <1>6, DoneFinite
      <4> HIDE DEF S
      <4>2. Cardinality(S \cup {s}) = Cardinality(S) + 1
        BY <4>1, FS_AddElement
      <4> QED  BY <4>2 DEF S
    <3>3. Lasts(r) = 1
      BY <2>1, <1>2, <1>3 DEF Lasts
    <3> QED  BY <3>1, <3>2, <3>3, <1>9
  <2>2. CASE r \in unflushed[s]
    <3>1. DoneSenders(r)' = DoneSenders(r)
      BY <2>2, <1>2, <1>6, <1>7, <1>8 DEF DoneSenders
    <3>3. Lasts(r) = 0
      BY <2>2, <1>2, <1>3 DEF Lasts
    <3>4. num_done_sending[r] \in 0 .. THREADS
      BY PEntries
    <3> QED  BY <3>1, <3>3, <3>4, <1>9, NAssumption
  <2> QED  BY <2>1, <2>2
<1>11. /\ num_done_sending'[r] = num_done_sending[r] + Lasts(r)
       /\ \A e \in Thread : e # r => num_done_sending'[e] = num_done_sending[e]
  BY DEF TypeOKEx2
<1>12. \A e \in Thread : num_done_sending'[e] = Cardinality(DoneSenders(e)')
  BY <1>5, <1>9, <1>10, <1>11
<1>13. \A e \in Thread : Cardinality(DoneSenders(e)') \in 0 .. THREADS
  <2>1. (\A d \in Thread :
            /\ IsFiniteSet(DoneSenders(d))
            /\ Cardinality(DoneSenders(d)) \in 0 .. THREADS
            /\ Cardinality(DoneSenders(d)) >= THREADS => DoneSenders(d) = Thread)'
    BY DoneFinite, PTL
  <2> QED  BY <2>1
<1>14. num_done_sending' \in [Thread -> 0 .. THREADS]
  <2> DEFINE v == num_done_sending[r] + Lasts(r)
             T == 0 .. THREADS
  <2>1. v \in T
    BY <1>10, <1>13
  <2>2. num_done_sending \in [Thread -> T] /\ num_done_sending' = [num_done_sending EXCEPT ![r] = v]
    BY DEF TypeOKEx2
  <2> HIDE DEF v, T
  <2>3. num_done_sending' \in [Thread -> T]
    BY <2>1, <2>2
  <2> QED  BY <2>3 DEF T
<1> QED  BY <1>12, <1>14 DEF LastCount

-----------------------------------------------------------------------------
(* Bounds *)

LEMMA SameBounds ==
  ASSUME Bounds, UNCHANGED <<snd, data, note, queue, pop_ptr, pop_cnt>>
  PROVE  Bounds'
BY DEF Bounds

\* What changes when p sends its buffer for d.
LEMMA SendBounds ==
  ASSUME TypeOKEx2, Bounds, NEW p \in Thread, NEW d \in Thread, NEW last \in BOOLEAN,
         NEW rest \in Seq(Nat), Len(rest) <= BufCnt, Send(p, d, last, rest),
         UNCHANGED <<pop_ptr, pop_cnt>>
  PROVE  Bounds'
<1> DEFINE pkgs == snd[p][d]
           c == Len(pkgs)
           v == [pe |-> p, cnt |-> c, last |-> last]
           m == [to |-> d, position |-> Unclaimed, msg |-> v]
           x == [to |-> d, pkgs |-> pkgs]
           D == IF pkgs = <<>> THEN {} ELSE {x}
<1>1. /\ data' = [data EXCEPT ![p] = D] /\ note' = [note EXCEPT ![p] = {m}]
      /\ snd' = [snd EXCEPT ![p][d] = rest] /\ queue' = queue
  BY DEF Send
<1>2. m.msg.cnt = c /\ x.pkgs = pkgs
  OBVIOUS
<1>3. c <= BufCnt
  BY DEF Bounds
<1>4. \A y \in D : y = x
  OBVIOUS
<1> HIDE DEF m, x, D, c
<1>5. \A q, e \in Thread : Len(snd'[q][e]) <= BufCnt
  <2> TAKE q, e \in Thread
  <2>1. CASE q = p /\ e = d
    <3>1. snd'[q][e] = rest
      BY <1>1, <2>1 DEF TypeOKEx2
    <3> QED  BY <3>1
  <2>2. CASE q # p \/ e # d
    <3>1. snd'[q][e] = snd[q][e]
      BY <1>1, <2>2 DEF TypeOKEx2
    <3> QED  BY <3>1 DEF Bounds
  <2> QED  BY <2>1, <2>2
<1>6. \A q \in Thread : \A y \in data'[q] : Len(y.pkgs) <= BufCnt
  <2> TAKE q \in Thread
  <2> TAKE y \in data'[q]
  <2>1. CASE q = p
    <3>1. y = x
      BY <1>1, <1>4, <2>1 DEF TypeOKEx2
    <3> QED  BY <3>1, <1>2, <1>3 DEF c
  <2>2. CASE q # p
    <3>1. y \in data[q]
      BY <1>1, <2>2 DEF TypeOKEx2
    <3> QED  BY <3>1 DEF Bounds
  <2> QED  BY <2>1, <2>2
<1>7. \A q \in Thread : \A y \in note'[q] : y.msg.cnt <= BufCnt
  <2> TAKE q \in Thread
  <2> TAKE y \in note'[q]
  <2>1. CASE q = p
    <3>1. y = m
      BY <1>1, <2>1 DEF TypeOKEx2
    <3> QED  BY <3>1, <1>2, <1>3
  <2>2. CASE q # p
    <3>1. y \in note[q]
      BY <1>1, <2>2 DEF TypeOKEx2
    <3> QED  BY <3>1 DEF Bounds
  <2> QED  BY <2>1, <2>2
<1>8. \A r \in Thread : \A i \in Position : queue'[r][i].cnt <= BufCnt
  BY <1>1 DEF Bounds
<1>9. \A r, s \in Thread : pop_ptr'[r][s] + pop_cnt'[r][s] <= BufCnt
  BY DEF Bounds
<1>10. Position' = Position
  BY DEF Position
<1> QED  BY <1>5, <1>6, <1>7, <1>8, <1>9 DEF Bounds

LEMMA PushBounds ==
  ASSUME TypeOKEx2, Bounds, NEW p \in Thread, NEW d \in Thread, PushEx2(p, d)
  PROVE  Bounds'
<1> DEFINE item == items_pushed[p][d] + 1
<1>1. item \in Nat
  BY Entries
<1> HIDE DEF item
<1>2. UNCHANGED <<pop_ptr, pop_cnt>>
  BY PushCases DEF receiver
<1>3. CASE Appends(p, d)
  <2> DEFINE t == Append(snd[p][d], item)
  <2>1. /\ snd' = [snd EXCEPT ![p][d] = t] /\ Len(snd[p][d]) < BufCnt
        /\ UNCHANGED <<data, note, queue>>
    BY <1>3 DEF Appends, item, wires
  <2>2. Len(t) <= BufCnt
    <3>1. snd[p][d] \in Seq(Nat) /\ Len(snd[p][d]) \in Nat
      BY Entries
    <3>2. Len(t) = Len(snd[p][d]) + 1
      BY <3>1, <1>1
    <3> QED  BY <3>1, <3>2, <2>1, BufCntAssumption
  <2> HIDE DEF t
  <2>3. \A q, e \in Thread : Len(snd'[q][e]) <= BufCnt
    <3> TAKE q, e \in Thread
    <3>1. CASE q = p /\ e = d
      <4>1. snd'[q][e] = t
        BY <2>1, <3>1 DEF TypeOKEx2
      <4> QED  BY <4>1, <2>2
    <3>2. CASE q # p \/ e # d
      <4>1. snd'[q][e] = snd[q][e]
        BY <2>1, <3>2 DEF TypeOKEx2
      <4> QED  BY <4>1 DEF Bounds
    <3> QED  BY <3>1, <3>2
  <2> QED  BY <1>2, <2>1, <2>3 DEF Bounds
<1>4. CASE SendsFull(p, d)
  <2>1. Send(p, d, FALSE, <<item>>)
    BY <1>4 DEF SendsFull, item
  <2>2. <<item>> \in Seq(Nat) /\ Len(<<item>>) <= BufCnt
    BY <1>1, BufCntAssumption
  <2> QED  BY <2>1, <2>2, <1>2, SendBounds
<1> QED  BY <1>3, <1>4, PushCases

\* One entry of the pop state changes.
LEMMA PopBounds ==
  ASSUME TypeOKEx2, Bounds, NEW r \in Thread, NEW s \in Thread, NEW i \in Nat, NEW c \in Nat,
         i + c <= BufCnt,
         pop_ptr' = [pop_ptr EXCEPT ![r][s] = i],
         pop_cnt' = [pop_cnt EXCEPT ![r][s] = c],
         UNCHANGED <<snd, data, note>>,
         \A e \in Thread : \A j \in Position : queue'[e][j].cnt <= BufCnt
  PROVE  Bounds'
<1>1. \A q, e \in Thread : pop_ptr'[q][e] + pop_cnt'[q][e] <= BufCnt
  <2> TAKE q, e \in Thread
  <2>1. CASE q = r /\ e = s
    <3>1. pop_ptr'[q][e] = i /\ pop_cnt'[q][e] = c
      BY <2>1 DEF TypeOKEx2
    <3> QED  BY <3>1
  <2>2. CASE q # r \/ e # s
    <3>1. pop_ptr'[q][e] = pop_ptr[q][e] /\ pop_cnt'[q][e] = pop_cnt[q][e]
      BY <2>2 DEF TypeOKEx2
    <3> QED  BY <3>1 DEF Bounds
  <2> QED  BY <2>1, <2>2
<1> QED  BY <1>1 DEF Bounds, Position

LEMMA PopItemBounds ==
  ASSUME TypeOKEx2, Bounds, NEW r \in Thread, PopItem(r)
  PROVE  Bounds'
<1> DEFINE s == pop_pe[r]
<1>1. /\ s # None /\ pop_cnt[r][s] > 0
      /\ pop_ptr' = [pop_ptr EXCEPT ![r][s] = pop_ptr[r][s] + 1]
      /\ pop_cnt' = [pop_cnt EXCEPT ![r][s] = pop_cnt[r][s] - 1]
      /\ UNCHANGED <<snd, data, note, queue>>
  BY DEF PopItem, HasItem, sender, wires
<1>2. s \in Thread
  BY <1>1, PEntries
<1> HIDE DEF s
<1>3. pop_ptr[r][s] \in Nat /\ pop_cnt[r][s] \in Nat /\ pop_ptr[r][s] + pop_cnt[r][s] <= BufCnt
  BY <1>2, Entries DEF Bounds
<1>4. \A e \in Thread : \A j \in Position : queue'[e][j].cnt <= BufCnt
  BY <1>1 DEF Bounds
<1> DEFINE i == pop_ptr[r][s] + 1  c == pop_cnt[r][s] - 1
<1>5. i \in Nat /\ c \in Nat /\ i + c <= BufCnt
  BY <1>3, <1>1, BufCntAssumption
<1>6. pop_ptr' = [pop_ptr EXCEPT ![r][s] = i] /\ pop_cnt' = [pop_cnt EXCEPT ![r][s] = c]
  BY <1>1
<1> HIDE DEF i, c
<1> QED  BY <1>1, <1>2, <1>4, <1>5, <1>6, PopBounds

LEMMA UnpopBounds ==
  ASSUME TypeOKEx2, Bounds, Popping, NEW r \in Thread, Unpop(r)
  PROVE  Bounds'
<1> DEFINE s == pop_pe[r]
<1>1. /\ s # None /\ pc[r] = "idle"
      /\ pop_ptr' = [pop_ptr EXCEPT ![r][s] = pop_ptr[r][s] - 1]
      /\ pop_cnt' = [pop_cnt EXCEPT ![r][s] = pop_cnt[r][s] + 1]
      /\ UNCHANGED <<snd, data, note, queue>>
  BY DEF Unpop, Ready, sender, wires
<1>2. s \in Thread /\ pop_ptr[r][s] > 0
  BY <1>1, PEntries DEF Popping
<1> HIDE DEF s
<1>3. pop_ptr[r][s] \in Nat /\ pop_cnt[r][s] \in Nat /\ pop_ptr[r][s] + pop_cnt[r][s] <= BufCnt
  BY <1>2, Entries DEF Bounds
<1>4. \A e \in Thread : \A j \in Position : queue'[e][j].cnt <= BufCnt
  BY <1>1 DEF Bounds
<1> DEFINE i == pop_ptr[r][s] - 1  c == pop_cnt[r][s] + 1
<1>5. i \in Nat /\ c \in Nat /\ i + c <= BufCnt
  BY <1>3, <1>2, BufCntAssumption
<1>6. pop_ptr' = [pop_ptr EXCEPT ![r][s] = i] /\ pop_cnt' = [pop_cnt EXCEPT ![r][s] = c]
  BY <1>1
<1> HIDE DEF i, c
<1> QED  BY <1>1, <1>2, <1>4, <1>5, <1>6, PopBounds

LEMMA ActivateBounds ==
  ASSUME TypeOKEx2, Bounds, NEW r \in Thread, NEW s, NEW i, Activate(r), Takes(r, s, i)
  PROVE  Bounds'
<1>1. /\ s \in Thread /\ i \in Position /\ queue[r][i] \in Message /\ queue[r][i].pe = s
      /\ NextMessage(r) = queue[r][i] /\ queue' = [queue EXCEPT ![r][i] = Free]
      /\ UNCHANGED <<snd, data, note>>
  BY DEF Takes, sender
<1>2. \A e \in Thread : \A j \in Position : queue'[e][j].cnt <= BufCnt
  <2> TAKE e \in Thread
  <2> TAKE j \in Position
  <2>1. CASE e = r /\ j = i
    <3>1. queue'[e][j] = Free
      BY <1>1, <2>1 DEF TypeOKEx2
    <3> QED  BY <3>1, BufCntAssumption DEF Free
  <2>2. CASE e # r \/ j # i
    <3>1. queue'[e][j] = queue[e][j]
      BY <1>1, <2>2 DEF TypeOKEx2
    <3> QED  BY <3>1 DEF Bounds
  <2> QED  BY <2>1, <2>2
<1> DEFINE c == queue[r][i].cnt
<1>3. c \in Nat /\ c <= BufCnt
  BY <1>1 DEF Message, Bounds
<1>4. IF c # 0 THEN /\ pop_cnt' = [pop_cnt EXCEPT ![r][s] = c]
                    /\ pop_ptr' = [pop_ptr EXCEPT ![r][s] = 0]
               ELSE UNCHANGED <<pop_cnt, pop_ptr>>
  BY <1>1, ActivateCases
<1> HIDE DEF c
<1>5. CASE c # 0
  <2>1. 0 \in Nat /\ 0 + c <= BufCnt
    BY <1>3
  <2>2. pop_cnt' = [pop_cnt EXCEPT ![r][s] = c] /\ pop_ptr' = [pop_ptr EXCEPT ![r][s] = 0]
    BY <1>4, <1>5
  <2> QED  BY <2>1, <2>2, <1>1, <1>2, <1>3, PopBounds
<1>6. CASE c = 0
  BY <1>6, <1>4, <1>1, <1>2 DEF Bounds, Position
<1> QED  BY <1>5, <1>6

LEMMA LandDataBounds ==
  ASSUME TypeOKEx2, Bounds, NEW p \in Thread, LandData(p)
  PROVE  Bounds'
<1>1. /\ data' = [data EXCEPT ![p] = {}]
      /\ UNCHANGED <<snd, note, queue, pop_ptr, pop_cnt>>
  BY DEF LandData, sender
<1>2. \A q \in Thread : data'[q] \subseteq data[q]
  BY <1>1 DEF TypeOKEx2
<1> QED  BY <1>1, <1>2 DEF Bounds

LEMMA ClaimBounds ==
  ASSUME TypeOKEx2, Bounds, Notes, NEW p \in Thread, NEW m \in note[p], Claims(p, m),
         UNCHANGED <<snd, data, queue, pop_ptr, pop_cnt>>
  PROVE  Bounds'
<1>1. PICK n \in note'[p] : note'[p] = {n} /\ n.msg = m.msg
  BY ClaimChanges
<1>2. \A q \in Thread : q # p => note'[q] = note[q]
  BY ClaimChanges
<1>3. \A q \in Thread : \A y \in note'[q] : y.msg.cnt <= BufCnt
  <2> TAKE q \in Thread
  <2> TAKE y \in note'[q]
  <2>1. CASE q = p
    BY <2>1, <1>1 DEF Bounds
  <2>2. CASE q # p
    BY <2>2, <1>2 DEF Bounds
  <2> QED  BY <2>1, <2>2
<1> QED  BY <1>3 DEF Bounds

LEMMA LandBounds ==
  ASSUME TypeOKEx2, Bounds, Notes, Claimed, NEW p \in Thread, NEW m \in note[p], Lands(p, m),
         UNCHANGED <<snd, data, pop_ptr, pop_cnt>>
  PROVE  Bounds'
<1>1. /\ m.to \in Thread /\ m.position \in Position
      /\ note'[p] = {} /\ \A q \in Thread : q # p => note'[q] = note[q]
      /\ queue'[m.to][m.position] = m.msg
      /\ \A e \in Thread : \A j \in Position :
           e # m.to \/ j # m.position => queue'[e][j] = queue[e][j]
  BY LandChanges
<1>2. \A q \in Thread : \A y \in note'[q] : y.msg.cnt <= BufCnt
  BY <1>1 DEF Bounds
<1>3. \A e \in Thread : \A j \in Position : queue'[e][j].cnt <= BufCnt
  BY <1>1 DEF Bounds
<1> QED  BY <1>2, <1>3 DEF Bounds, Position

-----------------------------------------------------------------------------
(* Popping *)

PoppingOf(r) ==
  /\ seen[r] <= num_msgs[r]
  /\ pc[r] # "activate" => seen[r] = 0
  /\ pop_pe[r] # None => /\ current[r] \in 1 .. Len(active[r])
                         /\ active[r][current[r]] = pop_pe[r]
  /\ pc[r] \in {"count", "activate"} => pop_pe[r] = None
  /\ pc[r] \in {"idle", "flush"} /\ pop_pe[r] # None => pop_ptr[r][pop_pe[r]] > 0
  /\ \A s \in Thread : pop_cnt[r][s] > 0 => ActiveFrom(s, r)

LEMMA PoppingNow == Popping <=> \A r \in Thread : PoppingOf(r)
BY DEF Popping, PoppingOf

\* Where r stands with its active buffers, apart from the counts of messages.
SameBuffers(r) ==
  /\ pop_pe'[r] = pop_pe[r] /\ current'[r] = current[r] /\ active'[r] = active[r]
  /\ pop_ptr'[r] = pop_ptr[r] /\ pop_cnt'[r] = pop_cnt[r]

LEMMA SameActive ==
  ASSUME NEW r \in Thread, SameBuffers(r)
  PROVE  \A s \in Thread : ActiveFrom(s, r)' <=> ActiveFrom(s, r)
BY DEF SameBuffers, ActiveFrom

\* A call that does not touch the buffers moves between idle and flush, or stays.
LEMMA SamePopping ==
  ASSUME Popping, NEW r \in Thread, SameBuffers(r), seen'[r] = seen[r],
         num_msgs'[r] = num_msgs[r],
         pc'[r] = pc[r] \/ (pc[r] \in {"idle", "flush"} /\ pc'[r] \in {"idle", "flush"})
  PROVE  PoppingOf(r)'
<1>1. PoppingOf(r)
  BY PoppingNow
<1>2. \A s \in Thread : ActiveFrom(s, r)' <=> ActiveFrom(s, r)
  BY SameActive
<1> QED  BY <1>1, <1>2 DEF PoppingOf, SameBuffers

LEMMA FlushPopping ==
  ASSUME TypeOKEx2, Popping, NEW p \in Thread,
         UNCHANGED <<receiver, num_msgs>>,
         \E v \in {"idle", "flush"} : pc' = [pc EXCEPT ![p] = v],
         pc[p] \in {"idle", "flush"}
  PROVE  Popping'
<1>1. PICK v \in {"idle", "flush"} : pc' = [pc EXCEPT ![p] = v]
  OBVIOUS
<1>2. pc'[p] = v /\ \A r \in Thread : r # p => pc'[r] = pc[r]
  BY <1>1 DEF TypeOKEx2
<1>3. ASSUME NEW r \in Thread PROVE PoppingOf(r)'
  <2>1. SameBuffers(r) /\ seen'[r] = seen[r] /\ num_msgs'[r] = num_msgs[r]
    BY DEF SameBuffers, receiver
  <2>2. pc'[r] = pc[r] \/ (pc[r] \in {"idle", "flush"} /\ pc'[r] \in {"idle", "flush"})
    BY <1>2
  <2> QED  BY <2>1, <2>2, SamePopping
<1> QED  BY <1>3, PoppingNow DEF Popping, PoppingOf

LEMMA StillPopping ==
  ASSUME Popping, UNCHANGED <<receiver, num_msgs, pc>>
  PROVE  Popping'
<1>1. ASSUME NEW r \in Thread PROVE PoppingOf(r)'
  <2>1. SameBuffers(r) /\ seen'[r] = seen[r] /\ num_msgs'[r] = num_msgs[r] /\ pc'[r] = pc[r]
    BY DEF SameBuffers, receiver
  <2> QED  BY <2>1, SamePopping
<1> QED  BY <1>1 DEF Popping, PoppingOf

\* Nothing that the others rely on changes.
OnlyFor(r) == \A q \in Thread : q # r =>
  SameBuffers(q) /\ seen'[q] = seen[q] /\ num_msgs'[q] = num_msgs[q] /\ pc'[q] = pc[q]

LEMMA PoppingStep ==
  ASSUME Popping, NEW r \in Thread, OnlyFor(r), PoppingOf(r)'
  PROVE  Popping'
<1>1. ASSUME NEW q \in Thread, q # r PROVE PoppingOf(q)'
  BY <1>1, SamePopping DEF OnlyFor
<1> QED  BY <1>1 DEF Popping, PoppingOf

LEMMA PopItemPopping ==
  ASSUME TypeOKEx2, Popping, NEW r \in Thread, PopItem(r)
  PROVE  Popping'
<1> DEFINE s == pop_pe[r]
<1>1. /\ s # None /\ pop_cnt[r][s] > 0 /\ pc[r] \in {"idle", "again"}
      /\ pop_ptr' = [pop_ptr EXCEPT ![r][s] = pop_ptr[r][s] + 1]
      /\ pop_cnt' = [pop_cnt EXCEPT ![r][s] = pop_cnt[r][s] - 1]
      /\ pc' = [pc EXCEPT ![r] = "idle"]
      /\ UNCHANGED <<num_msgs, seen, pop_pe, current, active>>
  BY DEF PopItem, HasItem, AtHead, wires
<1>2. s \in Thread
  BY <1>1, PEntries
<1>3. OnlyFor(r)
  BY <1>1 DEF OnlyFor, SameBuffers, TypeOKEx2
<1>4. PoppingOf(r)
  BY PoppingNow
<1>5. /\ pc'[r] = "idle" /\ pop_ptr'[r][s] = pop_ptr[r][s] + 1
      /\ pop_cnt'[r][s] = pop_cnt[r][s] - 1
      /\ \A e \in Thread : e # s => pop_cnt'[r][e] = pop_cnt[r][e]
  BY <1>1, <1>2 DEF TypeOKEx2
<1>6. pop_ptr'[r][s] > 0
  BY <1>2, <1>5, Entries
<1>7. \A e \in Thread : pop_cnt'[r][e] > 0 => ActiveFrom(e, r)'
  <2> TAKE e \in Thread
  <2>1. ActiveFrom(e, r)' <=> ActiveFrom(e, r)
    BY <1>1 DEF ActiveFrom
  <2> QED  BY <2>1, <1>1, <1>4, <1>5 DEF PoppingOf
<1>8. PoppingOf(r)'
  BY <1>1, <1>4, <1>5, <1>6, <1>7 DEF PoppingOf
<1> QED  BY <1>3, <1>8, PoppingStep

LEMMA ReleasePopping ==
  ASSUME TypeOKEx2, Popping, ActiveOnce, NEW r \in Thread, NEW s, Releases(r, s),
         pc[r] \in {"idle", "again"}, ~HasItem(r)
  PROVE  Popping'
<1>1. /\ s = pop_pe[r] /\ s \in Thread
      /\ active' = [active EXCEPT ![r] = Removed(active[r], current[r])]
      /\ pop_pe' = [pop_pe EXCEPT ![r] = None]
      /\ pc' = [pc EXCEPT ![r] = "count"]
      /\ UNCHANGED <<num_msgs, seen, current, pop_cnt, pop_ptr>>
  BY DEF Releases, wires
<1>2. OnlyFor(r)
  BY <1>1 DEF OnlyFor, SameBuffers, TypeOKEx2
<1>3. PoppingOf(r)
  BY PoppingNow
<1>4. pop_pe'[r] = None /\ pc'[r] = "count"
  BY <1>1 DEF TypeOKEx2
<1>5. pop_cnt[r][s] = 0
  <2>1. ~(pop_cnt[r][s] > 0)
    BY <1>1, FreeIsNone DEF HasItem
  <2> QED  BY <2>1, <1>1, Entries
<1>6. \A e \in Thread : pop_cnt'[r][e] > 0 => ActiveFrom(e, r)'
  <2> TAKE e \in Thread
  <2> HAVE pop_cnt'[r][e] > 0
  <2>1. e # s
    BY <1>1, <1>5
  <2>2. ActiveFrom(e, r)
    BY <1>1, <1>3 DEF PoppingOf
  <2>3. SamePair(e, r)
    BY <2>1, ReleasePairs
  <2> QED  BY <2>2, <2>3 DEF SamePair
<1>7. PoppingOf(r)'
  BY <1>1, <1>3, <1>4, <1>6 DEF PoppingOf
<1> QED  BY <1>2, <1>7, PoppingStep

LEMMA CountPopping ==
  ASSUME TypeOKEx2, Popping, NEW r \in Thread, CountMessages(r)
  PROVE  Popping'
<1>1. /\ pc[r] = "count" \/ pop_pe[r] = None
      /\ seen' = [seen EXCEPT ![r] = num_msgs[r]]
      /\ pc' = [pc EXCEPT ![r] = "activate"]
      /\ UNCHANGED <<num_msgs, active, current, pop_pe, pop_cnt, pop_ptr>>
  BY DEF CountMessages, wires
<1>2. OnlyFor(r)
  BY <1>1 DEF OnlyFor, SameBuffers, TypeOKEx2
<1>3. PoppingOf(r)
  BY PoppingNow
<1>4. seen'[r] = num_msgs[r] /\ pc'[r] = "activate" /\ num_msgs[r] \in Nat
  BY <1>1 DEF TypeOKEx2
<1>5. pop_pe[r] = None
  BY <1>1, <1>3 DEF PoppingOf
<1>6. \A e \in Thread : ActiveFrom(e, r)' <=> ActiveFrom(e, r)
  BY <1>1 DEF ActiveFrom
<1>7. PoppingOf(r)'
  BY <1>1, <1>3, <1>4, <1>5, <1>6 DEF PoppingOf
<1> QED  BY <1>2, <1>7, PoppingStep

LEMMA ActivatePopping ==
  ASSUME TypeOKEx2, Popping, Queued, NEW r \in Thread, NEW s, NEW i, Activate(r), Takes(r, s, i)
  PROVE  Popping'
<1>1. /\ pc[r] = "activate" /\ s \in Thread /\ i \in Position
      /\ queue[r][i] \in Message /\ queue[r][i].pe = s /\ NextMessage(r) = queue[r][i]
      /\ active' = [active EXCEPT ![r] = Append(active[r], s)]
      /\ UNCHANGED <<num_msgs, current, pop_pe, seen, pc>>
  BY DEF Takes
<1> DEFINE c == queue[r][i].cnt
<1>2. IF c # 0 THEN /\ pop_cnt' = [pop_cnt EXCEPT ![r][s] = c]
                    /\ pop_ptr' = [pop_ptr EXCEPT ![r][s] = 0]
               ELSE UNCHANGED <<pop_cnt, pop_ptr>>
  BY <1>1, ActivateCases
<1> HIDE DEF c
<1>3. OnlyFor(r)
  <2>1. \A q \in Thread : q # r => pop_cnt'[q] = pop_cnt[q] /\ pop_ptr'[q] = pop_ptr[q]
    <3>1. pop_cnt \in [Thread -> [Thread -> Nat]] /\ pop_ptr \in [Thread -> [Thread -> Nat]]
      BY Zenon DEF TypeOKEx2
    <3> QED  BY ONLY <3>1, <1>2
  <2>2. \A q \in Thread : q # r => active'[q] = active[q]
    BY <1>1 DEF TypeOKEx2
  <2> QED  BY <2>1, <2>2, <1>1 DEF OnlyFor, SameBuffers
<1>4. PoppingOf(r)
  BY PoppingNow
<1>5. \A e \in Thread : e # s => pop_cnt'[r][e] = pop_cnt[r][e]
  <2>1. CASE c # 0
    <3>1. pop_cnt' = [pop_cnt EXCEPT ![r][s] = c] /\ pop_cnt \in [Thread -> [Thread -> Nat]]
      BY <2>1, <1>2 DEF TypeOKEx2
    <3> QED  BY <3>1, <1>1
  <2>2. CASE c = 0
    BY <2>2, <1>2
  <2> QED  BY <2>1, <2>2
<1>6. ActiveFrom(s, r)' /\ \A e \in Thread : e # s => SamePair(e, r)
  BY ActivatePairs
<1>7. \A e \in Thread : pop_cnt'[r][e] > 0 => ActiveFrom(e, r)'
  <2> TAKE e \in Thread
  <2>1. CASE e = s
    BY <2>1, <1>6
  <2>2. CASE e # s
    BY <2>2, <1>4, <1>5, <1>6 DEF PoppingOf, SamePair
  <2> QED  BY <2>1, <2>2
<1>8. PoppingOf(r)'
  BY <1>1, <1>4, <1>7 DEF PoppingOf
<1> QED  BY <1>3, <1>8, PoppingStep

LEMMA PickPopping ==
  ASSUME TypeOKEx2, Popping, NEW r \in Thread, Pick(r)
  PROVE  Popping'
<1>1. /\ pc[r] = "activate" /\ seen' = [seen EXCEPT ![r] = 0]
      /\ UNCHANGED <<num_msgs, active, pop_cnt, pop_ptr>>
  BY DEF Pick, wires
<1>2. PoppingOf(r) /\ num_msgs[r] \in Nat
  BY PoppingNow, PEntries
<1>3. seen'[r] = 0 /\ \A q \in Thread : q # r => seen'[q] = seen[q]
  BY <1>1 DEF TypeOKEx2
<1>4. \A e \in Thread : ActiveFrom(e, r)' <=> ActiveFrom(e, r)
  BY <1>1 DEF ActiveFrom
<1>5. CASE pc' = [pc EXCEPT ![r] = "idle"] /\ UNCHANGED <<current, pop_pe>>
  <2>1. pc'[r] = "idle" /\ \A q \in Thread : q # r => pc'[q] = pc[q]
    BY <1>5 DEF TypeOKEx2
  <2>2. OnlyFor(r)
    BY <1>1, <1>3, <1>5, <2>1 DEF OnlyFor, SameBuffers
  <2>3. PoppingOf(r)'
    BY <1>1, <1>2, <1>3, <1>4, <1>5, <2>1 DEF PoppingOf
  <2> QED  BY <2>2, <2>3, PoppingStep
<1>6. ASSUME NEW i \in 1 .. Len(active[r]),
             current' = [current EXCEPT ![r] = i],
             pop_pe'  = [pop_pe EXCEPT ![r] = active[r][i]],
             pc'      = [pc EXCEPT ![r] = "again"]
      PROVE  Popping'
  <2>1. /\ pc'[r] = "again" /\ current'[r] = i /\ pop_pe'[r] = active[r][i]
        /\ \A q \in Thread : q # r => /\ pc'[q] = pc[q] /\ current'[q] = current[q]
                                      /\ pop_pe'[q] = pop_pe[q]
    BY <1>6 DEF TypeOKEx2
  <2>2. OnlyFor(r)
    BY <1>1, <1>3, <2>1 DEF OnlyFor, SameBuffers
  <2>3. PoppingOf(r)'
    BY <1>1, <1>2, <1>3, <1>4, <2>1 DEF PoppingOf
  <2> QED  BY <2>2, <2>3, PoppingStep
<1> QED  BY <1>5, <1>6 DEF Pick

LEMMA UnpopPopping ==
  ASSUME TypeOKEx2, Popping, NEW r \in Thread, Unpop(r)
  PROVE  Popping'
<1> DEFINE s == pop_pe[r]
<1>1. /\ s # None /\ pc[r] = "idle"
      /\ pop_ptr' = [pop_ptr EXCEPT ![r][s] = pop_ptr[r][s] - 1]
      /\ pop_cnt' = [pop_cnt EXCEPT ![r][s] = pop_cnt[r][s] + 1]
      /\ pop_pe' = [pop_pe EXCEPT ![r] = None]
      /\ UNCHANGED <<num_msgs, seen, current, active, pc>>
  BY DEF Unpop, Ready, wires
<1>2. s \in Thread
  BY <1>1, PEntries
<1>3. OnlyFor(r)
  BY <1>1 DEF OnlyFor, SameBuffers, TypeOKEx2
<1>4. PoppingOf(r)
  BY PoppingNow
<1>5. /\ pop_pe'[r] = None
      /\ \A e \in Thread : e # s => pop_cnt'[r][e] = pop_cnt[r][e]
  BY <1>1, <1>2 DEF TypeOKEx2
<1>6. ActiveFrom(s, r)
  <2>1. active[r] \in Seq(Thread) /\ current[r] \in 1 .. Len(active[r]) /\ active[r][current[r]] = s
    BY <1>1, <1>4, PEntries DEF PoppingOf
  <2> QED  BY <2>1 DEF ActiveFrom
<1>7. \A e \in Thread : ActiveFrom(e, r)' <=> ActiveFrom(e, r)
  BY <1>1 DEF ActiveFrom
<1>8. \A e \in Thread : pop_cnt'[r][e] > 0 => ActiveFrom(e, r)'
  BY <1>4, <1>5, <1>6, <1>7 DEF PoppingOf
<1>9. PoppingOf(r)'
  BY <1>1, <1>4, <1>5, <1>8 DEF PoppingOf
<1> QED  BY <1>3, <1>9, PoppingStep

LEMMA ClaimPopping ==
  ASSUME TypeOKEx2, Notes, Popping, NEW p \in Thread, NEW m \in note[p], Claims(p, m),
         UNCHANGED <<receiver, pc>>
  PROVE  Popping'
<1>1. /\ m.to \in Thread
      /\ num_msgs'[m.to] = num_msgs[m.to] + 1
      /\ \A q \in Thread : q # m.to => num_msgs'[q] = num_msgs[q]
  BY ClaimChanges
<1>2. ASSUME NEW r \in Thread PROVE PoppingOf(r)'
  <2>1. SameBuffers(r) /\ seen'[r] = seen[r] /\ pc'[r] = pc[r]
    BY DEF SameBuffers, receiver
  <2>2. PoppingOf(r)
    BY PoppingNow
  <2>3. \A s \in Thread : ActiveFrom(s, r)' <=> ActiveFrom(s, r)
    BY <2>1, SameActive
  <2>4. seen'[r] <= num_msgs'[r]
    <3>1. seen[r] \in Nat /\ num_msgs[r] \in Nat /\ seen[r] <= num_msgs[r]
      BY PEntries, <2>2 DEF PoppingOf
    <3>2. num_msgs'[r] = num_msgs[r] \/ num_msgs'[r] = num_msgs[r] + 1
      BY <1>1
    <3> QED  BY <3>1, <3>2, <2>1
  <2> QED  BY <2>1, <2>2, <2>3, <2>4 DEF PoppingOf, SameBuffers
<1> QED  BY <1>2 DEF Popping, PoppingOf

-----------------------------------------------------------------------------
(* Flushing, Leaving and Stages *)

FlushingOf(p) ==
  /\ todo[p] \subseteq unflushed[p]
  /\ unflushed[p] # Thread => done[p]
  /\ pc[p] = "flush" => done[p]

LEMMA FlushingNow == Flushing <=> \A p \in Thread : FlushingOf(p)
BY DEF Flushing, FlushingOf

LEMMA SameFlushing ==
  ASSUME Flushing, UNCHANGED <<flush, done>>,
         \A q \in Thread : pc'[q] = "flush" => pc[q] = "flush"
  PROVE  Flushing'
BY DEF Flushing, flush

LEMMA FlushingStep ==
  ASSUME TypeOKEx2, Flushing, NEW p \in Thread, FlushingOf(p)',
         \A q \in Thread : q # p => /\ todo'[q] = todo[q] /\ unflushed'[q] = unflushed[q]
                                    /\ done'[q] = done[q] /\ pc'[q] = pc[q]
  PROVE  Flushing'
<1>1. ASSUME NEW q \in Thread, q # p PROVE FlushingOf(q)'
  BY <1>1, FlushingNow DEF FlushingOf, Thread
<1> QED  BY <1>1 DEF Flushing, FlushingOf, Thread

LEMMA FinishFlushing ==
  ASSUME TypeOKEx2, Flushing, NEW p \in Thread, Finish(p)
  PROVE  Flushing'
<1>1. done' = [done EXCEPT ![p] = TRUE] /\ UNCHANGED <<todo, unflushed, pc>>
  BY DEF Finish, flush
<1>2. done'[p] = TRUE /\ \A q \in Thread : q # p => done'[q] = done[q]
  BY <1>1 DEF TypeOKEx2
<1>3. FlushingOf(p)'
  BY <1>1, <1>2, FlushingNow DEF FlushingOf
<1> QED  BY <1>1, <1>2, <1>3, FlushingStep

LEMMA StartFlushFlushing ==
  ASSUME TypeOKEx2, Flushing, NEW p \in Thread, StartFlush(p)
  PROVE  Flushing'
<1>1. /\ done[p] /\ pc' = [pc EXCEPT ![p] = "flush"]
      /\ todo' = [todo EXCEPT ![p] = unflushed[p]]
      /\ UNCHANGED <<unflushed, done>>
  BY DEF StartFlush, cycle
<1>2. /\ todo'[p] = unflushed[p] /\ \A q \in Thread : q # p => todo'[q] = todo[q]
      /\ \A q \in Thread : q # p => pc'[q] = pc[q]
  BY <1>1 DEF TypeOKEx2
<1>3. FlushingOf(p)'
  BY <1>1, <1>2 DEF FlushingOf
<1> QED  BY <1>1, <1>2, <1>3, FlushingStep

LEMMA FlushOneFlushing ==
  ASSUME TypeOKEx2, Flushing, NEW p \in Thread, FlushOne(p)
  PROVE  Flushing'
<1>1. pc[p] = "flush" /\ done' = done
  BY FlushCases DEF cycle
<1>2. PICK d \in todo[p] :
        /\ FlushSends(p, d) \/ FlushSkips(p, d)
        /\ todo' = [todo EXCEPT ![p] = @ \ {d}]
        /\ pc' = [pc EXCEPT ![p] = IF todo[p] = {d} THEN "idle" ELSE "flush"]
  BY FlushCases
<1>3. done[p] /\ todo[p] \subseteq unflushed[p]
  BY <1>1 DEF Flushing
<1>4. /\ todo'[p] = todo[p] \ {d}
      /\ \A q \in Thread : q # p => todo'[q] = todo[q] /\ pc'[q] = pc[q]
  BY <1>2 DEF TypeOKEx2
<1>5. /\ unflushed'[p] = unflushed[p] \ {d} \/ unflushed'[p] = unflushed[p]
      /\ \A q \in Thread : q # p => unflushed'[q] = unflushed[q]
  <2>1. CASE FlushSends(p, d)
    BY <2>1 DEF FlushSends, TypeOKEx2
  <2>2. CASE FlushSkips(p, d)
    BY <2>2 DEF FlushSkips
  <2> QED  BY <2>1, <2>2, <1>2
<1>6. FlushingOf(p)'
  BY <1>1, <1>3, <1>4, <1>5 DEF FlushingOf
<1> QED  BY <1>1, <1>4, <1>5, <1>6, FlushingStep

-----------------------------------------------------------------------------
LeavingOf(p) ==
  /\ all_done[p] => /\ unflushed[p] = {} /\ done[p] /\ AllPopped(p)
  /\ stage[p] # "working" => pc[p] = "idle" /\ Settled(p)
  /\ stage[p] \in {"arrived", "clearing"} => all_done[p]

LEMMA LeavingNow == Leaving <=> \A p \in Thread : LeavingOf(p)
BY DEF Leaving, LeavingOf

\* Nothing that the reset of PE q depends on changes.
Stays(q) ==
  /\ all_done'[q] = all_done[q] /\ unflushed'[q] = unflushed[q] /\ done'[q] = done[q]
  /\ num_done_sending'[q] = num_done_sending[q] /\ num_popped'[q] = num_popped[q]
  /\ num_msgs'[q] = num_msgs[q]
  /\ stage'[q] = stage[q] /\ pc'[q] = pc[q] /\ data'[q] = data[q] /\ note'[q] = note[q]

LEMMA StaysLeaving ==
  ASSUME Leaving, NEW q \in Thread, Stays(q)
  PROVE  LeavingOf(q)'
<1>1. LeavingOf(q)
  BY LeavingNow
<1> QED  BY <1>1 DEF LeavingOf, Stays, AllPopped, Settled

LEMMA LeavingStep ==
  ASSUME Leaving, NEW p \in Thread, LeavingOf(p)', \A q \in Thread : q # p => Stays(q)
  PROVE  Leaving'
<1>1. ASSUME NEW q \in Thread, q # p PROVE LeavingOf(q)'
  BY <1>1, StaysLeaving
<1> QED  BY <1>1 DEF Leaving, LeavingOf

\* A PE at work that is not done leaves nothing.
LEMMA WorkingLeaving ==
  ASSUME Leaving, NEW p \in Thread, stage[p] = "working", ~all_done[p],
         UNCHANGED <<stage, all_done>>,
         \A q \in Thread : q # p => Stays(q)
  PROVE  Leaving'
<1>1. LeavingOf(p)'
  BY DEF LeavingOf
<1> QED  BY <1>1, LeavingStep

\* Nor does one whose counters stand still.
LEMMA StandingLeaving ==
  ASSUME Leaving, NEW p \in Thread, stage[p] = "working",
         UNCHANGED <<stage, all_done, unflushed, done, num_done_sending, num_popped,
                     num_msgs>>,
         \A q \in Thread : q # p => Stays(q)
  PROVE  Leaving'
<1>1. LeavingOf(p)
  BY LeavingNow
<1>2. LeavingOf(p)'
  BY <1>1 DEF LeavingOf, AllPopped
<1> QED  BY <1>2, LeavingStep

\* When a PE acts, or has something on its way, nobody clears.
LEMMA Awake ==
  ASSUME TypeOKEx2, Leaving, Stages, NEW p \in Thread,
         stage[p] = "working" \/ pc[p] # "idle" \/ ~Settled(p)
  PROVE  Together /\ stage[p] = "working"
<1>1. stage[p] = "working"
  BY DEF Leaving
<1> QED  BY <1>1 DEF Stages, Together

LEMMA StillTogether ==
  ASSUME Together, UNCHANGED stage
  PROVE  Together' /\ Stages'
BY DEF Together, Stages

\* Once a PE is done, every PE has sent it its last message.
LEMMA AllSent ==
  ASSUME TypeOKEx2, Leaving, LastCount, Together, NEW d \in Thread, all_done[d]
  PROVE  DoneSenders(d) = Thread
<1>1. num_done_sending[d] >= THREADS
  BY DEF Leaving, AllPopped
<1>2. num_done_sending[d] = Cardinality(DoneSenders(d))
  BY DEF LastCount, Together
<1> QED  BY <1>1, <1>2, DoneFinite

LEMMA ClaimLeaving ==
  ASSUME TypeOKEx2, Notes, Leaving, LastCount, Together, NEW p \in Thread, NEW m \in note[p],
         stage[p] = "working",
         Claims(p, m), UNCHANGED <<receiver, data, flush, cycle, all_done, pc>>
  PROVE  Leaving'
<1>1. /\ m.to \in Thread
      /\ \A q \in Thread : q # p => note'[q] = note[q]
      /\ \A q \in Thread : q # m.to => num_msgs'[q] = num_msgs[q]
  BY ClaimChanges
<1>2. ~all_done[m.to]
  <2> SUFFICES ASSUME all_done[m.to] PROVE FALSE
    OBVIOUS
  <2>1. p \in DoneSenders(m.to)
    BY <1>1, AllSent
  <2>2. ~NoteTo(p, m.to)
    BY <2>1 DEF DoneSenders
  <2> QED  BY <2>2 DEF NoteTo
<1>3. UNCHANGED <<all_done, unflushed, done, num_done_sending, num_popped, stage, pc, data>>
  BY DEF receiver, flush, cycle
<1>4. ASSUME NEW q \in Thread PROVE LeavingOf(q)'
  <2>1. LeavingOf(q)
    BY LeavingNow
  <2>2. stage'[q] # "working" => pc'[q] = "idle" /\ Settled(q)'
    <3>1. CASE q = p
      BY <3>1, <1>3
    <3>2. CASE q # p
      BY <3>2, <2>1, <1>1, <1>3 DEF LeavingOf, Settled
    <3> QED  BY <3>1, <3>2
  <2>3. all_done'[q] => unflushed'[q] = {} /\ done'[q] /\ AllPopped(q)'
    <3>1. CASE q = m.to
      BY <3>1, <1>2, <1>3
    <3>2. CASE q # m.to
      BY <3>2, <2>1, <1>1, <1>3 DEF LeavingOf, AllPopped
    <3> QED  BY <3>1, <3>2
  <2> QED  BY <2>1, <2>2, <2>3, <1>3 DEF LeavingOf
<1> QED  BY <1>4 DEF Leaving, LeavingOf

-----------------------------------------------------------------------------
(* One step *)

Traffic == Notes /\ Queued /\ ActiveOnce /\ Credit /\ Ring /\ Claimed /\ Counts

\* No message, buffer or right to send moves.
LEMMA SameTraffic ==
  ASSUME Traffic,
         UNCHANGED <<can_send, note, queue, active, num_msgs, num_made_active,
                     num_popped, unflushed>>
  PROVE  Traffic' /\ \A d \in Thread : SameDone(d)
<1>1. Notes' /\ Queued' /\ ActiveOnce' /\ Counts'
  BY DEF Traffic, Notes, Queued, ActiveOnce, Counts, Position
<1>2. Credit' /\ Ring' /\ Claimed'
  BY SameRing, SameCreditAll DEF Traffic
<1>3. \A d \in Thread : SameDone(d)
  BY DEF SameDone, DoneSenders, NoteTo, QueuedFrom, Position
<1> QED  BY <1>1, <1>2, <1>3 DEF Traffic

LEMMA SameWork ==
  ASSUME LastCount, Together, UNCHANGED <<stage, num_done_sending>>,
         \A d \in Thread : SameDone(d)
  PROVE  LastCount' /\ Stages'
<1>1. Together' /\ Stages'
  BY StillTogether
<1>2. LastCount'
  BY SameLastCount
<1> QED  BY <1>1, <1>2

LEMMA FinishStep ==
  ASSUME IInv, NEW p \in Thread, Finish(p)
  PROVE  IInv'
<1>1. TypeOKEx2 /\ Traffic /\ Bounds /\ LastCount /\ Popping /\ Flushing /\ Leaving /\ Stages
  BY DEF IInv, Traffic
<1>2. /\ Ready(p) /\ ~done[p]
      /\ UNCHANGED <<sender, receiver, wires, flush, stage, all_done, pc>>
      /\ \A q \in Thread : q # p => done'[q] = done[q]
  BY <1>1 DEF Finish, TypeOKEx2
<1>3. Together /\ stage[p] = "working" /\ ~all_done[p]
  BY <1>1, <1>2, Awake DEF Ready, Leaving
<1>4. Traffic' /\ \A d \in Thread : SameDone(d)
  BY <1>1, <1>2, SameTraffic DEF sender, receiver, wires, flush
<1>5. Bounds'
  BY <1>1, <1>2, SameBounds DEF sender, receiver, wires
<1>6. LastCount' /\ Stages'
  BY <1>1, <1>2, <1>3, <1>4, SameWork DEF receiver
<1>7. Popping'
  BY <1>1, <1>2, StillPopping DEF wires
<1>8. Leaving'
  <2>1. \A q \in Thread : q # p => Stays(q)
    BY <1>2 DEF Stays, sender, receiver, wires, flush
  <2> QED  BY <2>1, <1>1, <1>2, <1>3, WorkingLeaving
<1> QED  BY <1>1, <1>4, <1>5, <1>6, <1>7, <1>8, FinishTypes, FinishFlushing
         DEF IInv, Traffic

LEMMA StartFlushStep ==
  ASSUME IInv, NEW p \in Thread, StartFlush(p)
  PROVE  IInv'
<1>1. TypeOKEx2 /\ Traffic /\ Bounds /\ LastCount /\ Popping /\ Flushing /\ Leaving /\ Stages
  BY DEF IInv, Traffic
<1>2. /\ Ready(p) /\ ~all_done[p] /\ pc' = [pc EXCEPT ![p] = "flush"]
      /\ UNCHANGED <<sender, receiver, wires, unflushed, cycle, all_done>>
  BY DEF StartFlush
<1>3. Together /\ stage[p] = "working"
  BY <1>1, <1>2, Awake DEF Ready
<1>4. Traffic' /\ \A d \in Thread : SameDone(d)
  BY <1>1, <1>2, SameTraffic DEF sender, receiver, wires
<1>5. Bounds'
  BY <1>1, <1>2, SameBounds DEF sender, receiver, wires
<1>6. LastCount' /\ Stages'
  BY <1>1, <1>2, <1>3, <1>4, SameWork DEF receiver, cycle
<1>7. Popping'
  BY <1>1, <1>2, FlushPopping DEF wires, Ready
<1>8. Leaving'
  <2>1. \A q \in Thread : q # p => pc'[q] = pc[q]
    BY <1>1, <1>2 DEF TypeOKEx2
  <2>2. \A q \in Thread : q # p => Stays(q)
    BY <2>1, <1>2 DEF Stays, sender, receiver, wires, cycle
  <2> QED  BY <2>2, <1>1, <1>2, <1>3, WorkingLeaving DEF cycle
<1> QED  BY <1>1, <1>4, <1>5, <1>6, <1>7, <1>8, StartFlushTypes, StartFlushFlushing
         DEF IInv, Traffic

LEMMA ProceedStep ==
  ASSUME IInv, NEW p \in Thread, Proceed(p)
  PROVE  IInv'
<1>1. TypeOKEx2 /\ Traffic /\ Bounds /\ LastCount /\ Popping /\ Flushing /\ Leaving /\ Stages
  BY DEF IInv, Traffic
<1>2. /\ Ready(p) /\ done[p] /\ unflushed[p] = {} /\ AllPopped(p)
      /\ UNCHANGED <<sender, receiver, wires, flush, cycle, pc>>
      /\ \A q \in Thread : q # p => all_done'[q] = all_done[q]
  BY <1>1 DEF Proceed, TypeOKEx2
<1>3. Together /\ stage[p] = "working"
  BY <1>1, <1>2, Awake DEF Ready
<1>4. Traffic' /\ \A d \in Thread : SameDone(d)
  BY <1>1, <1>2, SameTraffic DEF sender, receiver, wires, flush
<1>5. Bounds'
  BY <1>1, <1>2, SameBounds DEF sender, receiver, wires
<1>6. LastCount' /\ Stages'
  BY <1>1, <1>2, <1>3, <1>4, SameWork DEF receiver, cycle
<1>7. Popping'
  BY <1>1, <1>2, StillPopping DEF wires
<1>8. Flushing'
  BY <1>1, <1>2, SameFlushing DEF cycle
<1>9. Leaving'
  <2>1. \A q \in Thread : q # p => Stays(q)
    BY <1>2 DEF Stays, sender, receiver, wires, flush, cycle
  <2>2. LeavingOf(p)'
    BY <1>2, <1>3 DEF LeavingOf, AllPopped, receiver, wires, flush, cycle
  <2> QED  BY <2>1, <2>2, <1>1, LeavingStep
<1> QED  BY <1>1, <1>4, <1>5, <1>6, <1>7, <1>8, <1>9, ProceedTypes DEF IInv, Traffic

\* What a PE posts changes the traffic of the pair alone.
LEMMA PostTraffic ==
  ASSUME TypeOKEx2, Traffic, LastCount, Together,
         NEW p \in Thread, NEW d \in Thread, NEW m, Posts(p, d, m), UNCHANGED num_popped
  PROVE  Traffic' /\ LastCount' /\ Stages'
<1>1. Notes /\ Queued /\ ActiveOnce /\ Credit /\ Ring /\ Claimed /\ Counts
  BY DEF Traffic
<1>2. UNCHANGED <<active, num_made_active, num_done_sending, stage>>
  BY DEF Posts
<1>3. ActiveOnce' /\ Counts'
  BY <1>1, <1>2 DEF ActiveOnce, Counts
<1>4. \A e \in Thread : SameDone(e)
  BY PostDone
<1>5. LastCount' /\ Stages'
  BY <1>2, <1>4, SameWork
<1>6. Notes' /\ Queued' /\ Credit'
  BY <1>1, PostNotes, PostQueued, PostCredit
<1>7. Ring' /\ Claimed'
  BY <1>1, PostRing, PostClaimed
<1> QED  BY <1>3, <1>5, <1>6, <1>7 DEF Traffic

LEMMA PushStep ==
  ASSUME IInv, NEW p \in Thread, NEW d \in Thread, PushEx2(p, d)
  PROVE  IInv'
<1>1. TypeOKEx2 /\ Traffic /\ Bounds /\ LastCount /\ Popping /\ Flushing /\ Leaving /\ Stages
  BY DEF IInv, Traffic
<1>2. /\ Ready(p) /\ ~done[p]
      /\ UNCHANGED <<receiver, flush, cycle, all_done, pc>>
      /\ Appends(p, d) \/ SendsFull(p, d)
  BY PushCases
<1>3. Together /\ stage[p] = "working" /\ ~all_done[p]
  BY <1>1, <1>2, Awake DEF Ready, Leaving
<1>4. /\ Traffic' /\ LastCount' /\ Stages' /\ Popping'
      /\ \A q \in Thread : q # p => Stays(q)
  <2>1. CASE Appends(p, d)
    <3>1. UNCHANGED <<can_send, wires>>
      BY <2>1 DEF Appends
    <3>2. Traffic' /\ \A e \in Thread : SameDone(e)
      BY <1>1, <1>2, <3>1, SameTraffic DEF receiver, wires, flush
    <3>3. LastCount' /\ Stages'
      BY <1>1, <1>2, <1>3, <3>2, SameWork DEF receiver, cycle
    <3>4. \A q \in Thread : q # p => Stays(q)
      BY <1>2, <3>1 DEF Stays, receiver, wires, flush, cycle
    <3>5. Popping'
      BY <1>1, <1>2, <3>1, StillPopping DEF wires
    <3> QED  BY <3>2, <3>3, <3>4, <3>5
  <2>2. CASE SendsFull(p, d)
    <3>1. PICK m : Posts(p, d, m)
      BY <1>1, <2>2, PushPosts
    <3>2. Traffic' /\ LastCount' /\ Stages'
      BY <1>1, <1>2, <1>3, <3>1, PostTraffic DEF receiver
    <3>3. /\ UNCHANGED num_msgs
          /\ \A q \in Thread : q # p => note'[q] = note[q] /\ data'[q] = data[q]
      BY <1>1, <2>2 DEF SendsFull, Send, TypeOKEx2
    <3>4. \A q \in Thread : q # p => Stays(q)
      BY <1>2, <3>3 DEF Stays, receiver, flush, cycle
    <3>5. Popping'
      BY <1>1, <1>2, <3>3, StillPopping
    <3> QED  BY <3>2, <3>4, <3>5
  <2> QED  BY <2>1, <2>2, <1>2
<1>5. Leaving'
  BY <1>1, <1>2, <1>3, <1>4, WorkingLeaving DEF cycle
<1>6. Flushing'
  BY <1>1, <1>2, SameFlushing DEF cycle
<1>7. TypeOKEx2' /\ Bounds'
  BY <1>1, PushTypes, PushBounds
<1> QED  BY <1>4, <1>5, <1>6, <1>7 DEF IInv, Traffic

LEMMA FlushOneStep ==
  ASSUME IInv, NEW p \in Thread, FlushOne(p)
  PROVE  IInv'
<1>1. TypeOKEx2 /\ Traffic /\ Bounds /\ LastCount /\ Popping /\ Flushing /\ Leaving /\ Stages
  BY DEF IInv, Traffic
<1>2. /\ pc[p] = "flush" /\ Settled(p)
      /\ UNCHANGED <<receiver, cycle, history, all_done>>
  BY <1>1, FlushCases
<1>3. PICK d \in todo[p] :
        /\ FlushSends(p, d) \/ FlushSkips(p, d)
        /\ todo' = [todo EXCEPT ![p] = @ \ {d}]
        /\ pc' = [pc EXCEPT ![p] = IF todo[p] = {d} THEN "idle" ELSE "flush"]
  BY <1>1, FlushCases
<1>4. d \in Thread /\ d \in unflushed[p]
  BY <1>1, <1>3, PEntries DEF Flushing
<1>5. Together /\ stage[p] = "working" /\ ~all_done[p]
  BY <1>1, <1>2, <1>4, Awake DEF Leaving
<1>6. \A q \in Thread : q # p => pc'[q] = pc[q]
  BY <1>1, <1>3 DEF TypeOKEx2
<1>7. /\ Traffic' /\ LastCount' /\ Stages' /\ Bounds' /\ UNCHANGED num_msgs
      /\ \A q \in Thread : q # p => Stays(q)
  <2>1. CASE FlushSends(p, d)
    <3>1. PICK m : Posts(p, d, m)
      BY <1>1, <1>2, <1>3, <2>1, FlushPosts
    <3>2. Traffic' /\ LastCount' /\ Stages'
      BY <1>1, <1>2, <1>4, <1>5, <3>1, PostTraffic DEF receiver
    <3>3. /\ UNCHANGED num_msgs
          /\ \A q \in Thread : q # p => note'[q] = note[q] /\ data'[q] = data[q]
      BY <1>1, <2>1 DEF FlushSends, Send, TypeOKEx2
    <3>4. \A q \in Thread : q # p => unflushed'[q] = unflushed[q]
      BY <1>1, <2>1 DEF FlushSends, TypeOKEx2
    <3>5. \A q \in Thread : q # p => Stays(q)
      BY <1>2, <1>6, <3>3, <3>4 DEF Stays, receiver, cycle
    <3>6. Send(p, d, TRUE, <<>>)
      BY <2>1, Zenon DEF FlushSends
    <3>8. <<>> \in Seq(Nat) /\ Len(<<>>) <= BufCnt
      BY BufCntAssumption
    <3>7. Bounds'
      BY <1>1, <1>2, <1>4, <3>6, <3>8, SendBounds DEF receiver
    <3> QED  BY <3>2, <3>3, <3>5, <3>7
  <2>2. CASE FlushSkips(p, d)
    <3>1. UNCHANGED <<sender, wires, unflushed>>
      BY <2>2 DEF FlushSkips
    <3>2. Traffic' /\ \A e \in Thread : SameDone(e)
      BY <1>1, <1>2, <3>1, SameTraffic DEF sender, receiver, wires
    <3>3. LastCount' /\ Stages'
      BY <1>1, <1>2, <1>5, <3>2, SameWork DEF receiver, cycle
    <3>4. \A q \in Thread : q # p => Stays(q)
      BY <1>2, <1>6, <3>1 DEF Stays, receiver, wires, cycle
    <3>5. Bounds'
      BY <1>1, <1>2, <3>1, SameBounds DEF sender, receiver, wires
    <3> QED  BY <3>1, <3>2, <3>3, <3>4, <3>5 DEF wires
  <2> QED  BY <2>1, <2>2, <1>3
<1>8. Popping'
  <2>1. \E v \in {"idle", "flush"} : pc' = [pc EXCEPT ![p] = v]
    BY <1>3
  <2> QED  BY <2>1, <1>1, <1>2, <1>7, FlushPopping
<1>9. Leaving'
  BY <1>1, <1>2, <1>5, <1>7, WorkingLeaving DEF cycle
<1>10. TypeOKEx2' /\ Flushing'
  BY <1>1, FlushOneTypes, FlushOneFlushing
<1> QED  BY <1>7, <1>8, <1>9, <1>10 DEF IInv, Traffic

LEMMA PopItemStep ==
  ASSUME IInv, NEW r \in Thread, PopItem(r)
  PROVE  IInv'
<1>1. TypeOKEx2 /\ Traffic /\ Bounds /\ LastCount /\ Popping /\ Flushing /\ Leaving /\ Stages
  BY DEF IInv, Traffic
<1>2. /\ stage[r] = "working" /\ ~all_done[r] /\ pc' = [pc EXCEPT ![r] = "idle"]
      /\ UNCHANGED <<sender, num_made_active, num_popped, num_done_sending, active,
                     wires, flush, cycle, all_done>>
  BY DEF PopItem, AtHead
<1>3. Together
  BY <1>1, <1>2, Awake
<1>4. Traffic' /\ \A d \in Thread : SameDone(d)
  BY <1>1, <1>2, SameTraffic DEF sender, wires, flush
<1>5. LastCount' /\ Stages'
  BY <1>1, <1>2, <1>3, <1>4, SameWork DEF cycle
<1>6. pc'[r] = "idle" /\ \A q \in Thread : q # r => pc'[q] = pc[q]
  BY <1>1, <1>2 DEF TypeOKEx2
<1>7. Flushing'
  BY <1>1, <1>2, <1>6, SameFlushing DEF cycle
<1>8. Leaving'
  <2>1. \A q \in Thread : q # r => Stays(q)
    BY <1>2, <1>6 DEF Stays, wires, flush, cycle
  <2> QED  BY <2>1, <1>1, <1>2, WorkingLeaving DEF cycle
<1> QED  BY <1>1, <1>4, <1>5, <1>7, <1>8, PopItemTypes, PopItemBounds, PopItemPopping
         DEF IInv, Traffic

LEMMA PopEmptyStep ==
  ASSUME IInv, NEW r \in Thread, PopEmpty(r)
  PROVE  IInv'
<1>1. TypeOKEx2 /\ Traffic /\ Bounds /\ LastCount /\ Popping /\ Flushing /\ Leaving /\ Stages
  BY DEF IInv, Traffic
<1>2. PICK s : Releases(r, s)
  BY <1>1, PopEmptyReleases
<1>3. AtHead(r) /\ ~HasItem(r)
  BY <1>1, PopEmptyReleases
<1>4. /\ num_popped' = [num_popped EXCEPT ![r] = num_popped[r] + 1]
      /\ pc' = [pc EXCEPT ![r] = "count"]
      /\ UNCHANGED <<snd, num_made_active, num_done_sending, pop_cnt,
                     pop_ptr, wires, flush, cycle, all_done>>
  BY <1>2 DEF Releases
<1>5. stage[r] = "working" /\ ~all_done[r] /\ pc[r] \in {"idle", "again"}
  BY <1>3 DEF AtHead
<1>6. Together
  BY <1>1, <1>5, Awake
<1>7. Notes /\ Queued /\ ActiveOnce /\ Credit /\ Ring /\ Claimed /\ Counts
  BY <1>1 DEF Traffic
<1>8. Notes' /\ Queued'
  BY <1>4, <1>7 DEF Notes, Queued, Position, wires, flush
<1>9. Ring' /\ Claimed'
  BY <1>4, <1>7, SameRing DEF wires
<1>10. Traffic'
  BY <1>1, <1>2, <1>7, <1>8, <1>9, ReleaseOnce, ReleaseCredit, ReleaseCounts DEF Traffic
<1>11. \A e \in Thread : SameDone(e)
  BY <1>2, ReleaseDone
<1>12. LastCount' /\ Stages'
  BY <1>1, <1>4, <1>6, <1>11, SameWork DEF cycle
<1>13. Bounds'
  BY <1>1, <1>4, SameBounds DEF wires
<1>14. Popping'
  BY <1>1, <1>2, <1>3, <1>5, <1>7, ReleasePopping
<1>15. /\ pc'[r] = "count"
       /\ \A q \in Thread : q # r => pc'[q] = pc[q] /\ num_popped'[q] = num_popped[q]
  BY <1>1, <1>4 DEF TypeOKEx2
<1>16. Flushing'
  BY <1>1, <1>4, <1>15, SameFlushing DEF cycle
<1>17. Leaving'
  <2>1. \A q \in Thread : q # r => Stays(q)
    BY <1>4, <1>15 DEF Stays, wires, flush, cycle
  <2> QED  BY <2>1, <1>1, <1>4, <1>5, WorkingLeaving DEF cycle
<1> QED  BY <1>1, <1>10, <1>12, <1>13, <1>14, <1>16, <1>17, PopEmptyTypes
         DEF IInv, Traffic

LEMMA CountMessagesStep ==
  ASSUME IInv, NEW r \in Thread, CountMessages(r)
  PROVE  IInv'
<1>1. TypeOKEx2 /\ Traffic /\ Bounds /\ LastCount /\ Popping /\ Flushing /\ Leaving /\ Stages
  BY DEF IInv, Traffic
<1>2. /\ stage[r] = "working" \/ pc[r] = "count"
      /\ pc' = [pc EXCEPT ![r] = "activate"]
      /\ UNCHANGED <<sender, num_made_active, num_popped, num_done_sending, active,
                     pop_cnt, pop_ptr, wires, flush, cycle, all_done>>
  BY DEF CountMessages, AtHead
<1>3. Together /\ stage[r] = "working"
  BY <1>1, <1>2, Awake
<1>4. Traffic' /\ \A d \in Thread : SameDone(d)
  BY <1>1, <1>2, SameTraffic DEF sender, wires, flush
<1>5. LastCount' /\ Stages'
  BY <1>1, <1>2, <1>3, <1>4, SameWork DEF cycle
<1>6. pc'[r] = "activate" /\ \A q \in Thread : q # r => pc'[q] = pc[q]
  BY <1>1, <1>2 DEF TypeOKEx2
<1>7. Flushing'
  BY <1>1, <1>2, <1>6, SameFlushing DEF cycle
<1>8. Leaving'
  <2>1. \A q \in Thread : q # r => Stays(q)
    BY <1>2, <1>6 DEF Stays, wires, flush, cycle
  <2> QED  BY <2>1, <1>1, <1>2, <1>3, StandingLeaving DEF wires, flush, cycle
<1>9. Bounds'
  BY <1>1, <1>2, SameBounds DEF sender, wires
<1> QED  BY <1>1, <1>4, <1>5, <1>7, <1>8, <1>9, CountMessagesTypes, CountPopping
         DEF IInv, Traffic

LEMMA PickStep ==
  ASSUME IInv, NEW r \in Thread, Pick(r)
  PROVE  IInv'
<1>1. TypeOKEx2 /\ Traffic /\ Bounds /\ LastCount /\ Popping /\ Flushing /\ Leaving /\ Stages
  BY DEF IInv, Traffic
<1>2. /\ pc[r] = "activate"
      /\ \E v \in {"idle", "again"} : pc' = [pc EXCEPT ![r] = v]
      /\ UNCHANGED <<sender, num_made_active, num_popped, num_done_sending, active,
                     pop_cnt, pop_ptr, wires, flush, cycle, all_done>>
  BY DEF Pick
<1>3. Together /\ stage[r] = "working"
  BY <1>1, <1>2, Awake
<1>4. Traffic' /\ \A d \in Thread : SameDone(d)
  BY <1>1, <1>2, SameTraffic DEF sender, wires, flush
<1>5. LastCount' /\ Stages'
  BY <1>1, <1>2, <1>3, <1>4, SameWork DEF cycle
<1>6. pc'[r] # "flush" /\ \A q \in Thread : q # r => pc'[q] = pc[q]
  BY <1>1, <1>2 DEF TypeOKEx2
<1>7. Flushing'
  BY <1>1, <1>2, <1>6, SameFlushing DEF cycle
<1>8. Leaving'
  <2>1. \A q \in Thread : q # r => Stays(q)
    BY <1>2, <1>6 DEF Stays, wires, flush, cycle
  <2> QED  BY <2>1, <1>1, <1>2, <1>3, StandingLeaving DEF wires, flush, cycle
<1>9. Bounds'
  BY <1>1, <1>2, SameBounds DEF sender, wires
<1> QED  BY <1>1, <1>4, <1>5, <1>7, <1>8, <1>9, PickTypes, PickPopping DEF IInv, Traffic

LEMMA UnpopStep ==
  ASSUME IInv, NEW r \in Thread, Unpop(r)
  PROVE  IInv'
<1>1. TypeOKEx2 /\ Traffic /\ Bounds /\ LastCount /\ Popping /\ Flushing /\ Leaving /\ Stages
  BY DEF IInv, Traffic
<1>2. /\ stage[r] = "working"
      /\ UNCHANGED <<sender, num_made_active, num_popped, num_done_sending, active,
                     wires, flush, cycle, all_done, pc>>
  BY DEF Unpop, Ready
<1>3. Together
  BY <1>1, <1>2, Awake
<1>4. Traffic' /\ \A d \in Thread : SameDone(d)
  BY <1>1, <1>2, SameTraffic DEF sender, wires, flush
<1>5. LastCount' /\ Stages'
  BY <1>1, <1>2, <1>3, <1>4, SameWork DEF cycle
<1>6. Flushing'
  BY <1>1, <1>2, SameFlushing DEF cycle
<1>7. Leaving'
  <2>1. \A q \in Thread : q # r => Stays(q)
    BY <1>2 DEF Stays, wires, flush, cycle
  <2> QED  BY <2>1, <1>1, <1>2, StandingLeaving DEF wires, flush, cycle
<1> QED  BY <1>1, <1>4, <1>5, <1>6, <1>7, UnpopTypes, UnpopBounds, UnpopPopping
         DEF IInv, Traffic

LEMMA ActivateStep ==
  ASSUME IInv, NEW r \in Thread, Activate(r)
  PROVE  IInv'
<1>1. TypeOKEx2 /\ Traffic /\ Bounds /\ LastCount /\ Popping /\ Flushing /\ Leaving /\ Stages
  BY DEF IInv, Traffic
<1>2. PICK s, i : Takes(r, s, i)
  BY <1>1, ActivateTakes
<1>3. /\ pc[r] = "activate"
      /\ UNCHANGED <<num_popped, num_msgs, data, note, flush, cycle, all_done, pc>>
  BY <1>2 DEF Takes
<1>4. Together /\ stage[r] = "working"
  BY <1>1, <1>3, Awake
<1>5. Notes /\ Queued /\ ActiveOnce /\ Credit /\ Ring /\ Claimed /\ Counts
  BY <1>1 DEF Traffic
<1>6. num_done_sending' = [num_done_sending EXCEPT ![r] = num_done_sending[r] + Lasts(r)]
  BY ActivateCases
<1>7. LastCount' /\ num_done_sending' \in [Thread -> 0 .. THREADS]
  BY <1>1, <1>2, <1>4, <1>5, <1>6, ActivateCount
<1>8. Notes'
  BY <1>3, <1>5 DEF Notes, flush
<1>9. Queued' /\ ActiveOnce' /\ Credit'
  BY <1>1, <1>2, <1>5, ActivateQueued, ActivateOnce, ActivateCredit
<1>10. Ring' /\ Claimed' /\ Counts'
  BY <1>1, <1>2, <1>5, ActivateRing, ActivateClaimed, ActivateCounts
<1>11. Stages'
  BY <1>3, <1>4, StillTogether DEF cycle
<1>12. Flushing'
  BY <1>1, <1>3, SameFlushing DEF cycle
<1>13. /\ num_done_sending[r] \in Nat /\ num_done_sending'[r] \in Nat
       /\ num_done_sending'[r] >= num_done_sending[r]
       /\ \A q \in Thread : q # r => num_done_sending'[q] = num_done_sending[q]
  <2>1. num_done_sending[r] \in 0 .. THREADS
    BY <1>1, PEntries
  <2>2. num_done_sending'[r] = num_done_sending[r] + Lasts(r)
    BY <1>1, <1>6 DEF TypeOKEx2
  <2>3. Lasts(r) \in {0, 1}
    BY DEF Lasts
  <2>4. \A q \in Thread : q # r => num_done_sending'[q] = num_done_sending[q]
    BY <1>1, <1>6 DEF TypeOKEx2
  <2> QED  BY <2>1, <2>2, <2>3, <2>4, NAssumption
<1>14. Leaving'
  <2>1. \A q \in Thread : q # r => Stays(q)
    BY <1>3, <1>13 DEF Stays, flush, cycle
  <2>2. LeavingOf(r)
    BY <1>1, LeavingNow
  <2>3. AllPopped(r) => AllPopped(r)'
    BY <1>3, <1>13, NAssumption DEF AllPopped
  <2>4. LeavingOf(r)'
    BY <2>2, <2>3, <1>3, <1>4 DEF LeavingOf, flush, cycle
  <2> QED  BY <2>1, <2>4, <1>1, LeavingStep
<1>15. TypeOKEx2' /\ Bounds' /\ Popping'
  BY <1>1, <1>2, <1>5, <1>7, ActivateTypes, ActivateBounds, ActivatePopping
<1> QED  BY <1>7, <1>8, <1>9, <1>10, <1>11, <1>12, <1>14, <1>15 DEF IInv

LEMMA LandDataStep ==
  ASSUME IInv, NEW p \in Thread, LandData(p)
  PROVE  IInv'
<1>1. TypeOKEx2 /\ Traffic /\ Bounds /\ LastCount /\ Popping /\ Flushing /\ Leaving /\ Stages
  BY DEF IInv, Traffic
<1>2. /\ data[p] # {} /\ data' = [data EXCEPT ![p] = {}]
      /\ UNCHANGED <<sender, num_made_active, num_popped, num_done_sending, active,
                     current, pop_pe, pop_cnt, pop_ptr, seen, queue, num_msgs, note,
                     flush, cycle, all_done, pc>>
  BY DEF LandData
<1>3. Together /\ stage[p] = "working"
  BY <1>1, <1>2, Awake DEF Settled
<1>4. Traffic' /\ \A d \in Thread : SameDone(d)
  BY <1>1, <1>2, SameTraffic DEF sender, flush
<1>5. LastCount' /\ Stages'
  BY <1>1, <1>2, <1>3, <1>4, SameWork DEF cycle
<1>6. Popping'
  <2>1. ASSUME NEW r \in Thread PROVE PoppingOf(r)'
    <3>1. SameBuffers(r) /\ seen'[r] = seen[r] /\ num_msgs'[r] = num_msgs[r] /\ pc'[r] = pc[r]
      BY <1>2 DEF SameBuffers
    <3> QED  BY <3>1, <1>1, SamePopping
  <2> QED  BY <2>1 DEF Popping, PoppingOf
<1>7. Flushing'
  BY <1>1, <1>2, SameFlushing DEF cycle
<1>8. Leaving'
  <2>1. \A q \in Thread : q # p => data'[q] = data[q]
    BY <1>1, <1>2 DEF TypeOKEx2
  <2>2. \A q \in Thread : q # p => Stays(q)
    BY <1>2, <2>1 DEF Stays, flush, cycle
  <2> QED  BY <2>2, <1>1, <1>2, <1>3, StandingLeaving DEF flush, cycle
<1> QED  BY <1>1, <1>4, <1>5, <1>6, <1>7, <1>8, LandDataTypes, LandDataBounds
         DEF IInv, Traffic

LEMMA ClaimStep ==
  ASSUME IInv, NEW p \in Thread, Claim(p)
  PROVE  IInv'
<1>1. TypeOKEx2 /\ Traffic /\ Bounds /\ LastCount /\ Popping /\ Flushing /\ Leaving /\ Stages
  BY DEF IInv, Traffic
<1>2. UNCHANGED <<sender, receiver, queue, data, flush, cycle, history, all_done, pc>>
  BY ClaimCases
<1>3. PICK m \in note[p] : Claims(p, m)
  BY ClaimCases
<1>4. Together /\ stage[p] = "working"
  BY <1>1, Awake DEF Settled
<1>5. Notes /\ Queued /\ ActiveOnce /\ Credit /\ Ring /\ Claimed /\ Counts
  BY <1>1 DEF Traffic
<1>6. UNCHANGED <<snd, can_send, active, num_made_active, num_popped, num_done_sending,
                  pop_ptr, pop_cnt, unflushed, stage>>
  BY <1>2 DEF sender, receiver, flush, cycle
<1>7. Queued' /\ ActiveOnce' /\ Counts'
  BY <1>2, <1>5, <1>6 DEF Queued, ActiveOnce, Counts, Position
<1>8. Notes' /\ Credit'
  BY <1>1, <1>2, <1>3, <1>5, <1>6, ClaimNotes, ClaimCredit
<1>9. Ring' /\ Claimed'
  BY <1>1, <1>2, <1>3, <1>5, <1>6, ClaimRing, ClaimClaimed
<1>10. \A e \in Thread : SameDone(e)
  BY <1>1, <1>2, <1>3, <1>5, <1>6, ClaimDone
<1>11. LastCount' /\ Stages'
  BY <1>1, <1>4, <1>6, <1>10, SameWork
<1>12. Bounds'
  BY <1>1, <1>2, <1>3, <1>5, <1>6, ClaimBounds
<1>13. Popping'
  BY <1>1, <1>2, <1>3, <1>5, ClaimPopping
<1>14. Flushing'
  BY <1>1, <1>2, SameFlushing DEF cycle
<1>15. Leaving'
  BY <1>1, <1>2, <1>3, <1>4, <1>5, ClaimLeaving
<1> QED  BY <1>1, <1>7, <1>8, <1>9, <1>11, <1>12, <1>13, <1>14, <1>15, ClaimTypes
         DEF IInv

LEMMA LandNoteStep ==
  ASSUME IInv, NEW p \in Thread, LandNote(p)
  PROVE  IInv'
<1>1. TypeOKEx2 /\ Traffic /\ Bounds /\ LastCount /\ Popping /\ Flushing /\ Leaving /\ Stages
  BY DEF IInv, Traffic
<1>2. UNCHANGED <<sender, receiver, num_msgs, data, flush, cycle, history, all_done, pc>>
  BY LandCases
<1>3. PICK m \in note[p] : Lands(p, m)
  BY LandCases
<1>4. Together /\ stage[p] = "working"
  BY <1>1, Awake DEF Settled
<1>5. Notes /\ Queued /\ ActiveOnce /\ Credit /\ Ring /\ Claimed /\ Counts
  BY <1>1 DEF Traffic
<1>6. UNCHANGED <<snd, can_send, active, num_made_active, num_popped, num_done_sending,
                  pop_ptr, pop_cnt, unflushed, done, stage>>
  BY <1>2 DEF sender, receiver, flush, cycle
<1>7. ActiveOnce' /\ Counts'
  BY <1>5, <1>6 DEF ActiveOnce, Counts
<1>8. Notes' /\ Queued' /\ Credit'
  BY <1>1, <1>3, <1>5, <1>6, LandNotes, LandQueued, LandCredit
<1>9. Ring' /\ Claimed'
  BY <1>1, <1>2, <1>3, <1>5, <1>6, LandRing, LandClaimed
<1>10. \A e \in Thread : SameDone(e)
  BY <1>1, <1>3, <1>5, <1>6, LandDone
<1>11. LastCount' /\ Stages'
  BY <1>1, <1>4, <1>6, <1>10, SameWork
<1>12. Bounds'
  BY <1>1, <1>2, <1>3, <1>5, <1>6, LandBounds
<1>13. Popping'
  BY <1>1, <1>2, StillPopping
<1>14. Flushing'
  BY <1>1, <1>2, SameFlushing DEF cycle
<1>15. Leaving'
  <2>1. \A q \in Thread : q # p => note'[q] = note[q]
    BY <1>1, <1>3, <1>5, LandChanges
  <2>2. \A q \in Thread : q # p => Stays(q)
    BY <1>2, <1>6, <2>1 DEF Stays
  <2> QED  BY <2>2, <1>1, <1>2, <1>4, <1>6, StandingLeaving
<1> QED  BY <1>1, <1>7, <1>8, <1>9, <1>11, <1>12, <1>13, <1>14, <1>15, LandNoteTypes
         DEF IInv

LEMMA EnterResetStep ==
  ASSUME IInv, NEW p \in Thread, EnterReset(p)
  PROVE  IInv'
<1>1. TypeOKEx2 /\ Traffic /\ Bounds /\ LastCount /\ Popping /\ Flushing /\ Leaving /\ Stages
  BY DEF IInv, Traffic
<1>2. /\ stage[p] = "working" /\ pc[p] = "idle" /\ Settled(p) /\ all_done[p]
      /\ stage' = [stage EXCEPT ![p] = "arrived"]
      /\ UNCHANGED <<sender, receiver, wires, flush, done, all_done, pc>>
  BY DEF EnterReset, Ready
<1>3. Together
  BY <1>1, <1>2, Awake
<1>4. Traffic' /\ \A d \in Thread : SameDone(d)
  BY <1>1, <1>2, SameTraffic DEF sender, receiver, wires, flush
<1>5. stage'[p] = "arrived" /\ \A q \in Thread : q # p => stage'[q] = stage[q]
  BY <1>1, <1>2 DEF TypeOKEx2
<1>6. Together' /\ Stages'
  BY <1>3, <1>5 DEF Together, Stages
<1>7. LastCount'
  BY <1>1, <1>2, <1>3, <1>4, SameLastCount DEF receiver
<1>8. Bounds'
  BY <1>1, <1>2, SameBounds DEF sender, receiver, wires
<1>9. Popping'
  BY <1>1, <1>2, StillPopping DEF wires
<1>10. Flushing'
  BY <1>1, <1>2, SameFlushing
<1>11. Leaving'
  <2>1. \A q \in Thread : q # p => Stays(q)
    BY <1>2, <1>5 DEF Stays, receiver, wires, flush
  <2>2. LeavingOf(p)
    BY <1>1, LeavingNow
  <2>3. LeavingOf(p)'
    BY <2>2, <1>2, <1>5 DEF LeavingOf, AllPopped, Settled, receiver, wires, flush
  <2> QED  BY <2>1, <2>3, <1>1, LeavingStep
<1> QED  BY <1>1, <1>4, <1>6, <1>7, <1>8, <1>9, <1>10, <1>11, EnterResetTypes
         DEF IInv, Traffic

-----------------------------------------------------------------------------
(* The barriers of exstack2_reset *)

\* No message, no buffer, every right to send back.
Silent == \A p \in Thread :
  /\ Quiet(p) /\ note[p] = {} /\ num_made_active[p] = num_msgs[p]
  /\ seen[p] = 0 /\ pc[p] = "idle"

LEMMA SilentTraffic == TypeOKEx2 /\ Silent => Traffic /\ Popping
<1> SUFFICES ASSUME TypeOKEx2, Silent PROVE Traffic /\ Popping
  OBVIOUS
<1>1. \A p \in Thread : /\ note[p] = {} /\ active[p] = <<>> /\ num_popped[p] = num_msgs[p]
                        /\ num_made_active[p] = num_msgs[p] /\ num_msgs[p] \in Nat
                        /\ pop_pe[p] = None /\ seen[p] = 0 /\ pc[p] = "idle"
  BY PEntries DEF Silent, Quiet
<1>2. \A p, d \in Thread : can_send[p][d] = 1 /\ pop_cnt[p][d] = 0
  BY DEF Silent, Quiet
<1>3. \A p \in Thread : \A i \in Position : queue[p][i] = Free /\ queue[p][i].pe \notin Thread
  BY FreeIsNone DEF Silent, Quiet
<1>4. \A p, d \in Thread : ~NoteTo(p, d) /\ ~QueuedFrom(p, d) /\ ~ActiveFrom(p, d)
  BY <1>1, <1>3 DEF NoteTo, QueuedFrom, ActiveFrom
<1>5. Notes /\ Claimed /\ Queued
  BY <1>1, <1>3 DEF Notes, Claimed, Queued
<1>6. ActiveOnce
  BY <1>1 DEF ActiveOnce
<1>7. Credit
  BY <1>2, <1>4 DEF Credit
<1>8. Ring
  <2> SUFFICES ASSUME NEW r \in Thread PROVE RingOf(r)
    BY RingNow
  <2>1. Waiting(r) = {}
    BY <1>1 DEF Waiting
  <2>2. num_made_active[r] <= num_msgs[r] /\ num_msgs[r] - num_made_active[r] <= QueueLen
    BY <1>1, QueueLenType
  <2> QED  BY <2>1, <2>2, <1>3 DEF RingOf
<1>9. Counts
  <2> SUFFICES ASSUME NEW r \in Thread PROVE num_popped[r] + Len(active[r]) = num_made_active[r]
    BY DEF Counts
  <2>1. Len(active[r]) = 0
    BY <1>1
  <2> QED  BY <2>1, <1>1
<1>10. Popping
  BY <1>1, <1>2 DEF Popping
<1> QED  BY <1>5, <1>6, <1>7, <1>8, <1>9, <1>10 DEF Traffic

\* When every PE has arrived, every message has been popped.
LEMMA ArrivedQuiet ==
  ASSUME IInv, \A p \in Thread : stage[p] = "arrived"
  PROVE  \A p \in Thread : Quiet(p)
<1>1. /\ TypeOKEx2 /\ Credit /\ Ring /\ Counts /\ Popping /\ Leaving
  BY DEF IInv
<1>2. \A p \in Thread : all_done[p] /\ pc[p] = "idle" /\ note[p] = {}
  BY <1>1 DEF Leaving, Settled
<1>3. \A p \in Thread : num_popped[p] = num_msgs[p]
  BY <1>1, <1>2 DEF Leaving, AllPopped
<1>4. ASSUME NEW p \in Thread PROVE active[p] = <<>> /\ num_made_active[p] = num_msgs[p]
  <2> DEFINE n == Len(active[p])
  <2>1. active[p] \in Seq(Thread) /\ num_msgs[p] \in Nat /\ num_made_active[p] \in Nat
    BY <1>1, PEntries
  <2>2. n \in Nat /\ num_msgs[p] + n = num_made_active[p]
    BY <2>1, <1>1, <1>3 DEF Counts
  <2>3. num_made_active[p] <= num_msgs[p]
    BY <1>1 DEF Ring
  <2> HIDE DEF n
  <2>4. n = 0 /\ num_made_active[p] = num_msgs[p]
    BY <2>1, <2>2, <2>3
  <2> QED  BY <2>1, <2>4 DEF n
<1>5. ASSUME NEW p \in Thread, NEW i \in Position PROVE queue[p][i] = Free
  <2>1. Waiting(p) = {}
    BY <1>1, <1>4, PEntries DEF Waiting
  <2> QED  BY <2>1, <1>1, RingNow DEF RingOf
<1>6. \A p, d \in Thread : ~NoteTo(p, d) /\ ~QueuedFrom(p, d) /\ ~ActiveFrom(p, d)
  BY <1>2, <1>4, <1>5, FreeIsNone DEF NoteTo, QueuedFrom, ActiveFrom
<1>7. \A p, d \in Thread : can_send[p][d] = 1
  BY <1>1, <1>6 DEF Credit
<1>8. \A p, d \in Thread : pop_cnt[p][d] = 0
  <2> TAKE p, d \in Thread
  <2>1. ~(pop_cnt[p][d] > 0)
    BY <1>1, <1>6 DEF Popping
  <2> QED  BY <2>1, <1>1, Entries
<1>9. \A p \in Thread : pop_pe[p] = None
  <2> TAKE p \in Thread
  <2>1. Len(active[p]) = 0
    BY <1>4
  <2> QED  BY <2>1, <1>1 DEF Popping
<1> TAKE p \in Thread
<1>10. can_send[p] = [d \in Thread |-> 1]
  BY <1>1, <1>7 DEF TypeOKEx2
<1>11. pop_cnt[p] = [d \in Thread |-> 0]
  BY <1>1, <1>8 DEF TypeOKEx2
<1>12. queue[p] = [i \in Position |-> Free]
  BY <1>1, <1>5 DEF TypeOKEx2
<1> QED  BY <1>3, <1>4, <1>9, <1>10, <1>11, <1>12 DEF Quiet

LEMMA SameQuiet ==
  ASSUME NEW p \in Thread, UNCHANGED <<can_send, queue, pop_pe, pop_cnt>>,
         active'[p] = active[p], num_popped'[p] = num_popped[p], num_msgs'[p] = num_msgs[p]
  PROVE  Quiet(p)' <=> Quiet(p)
BY DEF Quiet, Position

LEMMA FirstBarrierStep ==
  ASSUME IInv, FirstBarrier
  PROVE  IInv'
<1>1. TypeOKEx2 /\ Traffic /\ Bounds /\ LastCount /\ Popping /\ Flushing /\ Leaving /\ Stages
  BY DEF IInv, Traffic
<1>2. /\ \A p \in Thread : stage[p] = "arrived"
      /\ stage' = [p \in Thread |-> "clearing"]
      /\ UNCHANGED <<sender, receiver, wires, flush, done, all_done, pc>>
  BY DEF FirstBarrier
<1>3. Traffic'
  BY <1>1, <1>2, SameTraffic DEF sender, receiver, wires, flush
<1>4. Bounds'
  BY <1>1, <1>2, SameBounds DEF sender, receiver, wires
<1>5. Popping' /\ Flushing'
  BY <1>1, <1>2, StillPopping, SameFlushing DEF wires
<1>6. 0 \in Thread
  BY NAssumption DEF Thread
<1>7. LastCount'
  BY <1>2, <1>6 DEF LastCount
<1>8. Leaving'
  BY <1>1, <1>2 DEF Leaving, AllPopped, Settled, receiver, wires, flush
<1>9. Stages'
  <2>1. \A p \in Thread : Quiet(p)'
    BY <1>2, ArrivedQuiet, SameQuiet DEF sender, receiver, wires
  <2> QED  BY <2>1, <1>2 DEF Stages
<1> QED  BY <1>1, <1>3, <1>4, <1>5, <1>7, <1>8, <1>9, BarrierTypes DEF IInv, Traffic

LEMMA SecondBarrierStep ==
  ASSUME IInv, SecondBarrier
  PROVE  IInv'
<1>1. TypeOKEx2 /\ Traffic /\ Bounds /\ LastCount /\ Popping /\ Flushing /\ Leaving /\ Stages
  BY DEF IInv, Traffic
<1>2. /\ \A p \in Thread : stage[p] = "cleared"
      /\ stage' = [p \in Thread |-> "working"]
      /\ UNCHANGED <<sender, receiver, wires, flush, done, all_done, pc>>
  BY DEF SecondBarrier
<1>3. Traffic'
  BY <1>1, <1>2, SameTraffic DEF sender, receiver, wires, flush
<1>4. Bounds'
  BY <1>1, <1>2, SameBounds DEF sender, receiver, wires
<1>5. Popping' /\ Flushing'
  BY <1>1, <1>2, StillPopping, SameFlushing DEF wires
<1>6. 0 \in Thread
  BY NAssumption DEF Thread
<1>7. \A p \in Thread : Cleared(p)
  BY <1>1, <1>2, <1>6 DEF Stages
<1>8. \A d \in Thread : DoneSenders(d)' = {} /\ num_done_sending'[d] = 0
  <2>1. \A p \in Thread : unflushed'[p] = Thread /\ num_done_sending'[p] = 0
    BY <1>2, <1>7 DEF Cleared, flush, receiver
  <2> QED  BY <2>1 DEF DoneSenders
<1>9. LastCount'
  BY <1>8, FS_EmptySet DEF LastCount
<1>10. Leaving'
  BY <1>1, <1>2 DEF Leaving, AllPopped, Settled, receiver, wires, flush
<1>11. Stages'
  BY <1>2 DEF Stages
<1> QED  BY <1>1, <1>3, <1>4, <1>5, <1>9, <1>10, <1>11, BarrierTypes DEF IInv, Traffic

LEMMA ClearStep ==
  ASSUME IInv, NEW p \in Thread, Clear(p)
  PROVE  IInv'
<1>1. TypeOKEx2 /\ Traffic /\ Bounds /\ Popping /\ Flushing /\ Leaving /\ Stages /\ Counts
  BY DEF IInv, Traffic
<1>2. stage[p] = "clearing"
  BY DEF Clear
<1>3. \A q \in Thread : /\ stage[q] \in {"clearing", "cleared"} /\ Quiet(q)
                        /\ stage[q] = "cleared" => Cleared(q)
  BY <1>1, <1>2 DEF Stages
<1>4. \A q \in Thread : pc[q] = "idle" /\ data[q] = {} /\ note[q] = {}
  BY <1>1, <1>3 DEF Leaving, Settled
<1>5. UNCHANGED <<snd, can_send, queue, pop_pe, pop_cnt, pop_ptr, seen, data, note, todo, pc>>
  BY DEF Clear, sender
<1>6. /\ all_done'[p] = FALSE /\ num_done_sending'[p] = 0 /\ num_popped'[p] = 0
      /\ num_msgs'[p] = 0 /\ active'[p] = <<>> /\ num_made_active'[p] = 0
      /\ unflushed'[p] = Thread /\ stage'[p] = "cleared" /\ done'[p] = FALSE
  BY <1>1 DEF Clear, TypeOKEx2
<1>7. \A q \in Thread : q # p =>
        /\ all_done'[q] = all_done[q] /\ num_done_sending'[q] = num_done_sending[q]
        /\ num_popped'[q] = num_popped[q] /\ num_msgs'[q] = num_msgs[q]
        /\ active'[q] = active[q] /\ num_made_active'[q] = num_made_active[q]
        /\ unflushed'[q] = unflushed[q] /\ stage'[q] = stage[q] /\ done'[q] = done[q]
  BY <1>1 DEF Clear, TypeOKEx2
<1>8. TypeOKEx2'
  BY <1>1, ClearTypes
<1>9. Bounds'
  BY <1>1, <1>5, SameBounds
<1>10. Quiet(p)' /\ Cleared(p)'
  BY <1>3, <1>5, <1>6 DEF Quiet, Cleared, Position
<1>11. ASSUME NEW q \in Thread, q # p PROVE Quiet(q)' /\ (Cleared(q)' <=> Cleared(q))
  <2>1. Quiet(q)' <=> Quiet(q)
    BY <1>5, <1>7, <1>11, SameQuiet
  <2>2. Cleared(q)' <=> Cleared(q)
    BY <1>7, <1>11 DEF Cleared
  <2> QED  BY <2>1, <2>2, <1>3
<1>12. Stages'
  BY <1>3, <1>6, <1>7, <1>10, <1>11 DEF Stages
<1>13. Silent'
  <2>1. ASSUME NEW q \in Thread PROVE num_made_active'[q] = num_msgs'[q]
    <3>1. CASE q = p
      BY <3>1, <1>6
    <3>2. CASE q # p
      <4>1. Len(active[q]) = 0 /\ num_popped[q] = num_msgs[q]
        BY <1>3 DEF Quiet
      <4>2. num_made_active[q] = num_msgs[q]
        BY <4>1, <1>1, PEntries DEF Counts
      <4> QED  BY <4>2, <3>2, <1>7
    <3> QED  BY <3>1, <3>2
  <2>2. \A q \in Thread : seen'[q] = 0 /\ pc'[q] = "idle" /\ note'[q] = {}
    BY <1>1, <1>4, <1>5 DEF Popping
  <2> QED  BY <2>1, <2>2, <1>10, <1>11 DEF Silent
<1>14. Traffic' /\ Popping'
  <2>1. (TypeOKEx2 /\ Silent => Traffic /\ Popping)'
    BY SilentTraffic, PTL
  <2> QED  BY <2>1, <1>8, <1>13
<1>15. LastCount'
  BY <1>6 DEF LastCount
<1>16. Flushing'
  <2>1. ASSUME NEW q \in Thread PROVE FlushingOf(q)'
    <3>1. CASE q = p
      BY <3>1, <1>1, <1>4, <1>5, <1>6 DEF FlushingOf, TypeOKEx2, Thread
    <3>2. CASE q # p
      BY <3>2, <1>1, <1>5, <1>7, FlushingNow DEF FlushingOf, Thread
    <3> QED  BY <3>1, <3>2
  <2> QED  BY <2>1 DEF Flushing, FlushingOf, Thread
<1>17. Leaving'
  <2>1. LeavingOf(p)'
    BY <1>4, <1>5, <1>6 DEF LeavingOf, Settled
  <2>2. \A q \in Thread : q # p => Stays(q)
    BY <1>5, <1>7 DEF Stays
  <2> QED  BY <2>1, <2>2, <1>1, LeavingStep
<1> QED  BY <1>8, <1>9, <1>12, <1>14, <1>15, <1>16, <1>17 DEF IInv, Traffic

LEMMA IInvInit == InitEx2 => IInv
<1> SUFFICES ASSUME InitEx2 PROVE IInv
  OBVIOUS
<1>1. TypeOKEx2
  BY InitTypes
<1>2. Silent
  BY DEF InitEx2, Silent, Quiet
<1>3. Traffic /\ Popping
  BY <1>1, <1>2, SilentTraffic
<1>4. Bounds
  <2>1. \A p, d \in Thread : Len(snd[p][d]) <= BufCnt
    BY BufCntAssumption DEF InitEx2
  <2>2. \A p \in Thread : data[p] = {} /\ note[p] = {}
    BY DEF InitEx2
  <2>3. \A r \in Thread : \A i \in Position : queue[r][i].cnt <= BufCnt
    BY BufCntAssumption DEF InitEx2, Free
  <2>4. \A r, s \in Thread : pop_ptr[r][s] + pop_cnt[r][s] <= BufCnt
    BY BufCntAssumption DEF InitEx2
  <2> QED  BY <2>1, <2>2, <2>3, <2>4 DEF Bounds
<1>5. LastCount
  <2>1. \A d \in Thread : DoneSenders(d) = {} /\ num_done_sending[d] = 0
    BY DEF InitEx2, DoneSenders
  <2> QED  BY <2>1, FS_EmptySet DEF LastCount
<1>6. Flushing
  BY DEF InitEx2, Flushing
<1>7. Leaving
  BY DEF InitEx2, Leaving
<1>8. Stages
  BY DEF InitEx2, Stages
<1> QED  BY <1>1, <1>3, <1>4, <1>5, <1>6, <1>7, <1>8 DEF IInv, Traffic

LEMMA IInvStutter == IInv /\ UNCHANGED ex2vars => IInv'
<1> SUFFICES ASSUME IInv, UNCHANGED ex2vars PROVE IInv'
  OBVIOUS
<1>1. TypeOKEx2 /\ Traffic /\ Bounds /\ LastCount /\ Popping /\ Flushing /\ Leaving /\ Stages
  BY DEF IInv, Traffic
<1>2. UNCHANGED <<sender, receiver, wires, flush, cycle, history, all_done, pc>>
  BY DEF ex2vars
<1>3. TypeOKEx2'
  BY <1>1, <1>2 DEF TypeOKEx2, sender, receiver, wires, flush, cycle, history, Position,
     Message, Free, Unclaimed, Thread, None, Slot
<1>4. Traffic' /\ \A d \in Thread : SameDone(d)
  BY <1>1, <1>2, SameTraffic DEF sender, receiver, wires, flush
<1>5. Bounds'
  BY <1>1, <1>2, SameBounds DEF sender, receiver, wires
<1>6. Popping' /\ Flushing'
  BY <1>1, <1>2, StillPopping, SameFlushing DEF wires, cycle
<1>7. LastCount'
  <2>1. Together' => Together
    BY <1>2 DEF Together, cycle
  <2> QED  BY <2>1, <1>1, <1>2, <1>4, SameLastCount DEF receiver
<1>8. Leaving'
  <2>1. \A q \in Thread : Stays(q)
    BY <1>2 DEF Stays, receiver, wires, flush, cycle
  <2>2. \A q \in Thread : LeavingOf(q)'
    BY <2>1, <1>1, StaysLeaving
  <2> QED  BY <2>2 DEF Leaving, LeavingOf
<1>9. Stages'
  <2>1. \A q \in Thread : Quiet(q)' <=> Quiet(q)
    BY <1>2, SameQuiet DEF sender, receiver, wires
  <2>2. \A q \in Thread : (Cleared(q)' <=> Cleared(q)) /\ stage'[q] = stage[q]
    BY <1>2 DEF Cleared, receiver, wires, flush, cycle
  <2> QED  BY <2>1, <2>2, <1>1 DEF Stages
<1> QED  BY <1>3, <1>4, <1>5, <1>6, <1>7, <1>8, <1>9 DEF IInv, Traffic

LEMMA IInvNext == IInv /\ [NextEx2]_ex2vars => IInv'
<1> SUFFICES ASSUME IInv, [NextEx2]_ex2vars PROVE IInv'
  OBVIOUS
<1>1. ASSUME NEW p \in Thread, NEW d \in Thread, PushEx2(p, d) PROVE IInv'
  BY <1>1, PushStep
<1>2. ASSUME NEW p \in Thread, Finish(p) PROVE IInv'
  BY <1>2, FinishStep
<1>3. ASSUME NEW p \in Thread, Endgame(p) PROVE IInv'
  BY <1>3, StartFlushStep, FlushOneStep, ProceedStep DEF Endgame
<1>4. ASSUME NEW p \in Thread, Pop(p) PROVE IInv'
  BY <1>4, PopItemStep, PopEmptyStep, CountMessagesStep, ActivateStep, PickStep DEF Pop
<1>5. ASSUME NEW p \in Thread, Unpop(p) PROVE IInv'
  BY <1>5, UnpopStep
<1>6. ASSUME NEW p \in Thread, Land(p) PROVE IInv'
  BY <1>6, LandDataStep, ClaimStep, LandNoteStep DEF Land
<1>7. ASSUME NEW p \in Thread, ResetEx2(p) PROVE IInv'
  BY <1>7, EnterResetStep, ClearStep DEF ResetEx2
<1>8. ASSUME FirstBarrier \/ SecondBarrier PROVE IInv'
  BY <1>8, FirstBarrierStep, SecondBarrierStep
<1>9. ASSUME FinishedEx2 \/ UNCHANGED ex2vars PROVE IInv'
  BY <1>9, IInvStutter DEF FinishedEx2
<1> QED  BY <1>1, <1>2, <1>3, <1>4, <1>5, <1>6, <1>7, <1>8, <1>9 DEF NextEx2

-----------------------------------------------------------------------------
\* A set without two different elements has none or one.
LEMMA AtMostOne ==
  ASSUME NEW S, \A x, y \in S : x = y
  PROVE  Cardinality(S) = IF S = {} THEN 0 ELSE 1
<1>1. CASE S = {}
  BY <1>1, FS_EmptySet
<1>2. CASE S # {}
  <2>1. PICK x \in S : TRUE
    BY <1>2
  <2>2. S = {x}
    BY <2>1
  <2>3. Cardinality({x}) = 1
    BY FS_Singleton
  <2> QED  BY <2>2, <2>3, <1>2
<1> QED  BY <1>1, <1>2

LEMMA IInvOneCredit == IInv => OneCredit
<1> SUFFICES ASSUME IInv, NEW p \in Thread, NEW d \in Thread
             PROVE  can_send[p][d]
                      + Cardinality({m \in note[p] : m.to = d})
                      + Cardinality({i \in Position : queue[d][i].pe = p})
                      + Cardinality({i \in DOMAIN active[d] : active[d][i] = p}) = 1
  BY DEF OneCredit
<1> DEFINE A == {m \in note[p] : m.to = d}
           B == {i \in Position : queue[d][i].pe = p}
           C == {i \in DOMAIN active[d] : active[d][i] = p}
<1>1. TypeOKEx2 /\ Notes /\ Queued /\ ActiveOnce /\ Credit
  BY DEF IInv
<1>2. Cardinality(A) = IF A = {} THEN 0 ELSE 1
  <2>1. \A x, y \in A : x = y
    BY <1>1 DEF Notes
  <2> HIDE DEF A
  <2> QED  BY <2>1, AtMostOne
<1>3. Cardinality(B) = IF B = {} THEN 0 ELSE 1
  <2>1. \A x, y \in B : x = y
    BY <1>1, FreeIsNone DEF Queued
  <2> HIDE DEF B
  <2> QED  BY <2>1, AtMostOne
<1>4. Cardinality(C) = IF C = {} THEN 0 ELSE 1
  <2>1. \A x, y \in C : x = y
    BY <1>1 DEF ActiveOnce
  <2> HIDE DEF C
  <2> QED  BY <2>1, AtMostOne
<1>5. /\ A = {} <=> ~NoteTo(p, d)
      /\ B = {} <=> ~QueuedFrom(p, d)
      /\ C = {} <=> ~ActiveFrom(p, d)
  BY DEF NoteTo, QueuedFrom, ActiveFrom
<1> HIDE DEF A, B, C
<1>6. CreditOf(p, d)
  BY <1>1, CreditNow
<1>7. can_send[p][d] + Cardinality(A) + Cardinality(B) + Cardinality(C) = 1
  BY <1>2, <1>3, <1>4, <1>5, <1>6 DEF CreditOf
<1> QED  BY <1>7 DEF A, B, C

LEMMA IInvAssertions == IInv => Assertions
<1> SUFFICES ASSUME IInv, NEW r \in Thread
             PROVE  /\ (pc[r] = "activate" /\ MoreMessages(r)) =>
                          pop_cnt[r][NextMessage(r).pe] = 0
                    /\ (AtHead(r) /\ pop_pe[r] # None /\ ~HasItem(r)) => current[r] > 0
                    /\ stage[r] = "clearing" =>
                          /\ num_popped[r] = num_msgs[r]
                          /\ \A d \in Thread : can_send[r][d] = 1
  BY DEF Assertions
<1>1. TypeOKEx2 /\ Queued /\ Credit /\ Popping /\ Stages
  BY DEF IInv
<1>2. ASSUME MoreMessages(r) PROVE pop_cnt[r][NextMessage(r).pe] = 0
  <2> DEFINE i == At(num_made_active[r])  s == NextMessage(r).pe
  <2>1. i \in Position /\ NextMessage(r) = queue[r][i] /\ NextMessage(r) \in Message
    BY <1>1, <1>2, NextMessageType DEF MoreMessages
  <2>2. s \in Thread /\ queue[r][i].pe = s
    BY <2>1 DEF Message
  <2>3. QueuedFrom(s, r)
    <3> HIDE DEF i, s
    <3> QED  BY <2>1, <2>2 DEF QueuedFrom
  <2>4. ~ActiveFrom(s, r)
    <3> HIDE DEF s
    <3> QED  BY <2>2, <2>3, <1>1, CreditNow DEF CreditOf
  <2> HIDE DEF s
  <2>5. ~(pop_cnt[r][s] > 0)
    BY <2>2, <2>4, <1>1 DEF Popping
  <2>6. pop_cnt[r][s] = 0
    BY <2>2, <2>5, <1>1, Entries
  <2> QED  BY <2>6 DEF s
<1>3. pop_pe[r] # None => current[r] > 0
  BY <1>1, PEntries DEF Popping
<1>4. stage[r] = "clearing" => num_popped[r] = num_msgs[r] /\ \A d \in Thread : can_send[r][d] = 1
  BY <1>1 DEF Stages, Quiet
<1> QED  BY <1>2, <1>3, <1>4

LEMMA IInvFlowControl == IInv => FlowControl
<1> SUFFICES ASSUME IInv PROVE FlowControl
  OBVIOUS
<1>1. TypeOKEx2 /\ Claimed
  BY DEF IInv
<1>2. QueueNotOverrun
  BY <1>1 DEF QueueNotOverrun, Claimed
<1> QED  BY <1>1, <1>2, IInvOneCredit, IInvAssertions DEF FlowControl

\* No buffer and no position of a message queue is written over before it has
\* been read, each pair of PEs has one right to send, the assertions of
\* exstack2_pop() and exstack2_reset() hold, and every variable has its type.
THEOREM FlowControlHolds == SpecEx2 => []FlowControl
<1>1. InitEx2 => IInv
  BY IInvInit
<1>2. IInv /\ [NextEx2]_ex2vars => IInv'
  BY IInvNext
<1>3. IInv => FlowControl
  BY IInvFlowControl
<1> QED  BY <1>1, <1>2, <1>3, PTL DEF SpecEx2


-----------------------------------------------------------------------------
(* FIFO links: the inductive invariant *)

\* How many items from p have been popped or wait in an active buffer of d.
Reached(p, d) == Len(items_popped[d][p]) + pop_cnt[d][p]

\* The packages counted are those that the client has pushed.
Accounts(p, d, cnt) == Reached(p, d) + cnt + Len(snd[p][d]) = items_pushed[p][d]

\* The receive buffer holds the next cnt packages.
Landed(p, d, cnt) == \A j \in 1 .. cnt : rcv[d][p][j] = Reached(p, d) + j

\* The client of d has taken the items of p in the order they were pushed.
InOrder(p, d) == \A i \in 1 .. Len(items_popped[d][p]) : items_popped[d][p][i] = i

\* What is left of the active buffer comes next, and a pop can be undone.
AtHand(p, d) == \A j \in 1 .. pop_cnt[d][p] :
  rcv[d][p][pop_ptr[d][p] + j] = Len(items_popped[d][p]) + j
Undoable(p, d) == pop_pe[d] = p /\ pc[d] \in {"idle", "flush"} =>
  Len(items_popped[d][p]) > 0 /\ rcv[d][p][pop_ptr[d][p]] = Len(items_popped[d][p])

\* A buffer that has not landed holds the next packages, one that has landed is
\* in the receive buffer, whether its message is on its way or in the queue.
Carries(p, d, cnt) == \A x \in data[p] :
  Len(x.pkgs) = cnt /\ \A j \in 1 .. cnt : x.pkgs[j] = Reached(p, d) + j
Coming(p, d) == \A m \in note[p] : m.to = d =>
  /\ Accounts(p, d, m.msg.cnt)
  /\ Carries(p, d, m.msg.cnt)
  /\ data[p] = {} => Landed(p, d, m.msg.cnt)
Stored(p, d) == \A i \in Position : queue[d][i].pe = p =>
  Accounts(p, d, queue[d][i].cnt) /\ Landed(p, d, queue[d][i].cnt)
Nothing(p, d) == ~NoteTo(p, d) /\ ~QueuedFrom(p, d) => Accounts(p, d, 0)

\* The send buffer holds the packages pushed last.
Unsent(p, d) == \A j \in 1 .. Len(snd[p][d]) :
  snd[p][d][j] = items_pushed[p][d] - Len(snd[p][d]) + j

Stream(p, d) ==
  /\ InOrder(p, d) /\ AtHand(p, d) /\ Undoable(p, d)
  /\ Coming(p, d) /\ Stored(p, d) /\ Nothing(p, d) /\ Unsent(p, d)

\* In a round, every link is such a stream.
Streams == Together => \A p, d \in Thread : Stream(p, d)

\* A buffer is on its way with a message that has no position yet.
Errand(p) == \A x \in data[p] :
  \E m \in note[p] : m.to = x.to /\ m.position = Unclaimed

\* Nothing is left in a send buffer that has been flushed, nor between the
\* barriers of exstack2_reset(), where the link ends and begins anew.
Emptied(p) ==
  /\ \A d \in Thread : d \notin unflushed[p] => snd[p][d] = <<>>
  /\ stage[p] \in {"clearing", "cleared"} => \A d \in Thread : snd[p][d] = <<>>
  /\ stage[p] = "cleared" => \A d \in Thread : items_pushed[p][d] = 0 /\ items_popped[p][d] = <<>>

\* All PEs are in one round; between the barriers some may be in the next.
Rounds == \A p, q \in Thread :
  ex_round[q] = IF stage[p] # "cleared" /\ stage[q] = "cleared" THEN ex_round[p] + 1
             ELSE IF stage[p] = "cleared" /\ stage[q] # "cleared" THEN ex_round[p] - 1
             ELSE ex_round[p]

Order == Streams /\ \A p \in Thread : Errand(p)
Turn  == Rounds /\ \A p \in Thread : Emptied(p)

LInv == IInv /\ Order /\ Turn

-----------------------------------------------------------------------------
(* Links that a step leaves alone *)

\* The buffers of the link from q to e, and what has been pushed and popped.
SamePackages(q, e) ==
  /\ items_popped'[e][q] = items_popped[e][q] /\ rcv'[e][q] = rcv[e][q]
  /\ pop_cnt'[e][q] = pop_cnt[e][q] /\ pop_ptr'[e][q] = pop_ptr[e][q]
  /\ snd'[q][e] = snd[q][e] /\ items_pushed'[q][e] = items_pushed[q][e]

\* What q has on its way to e
SameNotes(q, e) ==
  /\ NoteTo(q, e) => NoteTo(q, e)'
  /\ \A n \in note'[q] : n.to = e =>
       /\ data'[q] = data[q]
       /\ \E m \in note[q] : m.to = e /\ m.msg = n.msg

\* What waits in the queue of e
SameQueue(q, e) ==
  /\ QueuedFrom(q, e) => QueuedFrom(q, e)'
  /\ \A i \in Position : queue'[e][i].pe = q => queue'[e][i] = queue[e][i]

\* Whether e may undo a pop
SameHand(q, e) ==
  pop_pe'[e] = q /\ pc'[e] \in {"idle", "flush"} =>
    pop_pe[e] = q /\ pc[e] \in {"idle", "flush"}

Alike(q, e) ==
  SamePackages(q, e) /\ SameNotes(q, e) /\ SameQueue(q, e) /\ SameHand(q, e)

LEMMA AlikeStream ==
  ASSUME NEW q \in Thread, NEW e \in Thread, Stream(q, e), Alike(q, e)
  PROVE  Stream(q, e)'
<1>1. SamePackages(q, e) /\ SameNotes(q, e) /\ SameQueue(q, e) /\ SameHand(q, e)
  BY DEF Alike
<1>2. Reached(q, e)' = Reached(q, e)
  BY <1>1 DEF SamePackages, Reached
<1>3. \A cnt : /\ Accounts(q, e, cnt)' <=> Accounts(q, e, cnt)
               /\ Landed(q, e, cnt)' <=> Landed(q, e, cnt)
  BY <1>1, <1>2 DEF SamePackages, Accounts, Landed
<1>4. InOrder(q, e)' /\ AtHand(q, e)' /\ Unsent(q, e)'
  BY <1>1 DEF SamePackages, Stream, InOrder, AtHand, Unsent
<1>5. Undoable(q, e)'
  BY <1>1 DEF SamePackages, SameHand, Stream, Undoable
<1>6. Coming(q, e)'
  <2>1. ASSUME NEW n \in note'[q], n.to = e
        PROVE  /\ Accounts(q, e, n.msg.cnt)'
               /\ Carries(q, e, n.msg.cnt)'
               /\ data'[q] = {} => Landed(q, e, n.msg.cnt)'
    <3>1. data'[q] = data[q]
      BY <1>1, <2>1 DEF SameNotes
    <3>2. PICK m \in note[q] : m.to = e /\ m.msg = n.msg
      BY <1>1, <2>1 DEF SameNotes
    <3>3. /\ Accounts(q, e, n.msg.cnt)
          /\ Carries(q, e, n.msg.cnt)
          /\ data[q] = {} => Landed(q, e, n.msg.cnt)
      BY <3>2 DEF Stream, Coming
    <3>4. Carries(q, e, n.msg.cnt)'
      BY <3>1, <3>3, <1>2 DEF Carries
    <3> QED  BY <3>1, <3>3, <3>4, <1>3
  <2> QED  BY <2>1 DEF Coming
<1>7. Stored(q, e)'
  <2>1. ASSUME NEW i \in Position, queue'[e][i].pe = q
        PROVE  (Accounts(q, e, queue[e][i].cnt) /\ Landed(q, e, queue[e][i].cnt))'
    <3>1. queue'[e][i] = queue[e][i]
      BY <1>1, <2>1 DEF SameQueue
    <3>2. Accounts(q, e, queue[e][i].cnt) /\ Landed(q, e, queue[e][i].cnt)
      BY <3>1, <2>1 DEF Stream, Stored
    <3> QED  BY <3>1, <3>2, <1>1, <1>2 DEF SamePackages, Accounts, Landed
  <2> QED  BY <2>1 DEF Stored, Position
<1>8. Nothing(q, e)'
  BY <1>1, <1>3 DEF SameNotes, SameQueue, Stream, Nothing
<1> QED  BY <1>4, <1>5, <1>6, <1>7, <1>8 DEF Stream

LEMMA OrderStep ==
  ASSUME \A p, d \in Thread : Stream(p, d)', \A p \in Thread : Errand(p)'
  PROVE  Order'
BY DEF Order, Streams

\* Nothing but the place of a pop changes.
LEMMA SameOrder ==
  ASSUME Order, Together,
         UNCHANGED <<items_popped, rcv, pop_cnt, pop_ptr, snd, items_pushed, data, note, queue>>,
         \A q, e \in Thread : SameHand(q, e)
  PROVE  Order'
<1>1. ASSUME NEW q \in Thread, NEW e \in Thread PROVE Stream(q, e)'
  <2>1. SamePackages(q, e)
    BY DEF SamePackages
  <2>2. SameNotes(q, e)
    BY DEF SameNotes, NoteTo
  <2>3. SameQueue(q, e)
    BY DEF SameQueue, QueuedFrom
  <2>4. Stream(q, e)
    BY DEF Order, Streams
  <2> QED  BY <2>1, <2>2, <2>3, <2>4, AlikeStream DEF Alike
<1>2. \A p \in Thread : Errand(p)'
  BY DEF Order, Errand
<1> QED  BY <1>1, <1>2, OrderStep

-----------------------------------------------------------------------------
(* A buffer is sent *)

\* What changes when p sends its buffer to d.
LEMMA SendChanges ==
  ASSUME TypeOKEx2, NEW p \in Thread, NEW d \in Thread, NEW last, NEW rest, Settled(p),
         Send(p, d, last, rest)
  PROVE  /\ snd'[p][d] = rest
         /\ \A q, e \in Thread : q # p \/ e # d => snd'[q][e] = snd[q][e]
         /\ note[p] = {} /\ data[p] = {}
         /\ \E m : /\ note'[p] = {m} /\ m.to = d /\ m.position = Unclaimed
                   /\ m.msg.cnt = Len(snd[p][d])
         /\ \A x \in data'[p] : x.to = d /\ x.pkgs = snd[p][d]
         /\ snd[p][d] # <<>> => data'[p] # {}
         /\ \A q \in Thread : q # p => note'[q] = note[q] /\ data'[q] = data[q]
         /\ queue' = queue
<1> DEFINE m == [to |-> d, position |-> Unclaimed,
                 msg |-> [pe |-> p, cnt |-> Len(snd[p][d]), last |-> last]]
           x == [to |-> d, pkgs |-> snd[p][d]]
<1>1. /\ data' = [data EXCEPT ![p] = IF snd[p][d] = <<>> THEN {} ELSE {x}]
      /\ note' = [note EXCEPT ![p] = {m}]
      /\ snd' = [snd EXCEPT ![p][d] = rest]
      /\ queue' = queue
  BY DEF Send
<1>2. m.to = d /\ m.position = Unclaimed /\ m.msg.cnt = Len(snd[p][d])
  OBVIOUS
<1>3. x.to = d /\ x.pkgs = snd[p][d]
  OBVIOUS
<1> HIDE DEF m, x
<1>4. note'[p] = {m} /\ \A q \in Thread : q # p => note'[q] = note[q]
  BY <1>1 DEF TypeOKEx2
<1>5. /\ data'[p] = IF snd[p][d] = <<>> THEN {} ELSE {x}
      /\ \A q \in Thread : q # p => data'[q] = data[q]
  BY <1>1 DEF TypeOKEx2
<1>6. snd'[p][d] = rest /\ \A q, e \in Thread : q # p \/ e # d => snd'[q][e] = snd[q][e]
  BY <1>1 DEF TypeOKEx2
<1>7. note[p] = {} /\ data[p] = {}
  BY DEF Settled
<1>8. \E n : /\ note'[p] = {n} /\ n.to = d /\ n.position = Unclaimed
             /\ n.msg.cnt = Len(snd[p][d])
  BY <1>2, <1>4
<1>9. /\ \A y \in data'[p] : y.to = d /\ y.pkgs = snd[p][d]
      /\ snd[p][d] # <<>> => data'[p] # {}
  BY <1>3, <1>5
<1> QED  BY <1>1, <1>4, <1>5, <1>6, <1>7, <1>8, <1>9

\* Is nothing of the receive side of any link disturbed?
Undisturbed ==
  /\ UNCHANGED <<items_popped, rcv, pop_cnt, pop_ptr>>
  /\ \A q, e \in Thread : SameHand(q, e)

\* The link from p to d, when p sends the buffer and has then pushed what is in
\* rest.
LEMMA SendStream ==
  ASSUME TypeOKEx2, Credit, Undisturbed,
         NEW p \in Thread, NEW d \in Thread, NEW last, NEW rest \in Seq(Nat),
         Stream(p, d), Settled(p),
         can_send[p][d] # 0, Send(p, d, last, rest),
         items_pushed'[p][d] = items_pushed[p][d] + Len(rest),
         \A j \in 1 .. Len(rest) : rest[j] = items_pushed[p][d] + j
  PROVE  Stream(p, d)' /\ Errand(p)'
<1> DEFINE L == Len(snd[p][d])
           R == Reached(p, d)
           K == items_pushed[p][d]
           M == Len(rest)
<1>1. L \in Nat /\ R \in Nat /\ K \in Nat /\ M \in Nat
  BY Entries, LenProperties DEF Reached
<1>2. PICK m : /\ note'[p] = {m} /\ m.to = d /\ m.position = Unclaimed
               /\ m.msg.cnt = L
  BY SendChanges
<1>3. /\ snd'[p][d] = rest /\ note[p] = {} /\ queue' = queue
      /\ \A x \in data'[p] : x.to = d /\ x.pkgs = snd[p][d]
      /\ snd[p][d] # <<>> => data'[p] # {}
  BY SendChanges
<1>4. ~NoteTo(p, d) /\ ~QueuedFrom(p, d)
  BY CreditNow DEF CreditOf
<1>5. R + L = K
  <2>1. R + 0 + L = K
    BY <1>4 DEF Stream, Nothing, Accounts
  <2> QED  BY <2>1, <1>1
<1>6. UNCHANGED <<items_popped, rcv, pop_cnt, pop_ptr>>
  BY DEF Undisturbed
<1>7. Reached(p, d)' = R
  BY <1>6 DEF Reached
<1>8. items_pushed'[p][d] = K + M
  OBVIOUS
<1>9. \A j \in 1 .. L : snd[p][d][j] = R + j
  <2> TAKE j \in 1 .. L
  <2>1. snd[p][d][j] = K - L + j
    BY DEF Stream, Unsent
  <2> HIDE DEF L, R, K
  <2>2. j \in Nat
    BY <1>1
  <2>3. K - L + j = R + j
    BY <1>1, <1>5, <2>2
  <2> QED  BY <2>1, <2>3
<1>18. PICK cnt \in Nat : cnt = L
  BY <1>1
<1>10. InOrder(p, d)' /\ AtHand(p, d)'
  BY <1>6 DEF Stream, InOrder, AtHand
<1>11. Undoable(p, d)'
  BY <1>6 DEF Stream, Undoable, Undisturbed, SameHand
<1>12. Unsent(p, d)'
  <2>1. ASSUME NEW j \in 1 .. M PROVE rest[j] = K + M - M + j
    <3>1. rest[j] = K + j
      OBVIOUS
    <3> HIDE DEF M, K
    <3>2. K + j = K + M - M + j
      BY <1>1
    <3> QED  BY <3>1, <3>2
  <2>2. Len(snd'[p][d]) = M
    BY <1>3
  <2> HIDE DEF M, K
  <2>3. \A j \in 1 .. M : snd'[p][d][j] = items_pushed'[p][d] - M + j
    <3> TAKE j \in 1 .. M
    <3>1. snd'[p][d][j] = K + M - M + j
      BY <2>1, <1>3
    <3>2. K + M - M + j = items_pushed'[p][d] - M + j
      BY <1>1, <1>8
    <3> QED  BY <3>1, <3>2
  <2> QED  BY <2>2, <2>3 DEF Unsent
<1>13. Coming(p, d)'
  <2>1. Accounts(p, d, cnt)'
    <3>2. Len(snd'[p][d]) = M
      BY <1>3
    <3> HIDE DEF M, K, R, L
    <3>1. R + cnt + M = K + M
      BY <1>1, <1>5, <1>18
    <3> QED  BY <3>1, <3>2, <1>7, <1>8 DEF Accounts
  <2>2. Carries(p, d, cnt)'
    <3>1. \A x \in data'[p] : Len(x.pkgs) = cnt /\ \A j \in 1 .. cnt : x.pkgs[j] = R + j
      BY <1>3, <1>9, <1>18
    <3> HIDE DEF R
    <3> QED  BY <3>1, <1>7 DEF Carries
  <2>3. data'[p] = {} => Landed(p, d, cnt)'
    <3>1. data'[p] = {} => cnt = 0
      BY <1>3, <1>18, Entries
    <3> QED  BY <3>1 DEF Landed
  <2>4. \A n \in note'[p] : n.msg.cnt = cnt
    BY <1>2, <1>18
  <2> HIDE DEF L, K, R, M
  <2> QED  BY <2>1, <2>2, <2>3, <2>4 DEF Coming
<1>14. Stored(p, d)'
  BY <1>3, <1>4 DEF Stored, QueuedFrom, Position
<1>15. Nothing(p, d)'
  BY <1>2 DEF Nothing, NoteTo
<1>16. Errand(p)'
  BY <1>2, <1>3 DEF Errand, Unclaimed
<1> QED  BY <1>10, <1>11, <1>12, <1>13, <1>14, <1>15, <1>16 DEF Stream

\* All links, when p sends its buffer to d.
LEMMA SendOrder ==
  ASSUME TypeOKEx2, Credit, Order, Together, Undisturbed,
         NEW p \in Thread, NEW d \in Thread, NEW last, NEW rest \in Seq(Nat),
         Settled(p), can_send[p][d] # 0, Send(p, d, last, rest),
         items_pushed' = [items_pushed EXCEPT ![p][d] = items_pushed[p][d] + Len(rest)],
         \A j \in 1 .. Len(rest) : rest[j] = items_pushed[p][d] + j
  PROVE  Order'
<1>1. /\ items_pushed'[p][d] = items_pushed[p][d] + Len(rest)
      /\ \A q, e \in Thread : q # p \/ e # d => items_pushed'[q][e] = items_pushed[q][e]
  BY DEF TypeOKEx2
<1>2. \A q, e \in Thread : Stream(q, e)
  BY DEF Order, Streams
<1>3. Stream(p, d)' /\ Errand(p)'
  BY <1>1, <1>2, SendStream
<1>4. /\ \A q, e \in Thread : q # p \/ e # d => snd'[q][e] = snd[q][e]
      /\ \A q \in Thread : q # p => note'[q] = note[q] /\ data'[q] = data[q]
      /\ note[p] = {} /\ queue' = queue
      /\ \E m : note'[p] = {m} /\ m.to = d
  BY SendChanges
<1>5. ASSUME NEW q \in Thread, NEW e \in Thread, q # p \/ e # d
      PROVE  Stream(q, e)'
  <2>1. SamePackages(q, e)
    BY <1>1, <1>4, <1>5 DEF SamePackages, Undisturbed
  <2>2. SameNotes(q, e)
    <3>1. CASE q = p
      BY <3>1, <1>4, <1>5 DEF SameNotes, NoteTo
    <3>2. CASE q # p
      BY <3>2, <1>4 DEF SameNotes, NoteTo
    <3> QED  BY <3>1, <3>2
  <2>3. SameQueue(q, e)
    BY <1>4 DEF SameQueue, QueuedFrom
  <2>4. SameHand(q, e)
    BY DEF Undisturbed
  <2> QED  BY <2>1, <2>2, <2>3, <2>4, <1>2, AlikeStream DEF Alike
<1>6. ASSUME NEW q \in Thread, q # p PROVE Errand(q)'
  BY <1>6, <1>4 DEF Order, Errand
<1>7. \A q, e \in Thread : Stream(q, e)'
  BY <1>3, <1>5
<1>8. \A q \in Thread : Errand(q)'
  BY <1>3, <1>6
<1> QED  BY <1>7, <1>8, OrderStep

LEMMA AppendStream ==
  ASSUME TypeOKEx2, NEW p \in Thread, NEW d \in Thread, Stream(p, d), Undisturbed,
         UNCHANGED <<note, data, queue>>,
         snd'[p][d] = Append(snd[p][d], items_pushed[p][d] + 1),
         items_pushed'[p][d] = items_pushed[p][d] + 1
  PROVE  Stream(p, d)'
<1> DEFINE L == Len(snd[p][d])
           K == items_pushed[p][d]
<1>1. L \in Nat /\ K \in Nat /\ snd[p][d] \in Seq(Nat) /\ Reached(p, d) \in Nat
  BY Entries, LenProperties DEF Reached
<1>2. UNCHANGED <<items_popped, rcv, pop_cnt, pop_ptr>>
  BY DEF Undisturbed
<1>3. Reached(p, d)' = Reached(p, d)
  BY <1>2 DEF Reached
<1>4. /\ Len(snd'[p][d]) = L + 1 /\ snd'[p][d][L + 1] = K + 1
      /\ \A j \in 1 .. L : snd'[p][d][j] = snd[p][d][j]
  BY <1>1
<1>5. \A cnt \in Nat : Accounts(p, d, cnt) => Accounts(p, d, cnt)'
  <2> SUFFICES ASSUME NEW cnt \in Nat, Reached(p, d) + cnt + L = K
               PROVE  Reached(p, d) + cnt + (L + 1) = K + 1
    BY <1>3, <1>4 DEF Accounts
  <2> QED  BY <1>1
<1>6. \A cnt : /\ Carries(p, d, cnt)' <=> Carries(p, d, cnt)
               /\ Landed(p, d, cnt)' <=> Landed(p, d, cnt)
  BY <1>2, <1>3 DEF Carries, Landed
<1>7. InOrder(p, d)' /\ AtHand(p, d)'
  BY <1>2 DEF Stream, InOrder, AtHand
<1>8. Undoable(p, d)'
  BY <1>2 DEF Stream, Undoable, Undisturbed, SameHand
<1>9. Unsent(p, d)'
  <2>1. \A j \in 1 .. L : snd[p][d][j] = K - L + j
    BY DEF Stream, Unsent
  <2> HIDE DEF L, K
  <2>2. ASSUME NEW j \in 1 .. L + 1
        PROVE  snd'[p][d][j] = K + 1 - (L + 1) + j
    <3>1. CASE j \in 1 .. L
      <4>1. snd'[p][d][j] = K - L + j
        BY <3>1, <2>1, <1>4
      <4>2. K - L + j = K + 1 - (L + 1) + j
        BY <3>1, <1>1
      <4> QED  BY <4>1, <4>2
    <3>2. CASE j = L + 1
      <4>1. snd'[p][d][j] = K + 1
        BY <3>2, <1>4
      <4>2. K + 1 = K + 1 - (L + 1) + j
        BY <3>2, <1>1
      <4> QED  BY <4>1, <4>2
    <3>3. j \in 1 .. L \/ j = L + 1
      BY <1>1
    <3> QED  BY <3>1, <3>2, <3>3
  <2>3. items_pushed'[p][d] = K + 1
    BY DEF K
  <2>4. \A j \in 1 .. L + 1 : snd'[p][d][j] = items_pushed'[p][d] - (L + 1) + j
    <3> TAKE j \in 1 .. L + 1
    <3>1. snd'[p][d][j] = K + 1 - (L + 1) + j
      BY <2>2
    <3>2. K + 1 - (L + 1) + j = items_pushed'[p][d] - (L + 1) + j
      BY <1>1, <2>3
    <3> QED  BY <3>1, <3>2
  <2>5. Len(snd'[p][d]) = L + 1
    BY <1>4
  <2> QED  BY <2>4, <2>5 DEF Unsent
<1>10. Coming(p, d)'
  <2>1. ASSUME NEW m \in note[p], m.to = d
        PROVE  /\ Accounts(p, d, m.msg.cnt)'
               /\ Carries(p, d, m.msg.cnt)'
               /\ data[p] = {} => Landed(p, d, m.msg.cnt)'
    <3>1. /\ Accounts(p, d, m.msg.cnt)
          /\ Carries(p, d, m.msg.cnt)
          /\ data[p] = {} => Landed(p, d, m.msg.cnt)
      BY <2>1 DEF Stream, Coming
    <3>2. m.msg.cnt \in Nat
      BY Notation
    <3> QED  BY <3>1, <3>2, <1>5, <1>6
  <2> QED  BY <2>1 DEF Coming
<1>11. Stored(p, d)'
  <2>1. ASSUME NEW i \in Position, queue[d][i].pe = p
        PROVE  (Accounts(p, d, queue[d][i].cnt) /\ Landed(p, d, queue[d][i].cnt))'
    <3> DEFINE cnt == queue[d][i].cnt
    <3>1. queue'[d][i] = queue[d][i]
      OBVIOUS
    <3>2. Accounts(p, d, cnt) /\ Landed(p, d, cnt)
      BY <2>1 DEF Stream, Stored
    <3>3. cnt \in Nat
      BY <2>1, Queue
    <3>4. cnt' = cnt
      BY <3>1
    <3> HIDE DEF cnt
    <3>5. Reached(p, d)' + cnt + Len(snd'[p][d]) = items_pushed'[p][d]
      BY <3>2, <3>3, <1>5 DEF Accounts
    <3>6. \A j \in 1 .. cnt : rcv'[d][p][j] = Reached(p, d)' + j
      BY <3>2, <1>6 DEF Landed
    <3> QED  BY <3>4, <3>5, <3>6 DEF Accounts, Landed, cnt
  <2> QED  BY <2>1 DEF Stored, Position
<1>12. Nothing(p, d)'
  <2>1. NoteTo(p, d)' <=> NoteTo(p, d)
    BY DEF NoteTo
  <2>2. QueuedFrom(p, d)' <=> QueuedFrom(p, d)
    BY DEF QueuedFrom
  <2> QED  BY <2>1, <2>2, <1>5 DEF Stream, Nothing
<1> QED  BY <1>7, <1>8, <1>9, <1>10, <1>11, <1>12 DEF Stream

LEMMA AppendOrder ==
  ASSUME TypeOKEx2, Order, Together, Undisturbed, NEW p \in Thread, NEW d \in Thread,
         UNCHANGED <<note, data, queue>>,
         snd' = [snd EXCEPT ![p][d] = Append(snd[p][d], items_pushed[p][d] + 1)],
         items_pushed' = [items_pushed EXCEPT ![p][d] = items_pushed[p][d] + 1]
  PROVE  Order'
<1>1. /\ snd'[p][d] = Append(snd[p][d], items_pushed[p][d] + 1)
      /\ \A q, e \in Thread : q # p \/ e # d => snd'[q][e] = snd[q][e]
  BY DEF TypeOKEx2
<1>2. /\ items_pushed'[p][d] = items_pushed[p][d] + 1
      /\ \A q, e \in Thread : q # p \/ e # d => items_pushed'[q][e] = items_pushed[q][e]
  BY DEF TypeOKEx2
<1>3. \A q, e \in Thread : Stream(q, e)
  BY DEF Order, Streams
<1>4. Stream(p, d)'
  BY <1>1, <1>2, <1>3, AppendStream
<1>5. ASSUME NEW q \in Thread, NEW e \in Thread, q # p \/ e # d
      PROVE  Stream(q, e)'
  <2>1. SamePackages(q, e)
    BY <1>1, <1>2, <1>5 DEF SamePackages, Undisturbed
  <2>2. SameNotes(q, e)
    BY DEF SameNotes, NoteTo
  <2>3. SameQueue(q, e)
    BY DEF SameQueue, QueuedFrom
  <2>4. SameHand(q, e)
    BY DEF Undisturbed
  <2> QED  BY <2>1, <2>2, <2>3, <2>4, <1>3, AlikeStream DEF Alike
<1>6. \A q \in Thread : Errand(q)'
  BY DEF Order, Errand
<1>7. \A q, e \in Thread : Stream(q, e)'
  BY <1>4, <1>5
<1> QED  BY <1>6, <1>7, OrderStep

LEMMA PushOrder ==
  ASSUME TypeOKEx2, Credit, Order, Together, NEW p \in Thread, NEW d \in Thread, PushEx2(p, d)
  PROVE  Order'
<1>1. /\ items_pushed' = [items_pushed EXCEPT ![p][d] = items_pushed[p][d] + 1]
      /\ Appends(p, d) \/ SendsFull(p, d)
      /\ UNCHANGED <<receiver, items_popped, pc>>
      /\ Settled(p)
  BY PushCases DEF Ready
<1>2. Undisturbed
  BY <1>1 DEF Undisturbed, SameHand, receiver
<1>3. CASE Appends(p, d)
  BY <1>1, <1>2, <1>3, AppendOrder DEF Appends, wires
<1>4. CASE SendsFull(p, d)
  <2> DEFINE rest == <<items_pushed[p][d] + 1>>
  <2>1. items_pushed[p][d] \in Nat
    BY Entries
  <2>2. rest \in Seq(Nat) /\ Len(rest) = 1 /\ \A j \in 1 .. Len(rest) : rest[j] = items_pushed[p][d] + j
    BY <2>1
  <2>3. Send(p, d, FALSE, rest) /\ can_send[p][d] # 0
    BY <1>4 DEF SendsFull
  <2> HIDE DEF rest
  <2>4. items_pushed' = [items_pushed EXCEPT ![p][d] = items_pushed[p][d] + Len(rest)]
    BY <2>2, <1>1
  <2> QED  BY <2>2, <2>3, <2>4, <1>1, <1>2, SendOrder
<1> QED  BY <1>1, <1>3, <1>4

LEMMA FlushOrder ==
  ASSUME TypeOKEx2, Credit, Order, Together, NEW p \in Thread, FlushOne(p)
  PROVE  Order'
<1>1. /\ pc[p] = "flush" /\ Settled(p)
      /\ UNCHANGED <<receiver, history>>
  BY FlushCases
<1>2. PICK d \in todo[p] :
        /\ FlushSends(p, d) \/ FlushSkips(p, d)
        /\ pc' = [pc EXCEPT ![p] = IF todo[p] = {d} THEN "idle" ELSE "flush"]
  BY FlushCases
<1>3. d \in Thread
  BY DEF TypeOKEx2
<1>4. \A q \in Thread : pc'[q] \in {"idle", "flush"} => pc[q] \in {"idle", "flush"}
  BY <1>1, <1>2 DEF TypeOKEx2
<1>5. Undisturbed /\ items_pushed' = items_pushed
  BY <1>1, <1>4 DEF Undisturbed, SameHand, receiver, history
<1>6. CASE FlushSends(p, d)
  <2> DEFINE rest == <<>>
  <2>1. /\ rest \in Seq(Nat) /\ Len(rest) = 0
        /\ \A j \in 1 .. Len(rest) : rest[j] = items_pushed[p][d] + j
    OBVIOUS
  <2>2. Send(p, d, TRUE, rest) /\ can_send[p][d] # 0
    BY <1>6 DEF FlushSends
  <2> HIDE DEF rest
  <2>3. items_pushed[p][d] + Len(rest) = items_pushed[p][d]
    BY <2>1, <1>3, Entries
  <2>4. items_pushed' = [items_pushed EXCEPT ![p][d] = items_pushed[p][d] + Len(rest)]
    BY <2>3, <1>3, <1>5 DEF TypeOKEx2
  <2> QED  BY <2>1, <2>2, <2>4, <1>1, <1>3, <1>5, SendOrder
<1>7. CASE FlushSkips(p, d)
  BY <1>5, <1>7, SameOrder DEF FlushSkips, sender, wires, Undisturbed
<1> QED  BY <1>2, <1>6, <1>7

-----------------------------------------------------------------------------
(* A buffer and its message land *)

\* What changes when the buffer x of PE p lands.
LEMMA DataChanges ==
  ASSUME TypeOKEx2, Bounds, Notes, NEW p \in Thread, NEW d \in Thread, Errand(p), LandData(p),
         NoteTo(p, d)
  PROVE  /\ data'[p] = {} /\ \A q \in Thread : q # p => data'[q] = data[q]
         /\ \A e, q \in Thread : e # d \/ q # p => rcv'[e][q] = rcv[e][q]
         /\ \E x \in data[p] : \A j \in 1 .. Len(x.pkgs) : rcv'[d][p][j] = x.pkgs[j]
<1>1. PICK x \in data[p] :
        rcv' = [rcv EXCEPT ![x.to][p] = x.pkgs \o SubSeq(@, Len(x.pkgs)+1, BufCnt)]
  BY Zenon DEF LandData
<1>2. x.to \in Thread /\ x.pkgs \in Seq(Nat)
  <2>1. x \in [to : Thread, pkgs : Seq(Nat)]
    BY DEF TypeOKEx2
  <2> QED  BY <2>1
<1>3. x.to = d
  BY DEF Errand, Notes, NoteTo
<1> DEFINE s == x.pkgs
           t == SubSeq(rcv[d][p], Len(x.pkgs)+1, BufCnt)
           v == s \o t
<1>4. rcv' = [rcv EXCEPT ![d][p] = v]
  BY <1>1, <1>3
<1>5. Len(s) <= BufCnt
  BY DEF Bounds
<1>6. \A j \in 1 .. Len(s) : v[j] = s[j]
  BY <1>2
<1> HIDE DEF s, t, v
<1>7. rcv'[d][p] = v /\ \A e, q \in Thread : e # d \/ q # p => rcv'[e][q] = rcv[e][q]
  BY <1>4 DEF TypeOKEx2
<1>8. data'[p] = {} /\ \A q \in Thread : q # p => data'[q] = data[q]
  BY DEF LandData, TypeOKEx2
<1>9. \A j \in 1 .. Len(x.pkgs) : rcv'[d][p][j] = x.pkgs[j]
  BY <1>6, <1>7 DEF s
<1> QED  BY <1>7, <1>8, <1>9

\* The buffer that is on its way from p to d lands.
LEMMA DataStream ==
  ASSUME TypeOKEx2, Bounds, Notes, Credit, Popping, NEW p \in Thread, NEW d \in Thread,
         Errand(p), Stream(p, d), LandData(p), NoteTo(p, d)
  PROVE  Stream(p, d)'
<1>1. /\ data'[p] = {}
      /\ \E x \in data[p] : \A j \in 1 .. Len(x.pkgs) : rcv'[d][p][j] = x.pkgs[j]
  BY DataChanges
<1>2. PICK x \in data[p] : \A j \in 1 .. Len(x.pkgs) : rcv'[d][p][j] = x.pkgs[j]
  BY <1>1
<1>3. UNCHANGED <<items_popped, pop_cnt, pop_ptr, snd, items_pushed, note, queue, pop_pe, pc>>
  BY DEF LandData, sender, history
<1>4. ~QueuedFrom(p, d) /\ ~ActiveFrom(p, d)
  BY CreditNow DEF CreditOf
<1>5. pop_cnt[d][p] = 0 /\ pop_pe[d] # p
  <2>1. ~(pop_cnt[d][p] > 0) /\ pop_cnt[d][p] \in Nat
    BY <1>4, Entries DEF Popping
  <2>2. pop_pe[d] # p
    <3> SUFFICES ASSUME pop_pe[d] = p PROVE FALSE
      OBVIOUS
    <3>1. current[d] \in 1 .. Len(active[d]) /\ active[d][current[d]] = p
      BY FreeIsNone DEF Popping
    <3>2. current[d] \in DOMAIN active[d]
      BY <3>1, PEntries
    <3> QED  BY <3>1, <3>2, <1>4 DEF ActiveFrom
  <2> QED  BY <2>1, <2>2
<1>6. Reached(p, d)' = Reached(p, d)
  BY <1>3 DEF Reached
<1>7. InOrder(p, d)' /\ Unsent(p, d)'
  BY <1>3 DEF Stream, InOrder, Unsent
<1>8. AtHand(p, d)' /\ Undoable(p, d)'
  BY <1>3, <1>5 DEF AtHand, Undoable
<1>9. Stored(p, d)' /\ Nothing(p, d)'
  BY <1>3, <1>4 DEF Stored, Nothing, QueuedFrom, NoteTo, Position
<1>10. Coming(p, d)'
  <2>1. ASSUME NEW m \in note[p], m.to = d
        PROVE  /\ Accounts(p, d, m.msg.cnt)'
               /\ Carries(p, d, m.msg.cnt)'
               /\ Landed(p, d, m.msg.cnt)'
    <3>1. Accounts(p, d, m.msg.cnt) /\ Carries(p, d, m.msg.cnt)
      BY <2>1 DEF Stream, Coming
    <3>2. Accounts(p, d, m.msg.cnt)'
      BY <3>1, <1>3, <1>6 DEF Accounts
    <3>3. Carries(p, d, m.msg.cnt)'
      BY <1>1 DEF Carries
    <3>4. Landed(p, d, m.msg.cnt)'
      BY <3>1, <1>2, <1>6 DEF Carries, Landed
    <3> QED  BY <3>2, <3>3, <3>4
  <2> QED  BY <2>1, <1>3 DEF Coming
<1> QED  BY <1>7, <1>8, <1>9, <1>10 DEF Stream

LEMMA DataOrder ==
  ASSUME TypeOKEx2, Bounds, Notes, Credit, Popping, Order, Together, NEW p \in Thread,
         LandData(p)
  PROVE  Order'
<1>1. \A q \in Thread : Errand(q) /\ \A e \in Thread : Stream(q, e)
  BY DEF Order, Streams
<1>2. PICK d \in Thread : NoteTo(p, d)
  <2>1. PICK x \in data[p] : TRUE
    BY DEF LandData
  <2>2. PICK m \in note[p] : m.to = x.to
    BY <1>1 DEF Errand
  <2>3. m.to \in Thread
    BY Notation
  <2> QED  BY <2>2, <2>3 DEF NoteTo
<1>3. /\ data'[p] = {} /\ \A q \in Thread : q # p => data'[q] = data[q]
      /\ \A e, q \in Thread : e # d \/ q # p => rcv'[e][q] = rcv[e][q]
  BY <1>1, <1>2, DataChanges
<1>4. UNCHANGED <<items_popped, pop_cnt, pop_ptr, snd, items_pushed, note, queue, pop_pe, pc>>
  BY DEF LandData, sender, history
<1>5. Stream(p, d)'
  BY <1>1, <1>2, DataStream
<1>6. ASSUME NEW q \in Thread, NEW e \in Thread, q # p \/ e # d
      PROVE  Stream(q, e)'
  <2>1. SamePackages(q, e)
    BY <1>3, <1>4, <1>6 DEF SamePackages
  <2>2. SameNotes(q, e)
    <3>1. CASE q = p
      <4>1. ~NoteTo(q, e)
        BY <3>1, <1>2, <1>6 DEF Notes, NoteTo
      <4> QED  BY <4>1, <1>4 DEF SameNotes, NoteTo
    <3>2. CASE q # p
      BY <3>2, <1>3, <1>4 DEF SameNotes, NoteTo
    <3> QED  BY <3>1, <3>2
  <2>3. SameQueue(q, e)
    BY <1>4 DEF SameQueue, QueuedFrom
  <2>4. SameHand(q, e)
    BY <1>4 DEF SameHand
  <2> QED  BY <2>1, <2>2, <2>3, <2>4, <1>1, AlikeStream DEF Alike
<1>7. ASSUME NEW q \in Thread PROVE Errand(q)'
  BY <1>1, <1>3, <1>4 DEF Errand
<1>8. \A q, e \in Thread : Stream(q, e)'
  BY <1>5, <1>6
<1> QED  BY <1>7, <1>8, OrderStep

\* A message that has claimed a position is alone.
LEMMA NoData ==
  ASSUME Notes, NEW p \in Thread, Errand(p), NEW m \in note[p], m.position # Unclaimed
  PROVE  data[p] = {}
BY DEF Notes, Errand

LEMMA ClaimOrder ==
  ASSUME TypeOKEx2, Notes, Order, Together, NEW p \in Thread, Claim(p)
  PROVE  Order'
<1>1. PICK m \in note[p] : Claims(p, m)
  BY ClaimCases
<1>2. /\ data[p] = {}
      /\ UNCHANGED <<items_popped, rcv, pop_cnt, pop_ptr, snd, items_pushed, data, queue, pop_pe, pc>>
  BY ClaimCases DEF Fenced, sender, receiver, history
<1>3. PICK n \in note'[p] : note'[p] = {n} /\ n.to = m.to /\ n.msg = m.msg
  BY <1>1, ClaimChanges
<1>4. \A q \in Thread : q # p => note'[q] = note[q]
  BY <1>1, ClaimChanges
<1>5. ASSUME NEW q \in Thread, NEW e \in Thread PROVE Stream(q, e)'
  <2>1. SamePackages(q, e) /\ SameHand(q, e)
    BY <1>2 DEF SamePackages, SameHand
  <2>2. SameNotes(q, e)
    <3>1. CASE q = p
      BY <3>1, <1>1, <1>2, <1>3 DEF SameNotes, NoteTo, Notes
    <3>2. CASE q # p
      BY <3>2, <1>2, <1>4 DEF SameNotes, NoteTo
    <3> QED  BY <3>1, <3>2
  <2>3. SameQueue(q, e)
    BY <1>2 DEF SameQueue, QueuedFrom
  <2>4. Stream(q, e)
    BY DEF Order, Streams
  <2> QED  BY <2>1, <2>2, <2>3, <2>4, AlikeStream DEF Alike
<1>6. ASSUME NEW q \in Thread PROVE Errand(q)'
  <2>1. CASE q = p
    BY <2>1, <1>2 DEF Errand
  <2>2. CASE q # p
    BY <2>2, <1>2, <1>4 DEF Errand, Order
  <2> QED  BY <2>1, <2>2
<1> QED  BY <1>5, <1>6, OrderStep

\* The message m of p lands.
LEMMA LandStream ==
  ASSUME TypeOKEx2, Notes, Claimed, Credit, NEW p \in Thread, NEW m \in note[p], Lands(p, m),
         Stream(p, m.to), Errand(p),
         UNCHANGED <<items_popped, rcv, pop_cnt, pop_ptr, snd, items_pushed, data, pop_pe, pc>>
  PROVE  Stream(p, m.to)'
<1> DEFINE d == m.to
           i == m.position
<1>1. /\ d \in Thread /\ i \in Position /\ m.position # Unclaimed
      /\ note'[p] = {}
      /\ queue'[d][i] = m.msg /\ m.msg.pe = p
      /\ \A j \in Position : j # i => queue'[d][j] = queue[d][j]
  BY LandChanges
<1> HIDE DEF i
<1>2. data[p] = {}
  BY <1>1, NoData
<1>3. ~QueuedFrom(p, d)
  <2>1. NoteTo(p, d)
    BY DEF NoteTo
  <2> HIDE DEF d
  <2> QED  BY <1>1, <2>1, CreditNow DEF CreditOf
<1>4. Accounts(p, d, m.msg.cnt) /\ Landed(p, d, m.msg.cnt)
  BY <1>2 DEF Stream, Coming
<1> HIDE DEF d
<1>5. Stream(p, d)
  BY DEF d
<1>6. InOrder(p, d)' /\ Unsent(p, d)' /\ AtHand(p, d)' /\ Undoable(p, d)'
  BY <1>5 DEF Stream, InOrder, Unsent, AtHand, Undoable
<1>7. Coming(p, d)'
  BY <1>1 DEF Coming
<1>8. Stored(p, d)'
  <2>1. ASSUME NEW j \in Position, queue'[d][j].pe = p
        PROVE  (Accounts(p, d, queue[d][j].cnt) /\ Landed(p, d, queue[d][j].cnt))'
    <3>1. j = i
      BY <2>1, <1>1, <1>3 DEF QueuedFrom
    <3>2. queue'[d][j].cnt = m.msg.cnt
      BY <3>1, <1>1
    <3> QED  BY <3>2, <1>4 DEF Accounts, Landed, Reached
  <2> QED  BY <2>1 DEF Stored, Position
<1>9. Nothing(p, d)'
  BY <1>1 DEF Nothing, QueuedFrom, Position
<1>10. Stream(p, d)'
  BY <1>6, <1>7, <1>8, <1>9 DEF Stream
<1> QED  BY <1>10 DEF d

LEMMA LandOrder ==
  ASSUME TypeOKEx2, Notes, Claimed, Credit, Order, Together, NEW p \in Thread, LandNote(p)
  PROVE  Order'
<1>1. PICK m \in note[p] : Lands(p, m)
  BY LandCases
<1>2. UNCHANGED <<items_popped, rcv, pop_cnt, pop_ptr, snd, items_pushed, data, pop_pe, pc, active>>
  BY LandCases DEF sender, receiver, history
<1>3. /\ m.to \in Thread /\ m.position \in Position /\ m.position # Unclaimed
      /\ m.msg.pe = p /\ \A x \in note[p] : x = m
      /\ note'[p] = {} /\ \A q \in Thread : q # p => note'[q] = note[q]
      /\ queue'[m.to][m.position] = m.msg
      /\ \A e \in Thread : \A j \in Position :
           e # m.to \/ j # m.position => queue'[e][j] = queue[e][j]
  BY <1>1, LandChanges
<1>4. \A q \in Thread : Errand(q) /\ \A e \in Thread : Stream(q, e)
  BY DEF Order, Streams
<1>5. Stream(p, m.to)'
  BY <1>1, <1>2, <1>3, <1>4, LandStream
<1>6. ASSUME NEW q \in Thread, NEW e \in Thread, q # p \/ e # m.to
      PROVE  Stream(q, e)'
  <2>1. SamePackages(q, e) /\ SameHand(q, e)
    BY <1>2 DEF SamePackages, SameHand
  <2>2. SameNotes(q, e)
    <3>1. CASE q = p
      BY <3>1, <1>3, <1>6 DEF SameNotes, NoteTo
    <3>2. CASE q # p
      BY <3>2, <1>2, <1>3 DEF SameNotes, NoteTo
    <3> QED  BY <3>1, <3>2
  <2>3. SameQueue(q, e)
    <3>1. QueuedFrom(q, e)' <=> QueuedFrom(q, e)
      BY <1>1, <1>2, <1>6, LandPairs DEF SamePair
    <3>2. ASSUME NEW j \in Position, queue'[e][j].pe = q
          PROVE  queue'[e][j] = queue[e][j]
      BY <3>2, <1>3, <1>6
    <3> QED  BY <3>1, <3>2 DEF SameQueue
  <2> QED  BY <2>1, <2>2, <2>3, <1>4, AlikeStream DEF Alike
<1>7. ASSUME NEW q \in Thread PROVE Errand(q)'
  <2>1. CASE q = p
    <3>1. data'[p] = {}
      BY <1>2, <1>3, <1>4, NoData
    <3> QED  BY <2>1, <3>1 DEF Errand
  <2>2. CASE q # p
    BY <2>2, <1>2, <1>3, <1>4 DEF Errand
  <2> QED  BY <2>1, <2>2
<1>8. \A q, e \in Thread : Stream(q, e)'
  BY <1>5, <1>6, <1>3
<1> QED  BY <1>7, <1>8, OrderStep

-----------------------------------------------------------------------------
(* Items are popped, and given back *)

\* Only the end of the link from s to r changes.
LEMMA EndOrder ==
  ASSUME TypeOKEx2, Order, Together, NEW r \in Thread, NEW s \in Thread, Stream(s, r)',
         UNCHANGED <<rcv, snd, items_pushed, data, note>>,
         \A e, q \in Thread : e # r \/ q # s =>
           /\ items_popped'[e][q] = items_popped[e][q] /\ pop_cnt'[e][q] = pop_cnt[e][q]
           /\ pop_ptr'[e][q] = pop_ptr[e][q]
           /\ SameQueue(q, e) /\ SameHand(q, e)
  PROVE  Order'
<1>1. ASSUME NEW q \in Thread, NEW e \in Thread, e # r \/ q # s PROVE Stream(q, e)'
  <2>1. SamePackages(q, e)
    BY <1>1 DEF SamePackages
  <2>2. SameNotes(q, e)
    BY DEF SameNotes, NoteTo
  <2>3. SameQueue(q, e) /\ SameHand(q, e)
    BY <1>1
  <2>4. Stream(q, e)
    BY DEF Order, Streams
  <2> QED  BY <2>1, <2>2, <2>3, <2>4, AlikeStream DEF Alike
<1>2. \A q, e \in Thread : Stream(q, e)'
  BY <1>1
<1>3. \A q \in Thread : Errand(q)'
  BY DEF Order, Errand
<1> QED  BY <1>2, <1>3, OrderStep

\* As many items are left to pop and have been taken, together, as before.
LEMMA EndStream ==
  ASSUME NEW r \in Thread, NEW s \in Thread, Stream(s, r), Reached(s, r)' = Reached(s, r),
         UNCHANGED <<rcv, snd, items_pushed, data, note, queue>>,
         InOrder(s, r)', AtHand(s, r)', Undoable(s, r)'
  PROVE  Stream(s, r)'
<1>1. Coming(s, r)'
  BY DEF Stream, Coming, Accounts, Carries, Landed
<1>2. Stored(s, r)'
  BY DEF Stream, Stored, Accounts, Landed, Position
<1>3. Nothing(s, r)' /\ Unsent(s, r)'
  BY DEF Stream, Nothing, Accounts, NoteTo, QueuedFrom, Unsent, Position
<1> QED  BY <1>1, <1>2, <1>3 DEF Stream

\* What changes when r pops an item of s.
PopsItem(r, s) ==
  /\ pop_pe[r] = s /\ pop_cnt[r][s] > 0
  /\ items_popped'[r][s] = Append(items_popped[r][s], rcv[r][s][pop_ptr[r][s] + 1])
  /\ pop_ptr'[r][s] = pop_ptr[r][s] + 1
  /\ pop_cnt'[r][s] = pop_cnt[r][s] - 1
  /\ \A e, q \in Thread : e # r \/ q # s =>
       /\ items_popped'[e][q] = items_popped[e][q] /\ pop_cnt'[e][q] = pop_cnt[e][q]
       /\ pop_ptr'[e][q] = pop_ptr[e][q]
  /\ \A e \in Thread : e # r => pc'[e] = pc[e]
  /\ UNCHANGED <<rcv, snd, items_pushed, data, note, queue, pop_pe>>

LEMMA PopItemChanges ==
  ASSUME TypeOKEx2, NEW r \in Thread, PopItem(r)
  PROVE  \E s \in Thread : PopsItem(r, s)
<1> DEFINE s == pop_pe[r]
           i == pop_ptr[r][s] + 1
           x == rcv[r][s][i]
<1>1. s \in Thread /\ pop_cnt[r][s] > 0
  BY PEntries DEF PopItem, HasItem
<1>2. /\ items_popped' = [items_popped EXCEPT ![r][s] = Append(items_popped[r][s], x)]
      /\ pop_ptr' = [pop_ptr EXCEPT ![r][s] = i]
      /\ pop_cnt' = [pop_cnt EXCEPT ![r][s] = pop_cnt[r][s] - 1]
      /\ pc' = [pc EXCEPT ![r] = "idle"]
      /\ UNCHANGED <<rcv, snd, items_pushed, data, note, queue, pop_pe>>
  BY Zenon DEF PopItem, sender, wires
<1>3. s = pop_pe[r] /\ i = pop_ptr[r][s] + 1 /\ x = rcv[r][s][i]
  OBVIOUS
<1> HIDE DEF s, i, x
<1>4. /\ items_popped'[r][s] = Append(items_popped[r][s], x)
      /\ \A e, q \in Thread : e # r \/ q # s => items_popped'[e][q] = items_popped[e][q]
  BY <1>1, <1>2 DEF TypeOKEx2
<1>5. /\ pop_ptr'[r][s] = i /\ pop_cnt'[r][s] = pop_cnt[r][s] - 1
      /\ \A e, q \in Thread : e # r \/ q # s => /\ pop_cnt'[e][q] = pop_cnt[e][q]
                                                /\ pop_ptr'[e][q] = pop_ptr[e][q]
  BY <1>1, <1>2 DEF TypeOKEx2
<1>6. \A e \in Thread : e # r => pc'[e] = pc[e]
  BY <1>2 DEF TypeOKEx2
<1>7. /\ items_popped'[r][s] = Append(items_popped[r][s], rcv[r][s][pop_ptr[r][s] + 1])
      /\ pop_ptr'[r][s] = pop_ptr[r][s] + 1
  BY <1>3, <1>4, <1>5
<1>8. pop_pe[r] = s
  BY DEF s
<1>9. PopsItem(r, s)
  <2>1. \A e, q \in Thread : e # r \/ q # s =>
          /\ items_popped'[e][q] = items_popped[e][q] /\ pop_cnt'[e][q] = pop_cnt[e][q]
          /\ pop_ptr'[e][q] = pop_ptr[e][q]
    BY Zenon, <1>4, <1>5
  <2>2. UNCHANGED <<rcv, snd, items_pushed, data, note, queue, pop_pe>>
    BY <1>2
  <2> QED  BY Zenon, <1>1, <2>1, <2>2, <1>5, <1>6, <1>7, <1>8 DEF PopsItem
<1> QED  BY <1>1, <1>9

LEMMA PopItemStream ==
  ASSUME TypeOKEx2, NEW r \in Thread, NEW s \in Thread, Stream(s, r), pop_cnt[r][s] > 0,
         items_popped'[r][s] = Append(items_popped[r][s], rcv[r][s][pop_ptr[r][s] + 1]),
         pop_ptr'[r][s] = pop_ptr[r][s] + 1,
         pop_cnt'[r][s] = pop_cnt[r][s] - 1,
         UNCHANGED <<rcv, snd, items_pushed, data, note, queue>>
  PROVE  Stream(s, r)' /\ items_popped'[r][s] = Append(items_popped[r][s], Len(items_popped[r][s]) + 1)
<1> DEFINE a == Len(items_popped[r][s])
           c == pop_cnt[r][s]
           i == pop_ptr[r][s]
<1>1. a \in Nat /\ c \in Nat /\ i \in Nat /\ items_popped[r][s] \in Seq(Nat)
  BY Entries, LenProperties
<1>2. rcv[r][s][i + 1] = a + 1
  BY <1>1 DEF Stream, AtHand
<1>3. items_popped'[r][s] = Append(items_popped[r][s], a + 1)
  BY <1>2
<1>4. /\ Len(items_popped'[r][s]) = a + 1 /\ items_popped'[r][s][a + 1] = a + 1
      /\ \A j \in 1 .. a : items_popped'[r][s][j] = items_popped[r][s][j]
  BY <1>1, <1>3
<1>5. InOrder(s, r)'
  <2>1. ASSUME NEW j \in 1 .. a + 1 PROVE items_popped'[r][s][j] = j
    <3>1. CASE j \in 1 .. a
      BY <3>1, <1>4 DEF Stream, InOrder
    <3>2. CASE j = a + 1
      BY <3>2, <1>4
    <3> QED  BY <3>1, <3>2, <1>1
  <2> QED  BY <2>1, <1>4 DEF InOrder
<1>6. AtHand(s, r)'
  <2>1. ASSUME NEW j \in 1 .. c - 1 PROVE rcv[r][s][i + 1 + j] = a + 1 + j
    <3>1. j + 1 \in 1 .. c
      BY <1>1
    <3>2. rcv[r][s][i + (j + 1)] = a + (j + 1)
      BY <3>1 DEF Stream, AtHand
    <3> HIDE DEF a, c, i
    <3>3. i + (j + 1) = i + 1 + j /\ a + (j + 1) = a + 1 + j
      BY <1>1
    <3> QED  BY <3>2, <3>3
  <2>2. pop_cnt'[r][s] = c - 1 /\ pop_ptr'[r][s] = i + 1 /\ rcv'[r][s] = rcv[r][s]
    OBVIOUS
  <2> HIDE DEF a, c, i
  <2> QED  BY <2>1, <2>2, <1>4 DEF AtHand
<1>7. Undoable(s, r)'
  <2>1. pop_ptr'[r][s] = i + 1 /\ rcv'[r][s] = rcv[r][s]
    OBVIOUS
  <2> HIDE DEF a, i
  <2> QED  BY <2>1, <1>1, <1>2, <1>4 DEF Undoable
<1>8. Reached(s, r)' = Reached(s, r)
  <2>1. pop_cnt'[r][s] = c - 1
    OBVIOUS
  <2>2. Reached(s, r) = a + c
    BY DEF Reached
  <2> HIDE DEF a, c
  <2>3. a + 1 + (c - 1) = a + c
    BY <1>1
  <2> QED  BY <2>1, <2>2, <2>3, <1>4 DEF Reached
<1>9. Stream(s, r)'
  <2> HIDE DEF a, c, i
  <2> QED  BY <1>5, <1>6, <1>7, <1>8, EndStream
<1> QED  BY <1>3, <1>9

\* Nobody but r pops.
LEMMA OtherHands ==
  ASSUME NEW r \in Thread, pop_pe[r] \in {None} \cup Thread,
         \A e \in Thread : e # r => pop_pe'[e] = pop_pe[e] /\ pc'[e] = pc[e],
         NEW s \in Thread, pop_pe'[r] \in {None, s}
  PROVE  \A e, q \in Thread : e # r \/ q # s => SameHand(q, e)
BY FreeIsNone DEF SameHand

LEMMA PopItemOrder ==
  ASSUME TypeOKEx2, Order, Together, NEW r \in Thread, PopItem(r)
  PROVE  Order'
<1>1. PICK s \in Thread : PopsItem(r, s)
  BY PopItemChanges
<1>2. /\ pop_cnt[r][s] > 0
      /\ items_popped'[r][s] = Append(items_popped[r][s], rcv[r][s][pop_ptr[r][s] + 1])
      /\ pop_ptr'[r][s] = pop_ptr[r][s] + 1
      /\ pop_cnt'[r][s] = pop_cnt[r][s] - 1
      /\ UNCHANGED <<rcv, snd, items_pushed, data, note, queue>>
  BY Zenon, <1>1 DEF PopsItem
<1>3. Stream(s, r)'
  <2>1. Stream(s, r)
    BY Zenon, <1>1 DEF Order, Streams
  <2> QED  BY Zenon, <2>1, <1>1, <1>2, PopItemStream
<1>4. \A e, q \in Thread : e # r \/ q # s => SameHand(q, e)
  <2>1. pop_pe[r] = s /\ pop_pe' = pop_pe /\ \A e \in Thread : e # r => pc'[e] = pc[e]
    BY Zenon, <1>1 DEF PopsItem
  <2>2. pop_pe[r] \in {None} \cup Thread /\ pop_pe'[r] \in {None, s}
    BY <1>1, <2>1
  <2>3. \A e \in Thread : e # r => pop_pe'[e] = pop_pe[e] /\ pc'[e] = pc[e]
    BY <2>1
  <2> QED  BY Zenon, <1>1, <2>2, <2>3, OtherHands
<1>5. \A e, q \in Thread : SameQueue(q, e)
  BY Zenon, <1>2 DEF SameQueue, QueuedFrom
<1>6. UNCHANGED <<rcv, snd, items_pushed, data, note>>
  BY <1>2
<1>7. \A e, q \in Thread : e # r \/ q # s =>
        /\ items_popped'[e][q] = items_popped[e][q] /\ pop_cnt'[e][q] = pop_cnt[e][q]
        /\ pop_ptr'[e][q] = pop_ptr[e][q]
  BY Zenon, <1>1 DEF PopsItem
<1> QED  BY <1>1, <1>3, <1>4, <1>5, <1>6, <1>7, EndOrder

\* What changes when r gives back an item of s.
GivesBack(r, s) ==
  /\ pop_pe[r] = s /\ pop_ptr[r][s] > 0
  /\ pc[r] = "idle"
  /\ items_popped'[r][s] = SubSeq(items_popped[r][s], 1, Len(items_popped[r][s]) - 1)
  /\ pop_ptr'[r][s] = pop_ptr[r][s] - 1
  /\ pop_cnt'[r][s] = pop_cnt[r][s] + 1
  /\ pop_pe'[r] = None
  /\ \A e, q \in Thread : e # r \/ q # s =>
       /\ items_popped'[e][q] = items_popped[e][q] /\ pop_cnt'[e][q] = pop_cnt[e][q]
       /\ pop_ptr'[e][q] = pop_ptr[e][q]
  /\ \A e \in Thread : e # r => pop_pe'[e] = pop_pe[e]
  /\ UNCHANGED <<rcv, snd, items_pushed, data, note, queue, pc>>

LEMMA UnpopChanges ==
  ASSUME TypeOKEx2, Popping, NEW r \in Thread, Unpop(r)
  PROVE  \E s \in Thread : GivesBack(r, s)
<1> DEFINE s == pop_pe[r]
           n == Len(items_popped[r][s]) - 1
           x == SubSeq(items_popped[r][s], 1, n)
<1>1. s \in Thread /\ pc[r] = "idle"
  BY PEntries DEF Unpop, Ready
<1>2. /\ items_popped' = [items_popped EXCEPT ![r][s] = x]
      /\ pop_ptr' = [pop_ptr EXCEPT ![r][s] = pop_ptr[r][s] - 1]
      /\ pop_cnt' = [pop_cnt EXCEPT ![r][s] = pop_cnt[r][s] + 1]
      /\ pop_pe' = [pop_pe EXCEPT ![r] = None]
      /\ UNCHANGED <<rcv, snd, items_pushed, data, note, queue, pc>>
  BY Zenon DEF Unpop, sender, wires
<1>3. s = pop_pe[r] /\ x = SubSeq(items_popped[r][s], 1, Len(items_popped[r][s]) - 1)
  OBVIOUS
<1> HIDE DEF s, n, x
<1>4. /\ items_popped'[r][s] = x
      /\ \A e, q \in Thread : e # r \/ q # s => items_popped'[e][q] = items_popped[e][q]
  BY <1>1, <1>2 DEF TypeOKEx2
<1>5. /\ pop_ptr'[r][s] = pop_ptr[r][s] - 1 /\ pop_cnt'[r][s] = pop_cnt[r][s] + 1
      /\ \A e, q \in Thread : e # r \/ q # s => /\ pop_cnt'[e][q] = pop_cnt[e][q]
                                                /\ pop_ptr'[e][q] = pop_ptr[e][q]
  BY <1>1, <1>2 DEF TypeOKEx2
<1>6. pop_pe'[r] = None /\ \A e \in Thread : e # r => pop_pe'[e] = pop_pe[e]
  BY <1>2 DEF TypeOKEx2
<1>7. pop_ptr[r][s] > 0
  BY <1>1, <1>3, FreeIsNone DEF Popping
<1>8. GivesBack(r, s)
  BY <1>1, <1>2, <1>3, <1>4, <1>5, <1>6, <1>7 DEF GivesBack
<1> QED  BY <1>1, <1>8

LEMMA UnpopStream ==
  ASSUME TypeOKEx2, NEW r \in Thread, NEW s \in Thread, Stream(s, r),
         pop_pe[r] = s, pc[r] = "idle", pop_ptr[r][s] > 0,
         items_popped'[r][s] = SubSeq(items_popped[r][s], 1, Len(items_popped[r][s]) - 1),
         pop_ptr'[r][s] = pop_ptr[r][s] - 1,
         pop_cnt'[r][s] = pop_cnt[r][s] + 1,
         pop_pe'[r] = None,
         UNCHANGED <<rcv, snd, items_pushed, data, note, queue>>
  PROVE  Stream(s, r)' /\ Len(items_popped[r][s]) > 0
<1> DEFINE a == Len(items_popped[r][s])
           c == pop_cnt[r][s]
           i == pop_ptr[r][s]
<1>1. a \in Nat /\ c \in Nat /\ i \in Nat /\ i > 0 /\ items_popped[r][s] \in Seq(Nat)
  BY Entries, LenProperties
<1>2. rcv[r][s][i] = a /\ a > 0
  BY DEF Stream, Undoable
<1>3. /\ Len(items_popped'[r][s]) = a - 1
      /\ \A j \in 1 .. a - 1 : items_popped'[r][s][j] = items_popped[r][s][j]
  BY <1>1, <1>2
<1>4. InOrder(s, r)'
  <2>1. ASSUME NEW j \in 1 .. a - 1 PROVE items_popped'[r][s][j] = j
    <3>1. j \in 1 .. a
      BY <1>1
    <3> QED  BY <3>1, <1>3 DEF Stream, InOrder
  <2> QED  BY <2>1, <1>3 DEF InOrder
<1>5. AtHand(s, r)'
  <2>1. ASSUME NEW j \in 1 .. c + 1 PROVE rcv[r][s][i - 1 + j] = a - 1 + j
    <3>1. CASE j = 1
      <4> HIDE DEF a, c, i
      <4>1. i - 1 + j = i /\ a - 1 + j = a
        BY <3>1, <1>1
      <4> QED  BY <4>1, <1>2
    <3>2. CASE j # 1
      <4>1. j - 1 \in 1 .. c
        BY <3>2, <1>1
      <4>2. rcv[r][s][i + (j - 1)] = a + (j - 1)
        BY <4>1 DEF Stream, AtHand
      <4> HIDE DEF a, c, i
      <4>3. i + (j - 1) = i - 1 + j /\ a + (j - 1) = a - 1 + j
        BY <1>1
      <4> QED  BY <4>2, <4>3
    <3> QED  BY <3>1, <3>2
  <2>2. pop_cnt'[r][s] = c + 1 /\ pop_ptr'[r][s] = i - 1 /\ rcv'[r][s] = rcv[r][s]
    OBVIOUS
  <2> HIDE DEF a, c, i
  <2> QED  BY <2>1, <2>2, <1>3 DEF AtHand
<1>6. Undoable(s, r)'
  BY FreeIsNone DEF Undoable
<1>7. Reached(s, r)' = Reached(s, r)
  <2>1. pop_cnt'[r][s] = c + 1
    OBVIOUS
  <2>2. Reached(s, r) = a + c
    BY DEF Reached
  <2> HIDE DEF a, c
  <2>3. a - 1 + (c + 1) = a + c
    BY <1>1
  <2> QED  BY <2>1, <2>2, <2>3, <1>3 DEF Reached
<1>8. Stream(s, r)'
  <2> HIDE DEF a, c, i
  <2> QED  BY <1>4, <1>5, <1>6, <1>7, EndStream
<1> QED  BY <1>2, <1>8

LEMMA UnpopOrder ==
  ASSUME TypeOKEx2, Popping, Order, Together, NEW r \in Thread, Unpop(r)
  PROVE  Order'
<1>1. PICK s \in Thread : GivesBack(r, s)
  BY UnpopChanges
<1> USE DEF GivesBack
<1>2. Stream(s, r)
  BY DEF Order, Streams
<1>3. Stream(s, r)'
  BY <1>1, <1>2, UnpopStream
<1>4. \A e, q \in Thread : e # r \/ q # s => SameHand(q, e)
  BY <1>1, OtherHands
<1>5. \A e, q \in Thread : SameQueue(q, e)
  BY <1>1 DEF SameQueue, QueuedFrom
<1> QED  BY <1>1, <1>3, <1>4, <1>5, EndOrder

-----------------------------------------------------------------------------
(* Buffers become active and are released *)

\* What changes when r makes the buffer of s active that was announced at i.
MakesActive(r, s, i) ==
  /\ Takes(r, s, i) /\ queue[r][i].pe = s /\ queue[r][i].cnt \in Nat
  /\ \A e \in Thread : \A j \in Position : e # r \/ j # i => queue'[e][j] = queue[e][j]
  /\ queue'[r][i] = Free
  /\ IF queue[r][i].cnt # 0
     THEN pop_cnt'[r][s] = queue[r][i].cnt /\ pop_ptr'[r][s] = 0
     ELSE pop_cnt'[r][s] = pop_cnt[r][s]
  /\ \A e, q \in Thread : e # r \/ q # s => /\ pop_cnt'[e][q] = pop_cnt[e][q]
                                            /\ pop_ptr'[e][q] = pop_ptr[e][q]
  /\ UNCHANGED <<items_popped, rcv, snd, items_pushed, data, note, pop_pe, pc>>

LEMMA ActivateChanges ==
  ASSUME TypeOKEx2, Ring, Popping, NEW r \in Thread, Activate(r)
  PROVE  \E s \in Thread : \E i \in Position : MakesActive(r, s, i)
<1>1. PICK s, i : Takes(r, s, i)
  BY ActivateTakes
<1>2. /\ s \in Thread /\ i \in Position /\ queue[r][i].pe = s /\ queue'[r][i] = Free
      /\ \A e \in Thread : \A j \in Position : e # r \/ j # i => queue'[e][j] = queue[e][j]
  BY <1>1, TakeChanges
<1>3. NextMessage(r) = queue[r][i]
  BY <1>1 DEF Takes
<1>4. queue[r][i].cnt \in Nat
  BY <1>2, Queue
<1>5. UNCHANGED <<items_popped, rcv, snd, items_pushed, data, note, pop_pe, pc>>
  BY <1>1 DEF Takes, sender, history
<1> DEFINE cnt == queue[r][i].cnt
<1>6. IF cnt # 0
      THEN /\ pop_cnt' = [pop_cnt EXCEPT ![r][s] = cnt]
           /\ pop_ptr' = [pop_ptr EXCEPT ![r][s] = 0]
      ELSE UNCHANGED <<pop_cnt, pop_ptr>>
  BY <1>2, <1>3, ActivateCases
<1> HIDE DEF cnt
<1>7. /\ IF cnt # 0 THEN pop_cnt'[r][s] = cnt /\ pop_ptr'[r][s] = 0
                    ELSE pop_cnt'[r][s] = pop_cnt[r][s]
      /\ \A e, q \in Thread : e # r \/ q # s => /\ pop_cnt'[e][q] = pop_cnt[e][q]
                                                /\ pop_ptr'[e][q] = pop_ptr[e][q]
  <2>1. CASE cnt # 0
    <3>1. /\ pop_cnt'[r][s] = cnt
          /\ \A e, q \in Thread : e # r \/ q # s => pop_cnt'[e][q] = pop_cnt[e][q]
      <4>1. pop_cnt' = [pop_cnt EXCEPT ![r][s] = cnt]
        BY <2>1, <1>6
      <4> QED  BY <4>1, <1>2 DEF TypeOKEx2
    <3>2. /\ pop_ptr'[r][s] = 0
          /\ \A e, q \in Thread : e # r \/ q # s => pop_ptr'[e][q] = pop_ptr[e][q]
      <4>1. pop_ptr' = [pop_ptr EXCEPT ![r][s] = 0]
        BY <2>1, <1>6
      <4> QED  BY <4>1, <1>2 DEF TypeOKEx2
    <3> QED  BY <3>1, <3>2, <2>1
  <2>2. CASE cnt = 0
    BY <2>2, <1>6
  <2> QED  BY <2>1, <2>2
<1>8. /\ IF queue[r][i].cnt # 0
         THEN pop_cnt'[r][s] = queue[r][i].cnt /\ pop_ptr'[r][s] = 0
         ELSE pop_cnt'[r][s] = pop_cnt[r][s]
      /\ \A e, q \in Thread : e # r \/ q # s => /\ pop_cnt'[e][q] = pop_cnt[e][q]
                                                /\ pop_ptr'[e][q] = pop_ptr[e][q]
  BY <1>7 DEF cnt
<1>9. MakesActive(r, s, i)
  BY <1>1, <1>2, <1>4, <1>5, <1>8 DEF MakesActive
<1> QED  BY <1>2, <1>9

LEMMA ActivateStream ==
  ASSUME TypeOKEx2, Queued, Credit, Popping, NEW r \in Thread, NEW s \in Thread, NEW i \in Position,
         Stream(s, r), Takes(r, s, i), queue[r][i].pe = s, queue[r][i].cnt \in Nat,
         IF queue[r][i].cnt # 0
         THEN pop_cnt'[r][s] = queue[r][i].cnt /\ pop_ptr'[r][s] = 0
         ELSE pop_cnt'[r][s] = pop_cnt[r][s],
         UNCHANGED <<items_popped, rcv, snd, items_pushed, data, note, pop_pe, pc>>
  PROVE  Stream(s, r)'
<1> DEFINE a == Len(items_popped[r][s])
           L == Len(snd[s][r])
           K == items_pushed[s][r]
<1>1. a \in Nat /\ L \in Nat /\ K \in Nat
  BY Entries, LenProperties
<1>2. PICK cnt \in Nat : cnt = queue[r][i].cnt
  OBVIOUS
<1>3. QueuedFrom(s, r) /\ ~QueuedFrom(s, r)'
  BY ActivatePairs
<1>4. ~NoteTo(s, r) /\ ~ActiveFrom(s, r)
  BY <1>3, CreditNow DEF CreditOf
<1>5. pop_cnt[r][s] = 0
  BY <1>4, Entries DEF Popping
<1>6. Reached(s, r) = a
  BY <1>1, <1>5 DEF Reached
<1>7. /\ a + cnt + L = K
      /\ \A j \in 1 .. cnt : rcv[r][s][j] = a + j
  <2>1. Accounts(s, r, cnt) /\ Landed(s, r, cnt)
    BY <1>2 DEF Stream, Stored
  <2> QED  BY <2>1, <1>6 DEF Accounts, Landed
<1>8. pop_cnt'[r][s] = cnt /\ (cnt # 0 => pop_ptr'[r][s] = 0)
  BY <1>2, <1>5
<1>9. InOrder(s, r)' /\ Unsent(s, r)'
  BY DEF Stream, InOrder, Unsent
<1>10. AtHand(s, r)'
  <2>1. ASSUME NEW j \in 1 .. cnt
        PROVE  rcv'[r][s][pop_ptr'[r][s] + j] = Len(items_popped'[r][s]) + j
    <3>1. pop_ptr'[r][s] = 0 /\ 0 + j = j
      BY <1>8
    <3> QED  BY <3>1, <1>7
  <2> QED  BY <2>1, <1>8 DEF AtHand
<1>11. Undoable(s, r)'
  BY DEF Undoable, Takes
<1>12. Coming(s, r)'
  BY <1>4 DEF Coming, NoteTo
<1>13. Stored(s, r)'
  BY <1>3 DEF Stored, QueuedFrom
<1>14. Nothing(s, r)'
  <2>1. Reached(s, r)' = a + cnt
    BY <1>8 DEF Reached
  <2>2. Len(snd'[s][r]) = L /\ items_pushed'[s][r] = K
    OBVIOUS
  <2> HIDE DEF a, L, K
  <2>3. a + cnt + 0 + L = K
    BY <1>1, <1>7
  <2> QED  BY <2>1, <2>2, <2>3 DEF Nothing, Accounts
<1> QED  BY <1>9, <1>10, <1>11, <1>12, <1>13, <1>14 DEF Stream

LEMMA ActivateOrder ==
  ASSUME TypeOKEx2, Ring, Queued, Credit, Popping, Order, Together, NEW r \in Thread, Activate(r)
  PROVE  Order'
<1>1. PICK s \in Thread, i \in Position : MakesActive(r, s, i)
  BY ActivateChanges
<1> USE DEF MakesActive
<1>2. Stream(s, r)
  BY DEF Order, Streams
<1>3. Stream(s, r)'
  BY <1>1, <1>2, ActivateStream
<1>4. \A e, q \in Thread : SameHand(q, e)
  BY <1>1 DEF SameHand
<1>5. ASSUME NEW q \in Thread, NEW e \in Thread, e # r \/ q # s PROVE SameQueue(q, e)
  <2>1. QueuedFrom(q, e)' <=> QueuedFrom(q, e)
    BY <1>1, <1>5, ActivatePairs DEF SamePair
  <2>2. ASSUME NEW j \in Position, queue'[e][j].pe = q
        PROVE  queue'[e][j] = queue[e][j]
    BY <2>2, <1>1, FreeIsNone
  <2> QED  BY <2>1, <2>2 DEF SameQueue
<1> QED  BY <1>1, <1>3, <1>4, <1>5, EndOrder

LEMMA PopEmptyOrder ==
  ASSUME TypeOKEx2, Popping, Order, Together, NEW r \in Thread, PopEmpty(r)
  PROVE  Order'
<1>1. PICK s : Releases(r, s)
  BY PopEmptyReleases
<1>2. /\ pop_pe' = [pop_pe EXCEPT ![r] = None]
      /\ pc' = [pc EXCEPT ![r] = "count"]
      /\ UNCHANGED <<snd, rcv, pop_cnt, pop_ptr, queue, data, note, items_popped, items_pushed>>
  BY <1>1 DEF Releases, wires, history
<1>3. /\ pc'[r] = "count"
      /\ \A e \in Thread : e # r => pop_pe'[e] = pop_pe[e] /\ pc'[e] = pc[e]
  BY <1>2 DEF TypeOKEx2
<1>4. \A q, e \in Thread : SameHand(q, e)
  BY <1>3 DEF SameHand
<1> QED  BY <1>2, <1>4, SameOrder

LEMMA CountOrder ==
  ASSUME TypeOKEx2, Order, Together, NEW r \in Thread, CountMessages(r)
  PROVE  Order'
<1>1. /\ pc' = [pc EXCEPT ![r] = "activate"]
      /\ UNCHANGED <<snd, rcv, pop_cnt, pop_ptr, queue, data, note, items_popped, items_pushed, pop_pe>>
  BY DEF CountMessages, sender, wires, history
<1>2. pc'[r] = "activate" /\ \A e \in Thread : e # r => pc'[e] = pc[e]
  BY <1>1 DEF TypeOKEx2
<1>3. \A q, e \in Thread : SameHand(q, e)
  BY <1>1, <1>2 DEF SameHand
<1> QED  BY <1>1, <1>3, SameOrder

LEMMA PickOrder ==
  ASSUME TypeOKEx2, Popping, Order, Together, NEW r \in Thread, Pick(r)
  PROVE  Order'
<1>1. /\ pc[r] = "activate"
      /\ UNCHANGED <<snd, rcv, pop_cnt, pop_ptr, queue, data, note, items_popped, items_pushed>>
  BY DEF Pick, sender, wires, history
<1>2. pop_pe[r] = None
  BY <1>1 DEF Popping
<1>3. \A q, e \in Thread : SameHand(q, e)
  <2>1. CASE pc' = [pc EXCEPT ![r] = "idle"] /\ pop_pe' = pop_pe
    <3>1. \A e \in Thread : e # r => pc'[e] = pc[e]
      BY <2>1 DEF TypeOKEx2
    <3> QED  BY <3>1, <2>1, <1>2, FreeIsNone DEF SameHand
  <2>2. CASE \E i : /\ pc' = [pc EXCEPT ![r] = "again"]
                    /\ pop_pe' = [pop_pe EXCEPT ![r] = active[r][i]]
    <3>1. pc'[r] = "again" /\ \A e \in Thread : e # r => pc'[e] = pc[e] /\ pop_pe'[e] = pop_pe[e]
      BY <2>2 DEF TypeOKEx2
    <3> QED  BY <3>1 DEF SameHand
  <2> QED  BY <2>1, <2>2 DEF Pick
<1> QED  BY <1>1, <1>3, SameOrder

LEMMA EndgameOrder ==
  ASSUME TypeOKEx2, Credit, Order, Together, NEW p \in Thread, Endgame(p)
  PROVE  Order'
<1>1. CASE StartFlush(p)
  <2>1. /\ pc[p] = "idle" /\ pc' = [pc EXCEPT ![p] = "flush"]
        /\ UNCHANGED <<snd, rcv, pop_cnt, pop_ptr, queue, data, note, items_popped, items_pushed, pop_pe>>
    BY <1>1 DEF StartFlush, Ready, sender, receiver, wires, history
  <2>2. \A e \in Thread : e # p => pc'[e] = pc[e]
    BY <2>1 DEF TypeOKEx2
  <2>3. \A q, e \in Thread : SameHand(q, e)
    BY <2>1, <2>2 DEF SameHand
  <2> QED  BY <2>1, <2>3, SameOrder
<1>2. CASE Proceed(p)
  BY <1>2, SameOrder DEF Proceed, SameHand, sender, receiver, wires, history
<1> QED  BY <1>1, <1>2, FlushOrder DEF Endgame

LEMMA PopOrder ==
  ASSUME TypeOKEx2, Ring, Queued, Credit, Popping, Order, Together, NEW r \in Thread, Pop(r)
  PROVE  Order'
BY PopItemOrder, PopEmptyOrder, CountOrder, ActivateOrder, PickOrder DEF Pop

-----------------------------------------------------------------------------
(* Send buffers that have been flushed, and rounds *)

\* In a round, only what has been flushed must be empty.
LEMMA TurnStep ==
  ASSUME Turn, Together, Together', UNCHANGED ex_round,
         \A p, d \in Thread : d \notin unflushed'[p] => snd'[p][d] = <<>>
  PROVE  Turn'
<1>1. Rounds'
  BY DEF Turn, Rounds, Together
<1>2. \A p \in Thread : Emptied(p)'
  BY DEF Emptied, Together
<1> QED  BY <1>1, <1>2 DEF Turn

\* Nothing is pushed and nothing flushed.
LEMMA SameTurn ==
  ASSUME Turn, Together, UNCHANGED <<ex_round, stage, unflushed, snd>>
  PROVE  Turn'
<1>1. Together'
  BY StillTogether
<1>2. \A p, d \in Thread : d \notin unflushed'[p] => snd'[p][d] = <<>>
  BY DEF Turn, Emptied
<1> QED  BY <1>1, <1>2, TurnStep

LEMMA PushTurn ==
  ASSUME TypeOKEx2, Flushing, Turn, Together, NEW p \in Thread, NEW d \in Thread, PushEx2(p, d)
  PROVE  Turn'
<1>1. /\ Appends(p, d) \/ SendsFull(p, d)
      /\ ~done[p] /\ UNCHANGED <<stage, ex_round, unflushed>>
  BY PushCases DEF flush, cycle
<1>2. unflushed'[p] = Thread
  BY <1>1 DEF Flushing
<1>3. \A q \in Thread : q # p => snd'[q] = snd[q]
  <2>1. \E v : snd' = [snd EXCEPT ![p][d] = v]
    BY <1>1, Zenon DEF Appends, SendsFull, Send
  <2> QED  BY <2>1 DEF TypeOKEx2
<1>4. \A q, e \in Thread : e \notin unflushed'[q] => snd'[q][e] = <<>>
  BY <1>1, <1>2, <1>3 DEF Turn, Emptied
<1>5. Together'
  BY <1>1, StillTogether
<1> QED  BY <1>1, <1>4, <1>5, TurnStep

LEMMA FlushTurn ==
  ASSUME TypeOKEx2, Turn, Together, NEW p \in Thread, FlushOne(p)
  PROVE  Turn'
<1>1. UNCHANGED <<stage, ex_round>>
  BY FlushCases DEF cycle
<1>2. PICK d \in todo[p] : FlushSends(p, d) \/ FlushSkips(p, d)
  BY FlushCases
<1>3. d \in Thread
  BY DEF TypeOKEx2
<1>4. \A q, e \in Thread : e \notin unflushed[q] => snd[q][e] = <<>>
  BY DEF Turn, Emptied
<1>5. ASSUME NEW q \in Thread, NEW e \in Thread, e \notin unflushed'[q]
      PROVE  snd'[q][e] = <<>>
  <2>1. CASE FlushSends(p, d)
    <3>1. /\ snd' = [snd EXCEPT ![p][d] = <<>>]
          /\ unflushed' = [unflushed EXCEPT ![p] = unflushed[p] \ {d}]
      BY <2>1 DEF FlushSends, Send
    <3>2. snd'[p][d] = <<>> /\ (q # p \/ e # d => snd'[q][e] = snd[q][e])
      BY <3>1, <1>3 DEF TypeOKEx2
    <3>3. q # p \/ e # d => e \notin unflushed[q]
      BY <3>1, <1>5 DEF TypeOKEx2
    <3> QED  BY <3>2, <3>3, <1>4
  <2>2. CASE FlushSkips(p, d)
    BY <2>2, <1>4, <1>5 DEF FlushSkips, sender
  <2> QED  BY <2>1, <2>2, <1>2
<1>6. Together'
  BY <1>1, StillTogether
<1> QED  BY <1>1, <1>5, <1>6, TurnStep

-----------------------------------------------------------------------------
(* A new round *)

\* A link on which nothing has been pushed.
New(p, d) ==
  /\ items_popped[d][p] = <<>> /\ snd[p][d] = <<>> /\ items_pushed[p][d] = 0
  /\ pop_cnt[d][p] = 0 /\ pop_pe[d] = None
  /\ note[p] = {} /\ data[p] = {} /\ queue[d] = [i \in Position |-> Free]

LEMMA NewOrder == (\A p, d \in Thread : New(p, d)) => Order
<1> SUFFICES ASSUME \A p, d \in Thread : New(p, d) PROVE Order
  OBVIOUS
<1>1. ASSUME NEW p \in Thread, NEW d \in Thread PROVE Stream(p, d)
  <2>1. New(p, d)
    OBVIOUS
  <2>2. Reached(p, d) = 0 /\ Len(items_popped[d][p]) = 0 /\ Len(snd[p][d]) = 0
    BY <2>1 DEF New, Reached
  <2>3. InOrder(p, d) /\ AtHand(p, d) /\ Unsent(p, d)
    BY <2>1, <2>2 DEF New, InOrder, AtHand, Unsent
  <2>4. Undoable(p, d)
    BY <2>1, FreeIsNone DEF New, Undoable
  <2>5. Coming(p, d)
    BY <2>1 DEF New, Coming
  <2>6. Stored(p, d)
    BY <2>1, FreeIsNone DEF New, Stored
  <2>7. Nothing(p, d)
    BY <2>1, <2>2 DEF New, Nothing, Accounts
  <2> QED  BY <2>3, <2>4, <2>5, <2>6, <2>7 DEF Stream
<1>2. ASSUME NEW p \in Thread PROVE Errand(p)
  BY DEF New, Errand
<1> QED  BY <1>1, <1>2 DEF Order, Streams

\* Nobody is in a round when one PE is between the barriers.
LEMMA BetweenOrder ==
  ASSUME NEW p \in Thread, stage'[p] \notin {"working", "arrived"},
         \A q \in Thread : data'[q] = {}
  PROVE  Order'
<1>1. ~Together'
  BY DEF Together
<1>2. \A q \in Thread : Errand(q)'
  BY DEF Errand
<1> QED  BY <1>1, <1>2 DEF Order, Streams

LEMMA EnterResetLinks ==
  ASSUME IInv, Order, Turn, NEW p \in Thread, EnterReset(p)
  PROVE  Order' /\ Turn'
<1>1. TypeOKEx2 /\ Leaving /\ Stages
  BY DEF IInv
<1>2. /\ stage[p] = "working"
      /\ stage' = [stage EXCEPT ![p] = "arrived"]
      /\ UNCHANGED <<sender, receiver, wires, flush, ex_round, history, pc>>
  BY DEF EnterReset, Ready
<1>3. Together
  BY <1>1, <1>2, Awake
<1>4. Together'
  BY <1>1, <1>2, <1>3 DEF TypeOKEx2, Together
<1>5. \A q, e \in Thread : SameHand(q, e)
  BY <1>2 DEF SameHand, receiver
<1>6. Order'
  BY <1>2, <1>3, <1>5, SameOrder DEF sender, receiver, wires, history
<1>7. \A q, e \in Thread : e \notin unflushed'[q] => snd'[q][e] = <<>>
  BY <1>2 DEF Turn, Emptied, sender, flush
<1> QED  BY <1>2, <1>3, <1>4, <1>6, <1>7, TurnStep

LEMMA FirstBarrierLinks ==
  ASSUME IInv, Order, Turn, FirstBarrier
  PROVE  Order' /\ Turn'
<1>1. TypeOKEx2 /\ Leaving
  BY DEF IInv
<1>2. /\ \A p \in Thread : stage[p] = "arrived"
      /\ stage' = [p \in Thread |-> "clearing"]
      /\ UNCHANGED <<sender, wires, flush, ex_round>>
  BY DEF FirstBarrier
<1>3. \A p \in Thread : data[p] = {} /\ unflushed[p] = {}
  BY <1>1, <1>2 DEF Leaving, Settled
<1>4. 0 \in Thread
  BY NAssumption DEF Thread
<1>5. Order'
  BY <1>2, <1>3, <1>4, BetweenOrder DEF wires
<1>6. Rounds'
  BY <1>2 DEF Turn, Rounds
<1>7. \A p, d \in Thread : snd'[p][d] = <<>>
  BY <1>2, <1>3 DEF Turn, Emptied, sender
<1>8. \A p \in Thread : Emptied(p)'
  BY <1>2, <1>7 DEF Emptied
<1> QED  BY <1>5, <1>6, <1>8 DEF Turn

LEMMA ClearLinks ==
  ASSUME IInv, Order, Turn, NEW p \in Thread, Clear(p)
  PROVE  Order' /\ Turn'
<1>1. TypeOKEx2 /\ Leaving /\ Stages
  BY DEF IInv
<1>2. /\ stage[p] = "clearing"
      /\ stage' = [stage EXCEPT ![p] = "cleared"]
      /\ ex_round' = [ex_round EXCEPT ![p] = @ + 1]
      /\ items_pushed' = [items_pushed EXCEPT ![p] = [d \in Thread |-> 0]]
      /\ items_popped' = [items_popped EXCEPT ![p] = [s \in Thread |-> <<>>]]
      /\ unflushed' = [unflushed EXCEPT ![p] = Thread]
      /\ UNCHANGED <<snd, data>>
  BY DEF Clear, sender
<1>3. /\ stage'[p] = "cleared" /\ \A q \in Thread : q # p => stage'[q] = stage[q]
      /\ ex_round'[p] = ex_round[p] + 1 /\ \A q \in Thread : q # p => ex_round'[q] = ex_round[q]
      /\ unflushed'[p] = Thread /\ \A q \in Thread : q # p => unflushed'[q] = unflushed[q]
  BY <1>1, <1>2 DEF TypeOKEx2
<1>4. /\ \A d \in Thread : items_pushed'[p][d] = 0 /\ items_popped'[p][d] = <<>>
      /\ \A q \in Thread : q # p => items_pushed'[q] = items_pushed[q] /\ items_popped'[q] = items_popped[q]
  BY <1>1, <1>2 DEF TypeOKEx2
<1>5. \A q \in Thread : data'[q] = {}
  BY <1>1, <1>2 DEF Stages, Leaving, Settled
<1>6. Order'
  BY <1>3, <1>5, BetweenOrder
<1>7. \A q \in Thread : Emptied(q)'
  <2> TAKE q \in Thread
  <2>1. Emptied(q) /\ Emptied(p)
    BY DEF Turn
  <2>2. CASE q = p
    BY <2>1, <2>2, <1>2, <1>3, <1>4 DEF Emptied
  <2>3. CASE q # p
    BY <2>1, <2>3, <1>2, <1>3, <1>4 DEF Emptied
  <2> QED  BY <2>2, <2>3
<1>8. Rounds'
  <2>1. \A q \in Thread : ex_round[q] \in Nat
    BY <1>1, PEntries
  <2>2. ASSUME NEW q \in Thread
        PROVE  ex_round[q] = IF stage[q] = "cleared" THEN ex_round[p] + 1 ELSE ex_round[p]
    BY <1>2 DEF Turn, Rounds
  <2>3. ASSUME NEW q \in Thread
        PROVE  ex_round'[q] = IF stage'[q] = "cleared" THEN ex_round[p] + 1 ELSE ex_round[p]
    <3>1. CASE q = p
      BY <3>1, <1>3
    <3>2. CASE q # p
      BY <3>2, <2>2, <1>3
    <3> QED  BY <3>1, <3>2
  <2>4. \A n \in Nat : n + 1 - 1 = n
    OBVIOUS
  <2> QED  BY <2>1, <2>3, <2>4 DEF Rounds
<1> QED  BY <1>6, <1>7, <1>8 DEF Turn

LEMMA SecondBarrierLinks ==
  ASSUME IInv, Order, Turn, SecondBarrier
  PROVE  Order' /\ Turn'
<1>1. TypeOKEx2 /\ Leaving /\ Stages
  BY DEF IInv
<1>2. /\ \A p \in Thread : stage[p] = "cleared"
      /\ stage' = [p \in Thread |-> "working"]
      /\ UNCHANGED <<sender, receiver, wires, flush, ex_round, history>>
  BY DEF SecondBarrier
<1>3. 0 \in Thread
  BY NAssumption DEF Thread
<1>4. \A p \in Thread : Quiet(p)
  BY <1>1, <1>2, <1>3 DEF Stages
<1>5. \A p \in Thread : note[p] = {} /\ data[p] = {}
  BY <1>1, <1>2 DEF Leaving, Settled
<1>6. \A p, d \in Thread : snd[p][d] = <<>> /\ items_pushed[p][d] = 0 /\ items_popped[p][d] = <<>>
  BY <1>2 DEF Turn, Emptied
<1>7. ASSUME NEW p \in Thread, NEW d \in Thread PROVE New(p, d)'
  <2>1. pop_pe[d] = None /\ pop_cnt[d][p] = 0 /\ queue[d] = [i \in Position |-> Free]
    BY <1>4 DEF Quiet
  <2> QED  BY <2>1, <1>2, <1>5, <1>6 DEF New, Position, sender, receiver, wires, history
<1>8. Order'
  <2>1. ((\A p, d \in Thread : New(p, d)) => Order)'
    BY NewOrder, PTL
  <2> QED  BY <2>1, <1>7
<1>9. Rounds'
  BY <1>2 DEF Turn, Rounds
<1>10. \A p \in Thread : Emptied(p)'
  BY <1>2, <1>6 DEF Emptied, sender
<1> QED  BY <1>8, <1>9, <1>10 DEF Turn

-----------------------------------------------------------------------------
(* One step *)

\* Everybody works at the same round, and a PE that acts is awake.
LEMMA Acting ==
  ASSUME IInv, NEW p \in Thread,
         stage[p] = "working" \/ pc[p] # "idle" \/ ~Settled(p)
  PROVE  Together
BY Awake DEF IInv

LEMMA PopTogether ==
  ASSUME IInv, NEW r \in Thread, Pop(r)
  PROVE  Together
<1>1. stage[r] = "working" \/ pc[r] # "idle"
  BY DEF Pop, PopItem, PopEmpty, CountMessages, Activate, Pick, AtHead
<1> QED  BY <1>1, Acting

LEMMA LandTogether ==
  ASSUME IInv, NEW p \in Thread, Land(p)
  PROVE  Together
<1>1. ~Settled(p)
  BY DEF Land, LandData, Claim, LandNote, Settled
<1> QED  BY <1>1, Acting

LEMMA EndgameTogether ==
  ASSUME IInv, NEW p \in Thread, Endgame(p)
  PROVE  Together
<1>1. stage[p] = "working" \/ pc[p] # "idle"
  BY DEF Endgame, StartFlush, FlushOne, Proceed, Ready
<1> QED  BY <1>1, Acting

LEMMA PopLinks ==
  ASSUME IInv, Order, Turn, NEW r \in Thread, Pop(r)
  PROVE  Order' /\ Turn'
<1>1. TypeOKEx2 /\ Ring /\ Queued /\ Credit /\ Popping /\ Together
  BY PopTogether DEF IInv
<1>2. UNCHANGED <<ex_round, stage, unflushed, snd>>
  <2>1. CASE PopItem(r)
    BY <2>1 DEF PopItem, sender, flush, cycle
  <2>2. CASE PopEmpty(r)
    BY <2>2 DEF PopEmpty, flush, cycle
  <2>3. CASE CountMessages(r)
    BY <2>3 DEF CountMessages, sender, flush, cycle
  <2>4. CASE Activate(r)
    BY <2>4 DEF Activate, sender, flush, cycle
  <2>5. CASE Pick(r)
    BY <2>5 DEF Pick, sender, flush, cycle
  <2> QED  BY <2>1, <2>2, <2>3, <2>4, <2>5 DEF Pop
<1> QED  BY <1>1, <1>2, PopOrder, SameTurn

LEMMA LandLinks ==
  ASSUME IInv, Order, Turn, NEW p \in Thread, Land(p)
  PROVE  Order' /\ Turn'
<1>1. TypeOKEx2 /\ Bounds /\ Notes /\ Claimed /\ Credit /\ Popping /\ Together
  BY LandTogether DEF IInv
<1>2. UNCHANGED <<ex_round, stage, unflushed, snd>>
  BY DEF Land, LandData, Claim, LandNote, sender, flush, cycle
<1> QED  BY <1>1, <1>2, DataOrder, ClaimOrder, LandOrder, SameTurn DEF Land

LEMMA EndgameLinks ==
  ASSUME IInv, Order, Turn, NEW p \in Thread, Endgame(p)
  PROVE  Order' /\ Turn'
<1>1. TypeOKEx2 /\ Credit /\ Together
  BY EndgameTogether DEF IInv
<1>2. Order'
  BY <1>1, EndgameOrder
<1>3. CASE StartFlush(p) \/ Proceed(p)
  <2>1. UNCHANGED <<ex_round, stage, unflushed, snd>>
    BY <1>3 DEF StartFlush, Proceed, sender, flush, cycle
  <2> QED  BY <2>1, <1>1, <1>2, SameTurn
<1>4. CASE FlushOne(p)
  BY <1>1, <1>2, <1>4, FlushTurn
<1> QED  BY <1>3, <1>4 DEF Endgame

LEMMA ClientLinks ==
  ASSUME IInv, Order, Turn, NEW p \in Thread,
         Finish(p) \/ Unpop(p) \/ \E d \in Thread : PushEx2(p, d)
  PROVE  Order' /\ Turn'
<1>1. TypeOKEx2 /\ Credit /\ Popping /\ Flushing
  BY DEF IInv
<1>2. stage[p] = "working"
  BY DEF Finish, Unpop, PushEx2, Ready
<1>3. Together
  BY <1>2, Acting
<1>4. CASE Finish(p)
  <2>1. UNCHANGED <<items_popped, rcv, pop_cnt, pop_ptr, snd, items_pushed, data, note, queue,
                    pop_pe, pc, ex_round, stage, unflushed>>
    BY <1>4 DEF Finish, sender, receiver, wires, flush, history
  <2>2. \A q, e \in Thread : SameHand(q, e)
    BY <2>1 DEF SameHand
  <2> QED  BY <2>1, <2>2, <1>3, SameOrder, SameTurn
<1>5. CASE Unpop(p)
  <2>1. UNCHANGED <<ex_round, stage, unflushed, snd>>
    BY <1>5 DEF Unpop, sender, flush, cycle
  <2> QED  BY <2>1, <1>1, <1>3, <1>5, UnpopOrder, SameTurn
<1>6. ASSUME NEW d \in Thread, PushEx2(p, d) PROVE Order' /\ Turn'
  BY <1>1, <1>3, <1>6, PushOrder, PushTurn
<1> QED  BY <1>4, <1>5, <1>6

LEMMA LInvInit == InitEx2 => LInv
<1> SUFFICES ASSUME InitEx2 PROVE LInv
  OBVIOUS
<1>1. \A p, d \in Thread : New(p, d)
  BY DEF InitEx2, New
<1>2. Order
  BY <1>1, NewOrder
<1>3. Turn
  BY DEF InitEx2, Turn, Rounds, Emptied
<1> QED  BY <1>2, <1>3, IInvInit DEF LInv

LEMMA LInvStutter ==
  ASSUME LInv, UNCHANGED ex2vars
  PROVE  Order' /\ Turn'
<1>1. UNCHANGED <<items_popped, rcv, pop_cnt, pop_ptr, snd, items_pushed, data, note, queue,
                  pop_pe, pc, ex_round, stage, unflushed>>
  BY DEF ex2vars, sender, receiver, wires, flush, cycle, history
<1>2. Turn'
  BY <1>1 DEF LInv, Turn, Rounds, Emptied
<1>3. CASE Together
  <2>1. \A q, e \in Thread : SameHand(q, e)
    BY <1>1 DEF SameHand
  <2> QED  BY <2>1, <1>1, <1>2, <1>3, SameOrder DEF LInv
<1>4. CASE ~Together
  <2>1. Order'
    BY <1>1, <1>4 DEF LInv, Order, Streams, Together, Errand
  <2> QED  BY <2>1, <1>2
<1> QED  BY <1>3, <1>4

LEMMA LInvNext == LInv /\ [NextEx2]_ex2vars => LInv'
<1> SUFFICES ASSUME LInv, [NextEx2]_ex2vars PROVE LInv'
  OBVIOUS
<1>1. IInv /\ Order /\ Turn /\ IInv'
  BY IInvNext DEF LInv
<1>2. ASSUME NEW p \in Thread, Finish(p) \/ Unpop(p) \/ \E d \in Thread : PushEx2(p, d)
      PROVE  LInv'
  BY <1>1, <1>2, ClientLinks DEF LInv
<1>3. ASSUME NEW p \in Thread, Endgame(p) \/ Pop(p) \/ Land(p) PROVE LInv'
  BY <1>1, <1>3, EndgameLinks, PopLinks, LandLinks DEF LInv
<1>4. ASSUME NEW p \in Thread, ResetEx2(p) PROVE LInv'
  BY <1>1, <1>4, EnterResetLinks, ClearLinks DEF LInv, ResetEx2
<1>5. ASSUME FirstBarrier \/ SecondBarrier PROVE LInv'
  BY <1>1, <1>5, FirstBarrierLinks, SecondBarrierLinks DEF LInv
<1>6. ASSUME FinishedEx2 \/ UNCHANGED ex2vars PROVE LInv'
  BY <1>1, <1>6, LInvStutter DEF LInv, FinishedEx2
<1> QED  BY <1>2, <1>3, <1>4, <1>5, <1>6 DEF NextEx2

-----------------------------------------------------------------------------
(* The links *)

\* No more has been taken, or is at hand, than has been pushed.
LEMMA ReachedBound ==
  ASSUME TypeOKEx2, NEW p \in Thread, NEW d \in Thread, Stream(p, d)
  PROVE  Reached(p, d) <= items_pushed[p][d]
<1>1. PICK cnt \in Nat : Accounts(p, d, cnt)
  <2>1. CASE NoteTo(p, d)
    <3>1. PICK m \in note[p] : m.to = d
      BY <2>1 DEF NoteTo
    <3> QED  BY <3>1, Notation DEF Stream, Coming
  <2>2. CASE QueuedFrom(p, d)
    <3>1. PICK i \in Position : queue[d][i].pe = p
      BY <2>2 DEF QueuedFrom
    <3> QED  BY <3>1, Queue DEF Stream, Stored
  <2>3. CASE ~NoteTo(p, d) /\ ~QueuedFrom(p, d)
    BY <2>3 DEF Stream, Nothing
  <2> QED  BY <2>1, <2>2, <2>3
<1> DEFINE L == Len(snd[p][d])
<1>2. L \in Nat /\ items_pushed[p][d] \in Nat /\ Reached(p, d) \in Nat
  BY Entries, LenProperties DEF Reached
<1>3. Reached(p, d) + cnt + L = items_pushed[p][d]
  BY <1>1 DEF Accounts
<1> HIDE DEF L
<1> QED  BY <1>2, <1>3

LEMMA LinksTogether ==
  ASSUME LInv, Together
  PROVE  LinksEx2!Together
BY DEF LInv, Turn, Rounds, Together, LinksEx2!Together

\* An item that is popped is the next on its link.
LEMMA PopItemReceives ==
  ASSUME LInv, NEW r \in Thread, PopItem(r)
  PROVE  LinksEx2!Next
<1>1. IInv /\ TypeOKEx2 /\ Order
  BY DEF LInv, IInv
<1>2. stage[r] = "working"
  BY DEF PopItem, AtHead
<1>3. Together /\ LinksEx2!Together
  BY <1>1, <1>2, Acting, LinksTogether
<1>4. PICK s \in Thread : PopsItem(r, s)
  BY <1>1, PopItemChanges
<1> USE DEF PopsItem
<1>5. Stream(s, r)
  BY <1>1, <1>3 DEF Order, Streams
<1>6. items_popped'[r][s] = Append(items_popped[r][s], Len(items_popped[r][s]) + 1)
  BY <1>1, <1>4, <1>5, PopItemStream
<1>7. Len(items_popped[r][s]) < items_pushed[s][r]
  <2>1. Reached(s, r) <= items_pushed[s][r]
    BY <1>1, <1>5, ReachedBound
  <2> DEFINE a == Len(items_popped[r][s])
  <2>2. a \in Nat /\ pop_cnt[r][s] \in Nat /\ items_pushed[s][r] \in Nat
    BY <1>1, Entries, LenProperties
  <2>3. a + pop_cnt[r][s] <= items_pushed[s][r]
    BY <2>1 DEF Reached
  <2> HIDE DEF a
  <2>4. a < items_pushed[s][r]
    BY <2>2, <2>3, <1>4
  <2> QED  BY <2>4 DEF a
<1>8. \E x : items_popped' = [items_popped EXCEPT ![r][s] = x]
  <2>1. items_popped' = [items_popped EXCEPT ![r][pop_pe[r]] = Append(@, rcv[r][pop_pe[r]][pop_ptr[r][pop_pe[r]] + 1])]
    BY Zenon DEF PopItem
  <2> QED  BY <2>1, <1>4
<1>9. items_popped' = [items_popped EXCEPT ![r][s] = Append(@, Len(@) + 1)]
  <2>1. PICK x : items_popped' = [items_popped EXCEPT ![r][s] = x]
    BY <1>8
  <2>2. x = Append(items_popped[r][s], Len(items_popped[r][s]) + 1)
    BY <2>1, <1>1, <1>6 DEF TypeOKEx2
  <2> QED  BY <2>1, <2>2
<1>10. UNCHANGED <<items_pushed, done, all_done, ex_round>>
  BY <1>4 DEF PopItem, cycle
<1>11. LinksEx2!Receive(r, s)
  BY <1>7, <1>9, <1>10 DEF LinksEx2!Receive
<1> QED  BY <1>3, <1>11 DEF LinksEx2!Next

\* A pop that is undone gives back the item taken last.
LEMMA UnpopGivesBack ==
  ASSUME LInv, NEW r \in Thread, Unpop(r)
  PROVE  LinksEx2!Next
<1>1. IInv /\ TypeOKEx2 /\ Order /\ Leaving /\ Counts /\ Ring /\ Popping
  BY DEF LInv, IInv
<1>2. stage[r] = "working"
  BY DEF Unpop, Ready
<1>3. Together /\ LinksEx2!Together
  BY <1>1, <1>2, Acting, LinksTogether
<1>4. PICK s \in Thread : GivesBack(r, s)
  BY <1>1, UnpopChanges
<1> USE DEF GivesBack
<1>5. Stream(s, r)
  BY <1>1, <1>3 DEF Order, Streams
<1>6. items_popped[r][s] # <<>>
  BY <1>1, <1>4, <1>5, UnpopStream
<1>7. items_popped' = [items_popped EXCEPT ![r][s] = SubSeq(@, 1, Len(@) - 1)]
  <2>1. items_popped' = [items_popped EXCEPT ![r][pop_pe[r]] = SubSeq(@, 1, Len(@) - 1)]
    BY Zenon DEF Unpop
  <2> QED  BY <2>1, <1>4
<1>8. ~all_done[r]
  <2> SUFFICES ASSUME all_done[r] PROVE FALSE
    OBVIOUS
  <2>1. num_popped[r] = num_msgs[r]
    BY <1>1 DEF Leaving, AllPopped
  <2> DEFINE n == Len(active[r])
  <2>2. current[r] \in 1 .. n
    BY <1>1, <1>4, FreeIsNone DEF Popping
  <2>3. n \in Nat /\ num_msgs[r] \in Nat /\ num_made_active[r] \in Nat
    BY <1>1, PEntries, LenProperties
  <2>4. num_popped[r] + n = num_made_active[r] /\ num_made_active[r] <= num_msgs[r]
    BY <1>1 DEF Counts, Ring
  <2> HIDE DEF n
  <2> QED  BY <2>1, <2>2, <2>3, <2>4
<1>9. UNCHANGED <<items_pushed, done, all_done, ex_round>>
  BY <1>4 DEF Unpop, cycle
<1>10. LinksEx2!GiveBack(r, s)
  BY <1>6, <1>7, <1>8, <1>9 DEF LinksEx2!GiveBack
<1> QED  BY <1>3, <1>10 DEF LinksEx2!Next

\* exstack2_proceed() returns 0 only when nothing is left and nothing can come.
LEMMA ProceedDrains ==
  ASSUME LInv, NEW d \in Thread, Proceed(d)
  PROVE  LinksEx2!Next
<1>1. /\ IInv /\ TypeOKEx2 /\ Order /\ Turn /\ Flushing /\ LastCount /\ Counts /\ Ring
      /\ Popping
  BY DEF LInv, IInv
<1>2. /\ stage[d] = "working" /\ ~all_done[d] /\ AllPopped(d)
      /\ all_done' = [all_done EXCEPT ![d] = TRUE]
      /\ UNCHANGED <<items_pushed, items_popped, done, ex_round>>
  BY DEF Proceed, Ready, cycle, history
<1>3. Together /\ LinksEx2!Together
  BY <1>1, <1>2, Acting, LinksTogether
<1>4. DoneSenders(d) = Thread
  <2>1. num_done_sending[d] = Cardinality(DoneSenders(d))
    BY <1>1, <1>3 DEF LastCount, Together
  <2> QED  BY <2>1, <1>2, DoneFinite DEF AllPopped
<1>5. active[d] = <<>>
  <2> DEFINE n == Len(active[d])
  <2>1. /\ n \in Nat /\ num_msgs[d] \in Nat /\ num_made_active[d] \in Nat
        /\ active[d] \in Seq(Thread)
    BY <1>1, PEntries, LenProperties
  <2>2. /\ num_popped[d] + n = num_made_active[d] /\ num_made_active[d] <= num_msgs[d]
        /\ num_popped[d] = num_msgs[d]
    BY <1>1, <1>2 DEF Counts, Ring, AllPopped
  <2> HIDE DEF n
  <2>3. n = 0
    BY <2>1, <2>2
  <2> QED  BY <2>1, <2>3 DEF n
<1>6. ASSUME NEW p \in Thread PROVE done[p] /\ Len(items_popped[d][p]) = items_pushed[p][d]
  <2>1. d \notin unflushed[p] /\ ~NoteTo(p, d) /\ ~QueuedFrom(p, d)
    BY <1>4 DEF DoneSenders
  <2>2. done[p]
    BY <2>1, <1>1 DEF Flushing
  <2>3. snd[p][d] = <<>>
    BY <2>1, <1>1 DEF Turn, Emptied
  <2>4. Accounts(p, d, 0)
    BY <2>1, <1>1, <1>3 DEF Order, Streams, Stream, Nothing
  <2>5. pop_cnt[d][p] = 0
    <3>1. ~ActiveFrom(p, d)
      BY <1>5 DEF ActiveFrom
    <3> QED  BY <3>1, <1>1, Entries DEF Popping
  <2> DEFINE a == Len(items_popped[d][p])
  <2>6. a \in Nat /\ items_pushed[p][d] \in Nat
    BY <1>1, Entries, LenProperties
  <2>7. a + 0 + 0 + 0 = items_pushed[p][d]
    BY <2>3, <2>4, <2>5 DEF Accounts, Reached
  <2> HIDE DEF a
  <2>8. a = items_pushed[p][d]
    BY <2>6, <2>7
  <2> QED  BY <2>2, <2>8 DEF a
<1>7. LinksEx2!Drain(d)
  BY <1>2, <1>6 DEF LinksEx2!Drain
<1> QED  BY <1>3, <1>7 DEF LinksEx2!Next

LEMMA ClearRestarts ==
  ASSUME LInv, NEW p \in Thread, Clear(p)
  PROVE  LinksEx2!Next
<1>1. TypeOKEx2 /\ Leaving /\ Stages /\ Turn
  BY DEF LInv, IInv
<1>2. /\ stage[p] = "clearing"
      /\ all_done' = [all_done EXCEPT ![p] = FALSE]
      /\ done' = [done EXCEPT ![p] = FALSE]
      /\ ex_round' = [ex_round EXCEPT ![p] = ex_round[p] + 1]
      /\ items_pushed' = [items_pushed EXCEPT ![p] = [d \in Thread |-> 0]]
      /\ items_popped' = [items_popped EXCEPT ![p] = [s \in Thread |-> <<>>]]
  BY DEF Clear
<1>3. ASSUME NEW q \in Thread PROVE all_done[q] \/ ex_round[q] > ex_round[p]
  <2>1. stage[q] \in {"clearing", "cleared"}
    BY <1>1, <1>2 DEF Stages
  <2>2. CASE stage[q] = "clearing"
    BY <2>2, <1>1 DEF Leaving
  <2>3. CASE stage[q] = "cleared"
    <3>1. ex_round[q] = ex_round[p] + 1 /\ ex_round[p] \in Nat
      BY <2>3, <1>1, <1>2, PEntries DEF Turn, Rounds
    <3> QED  BY <3>1
  <2> QED  BY <2>1, <2>2, <2>3
<1>4. items_pushed' = [q \in Thread |-> IF q \in {p} THEN [d \in Thread |-> 0] ELSE items_pushed[q]]
  BY <1>1, <1>2 DEF TypeOKEx2
<1>5. items_popped' = [q \in Thread |-> IF q \in {p} THEN [s \in Thread |-> <<>>] ELSE items_popped[q]]
  BY <1>1, <1>2 DEF TypeOKEx2
<1>6. done' = [q \in Thread |-> done[q] /\ q \notin {p}]
  <2>1. done \in [Thread -> BOOLEAN]
    BY <1>1 DEF TypeOKEx2
  <2> QED  BY <2>1, <1>2
<1>7. all_done' = [q \in Thread |-> all_done[q] /\ q \notin {p}]
  <2>1. all_done \in [Thread -> BOOLEAN]
    BY <1>1 DEF TypeOKEx2
  <2> QED  BY <2>1, <1>2
<1>8. ex_round' = [q \in Thread |-> IF q \in {p} THEN ex_round[q] + 1 ELSE ex_round[q]]
  BY <1>1, <1>2 DEF TypeOKEx2
<1>9. LinksEx2!Restart({p})
  BY <1>3, <1>4, <1>5, <1>6, <1>7, <1>8 DEF LinksEx2!Restart
<1>10. {p} \in SUBSET Thread
  OBVIOUS
<1> QED  BY <1>9, <1>10 DEF LinksEx2!Next

LEMMA ClientNext ==
  ASSUME LInv, NEW p \in Thread, Finish(p) \/ \E d \in Thread : PushEx2(p, d)
  PROVE  LinksEx2!Next
<1>1. stage[p] = "working"
  BY DEF Finish, PushEx2, Ready
<1>2. LinksEx2!Together
  BY <1>1, Acting, LinksTogether DEF LInv
<1>3. CASE Finish(p)
  <2>1. LinksEx2!Close(p)
    BY <1>3 DEF Finish, history, LinksEx2!Close
  <2> QED  BY <2>1, <1>2 DEF LinksEx2!Next
<1>4. ASSUME NEW d \in Thread, PushEx2(p, d) PROVE LinksEx2!Next
  <2>1. LinksEx2!Send(p, d)
    BY <1>4, PushCases DEF cycle, LinksEx2!Send
  <2> QED  BY <2>1, <1>2 DEF LinksEx2!Next
<1> QED  BY <1>3, <1>4

\* Nothing that the abstract specification speaks of changes.
Hidden == UNCHANGED <<items_pushed, items_popped, done, all_done, ex_round>>

LEMMA HiddenSteps ==
  ASSUME NEW p \in Thread,
         \/ PopEmpty(p) \/ CountMessages(p) \/ Activate(p) \/ Pick(p)
         \/ StartFlush(p) \/ FlushOne(p) \/ Land(p) \/ EnterReset(p)
  PROVE  Hidden
<1>1. CASE PopEmpty(p) \/ CountMessages(p) \/ Activate(p) \/ Pick(p)
  BY <1>1 DEF PopEmpty, CountMessages, Activate, Pick, cycle, history, Hidden
<1>2. CASE StartFlush(p) \/ FlushOne(p)
  BY <1>2 DEF StartFlush, FlushOne, cycle, history, Hidden
<1>3. CASE Land(p) \/ EnterReset(p)
  BY <1>3 DEF Land, LandData, Claim, LandNote, EnterReset, cycle, history, Hidden
<1> QED  BY <1>1, <1>2, <1>3

\* Every step is one of FifoLinks, or changes nothing that it sees.
LEMMA LinksNext == LInv /\ [NextEx2]_ex2vars => [LinksEx2!Next]_(LinksEx2!vars)
<1> SUFFICES ASSUME LInv, [NextEx2]_ex2vars PROVE LinksEx2!Next \/ Hidden
  BY DEF LinksEx2!vars, Hidden
<1>1. ASSUME NEW p \in Thread, Finish(p) \/ \E d \in Thread : PushEx2(p, d)
      PROVE  LinksEx2!Next
  BY <1>1, ClientNext
<1>2. ASSUME NEW p \in Thread, Pop(p) \/ Unpop(p) \/ Land(p)
      PROVE  LinksEx2!Next \/ Hidden
  BY <1>2, PopItemReceives, UnpopGivesBack, HiddenSteps DEF Pop
<1>3. ASSUME NEW p \in Thread, Endgame(p) \/ ResetEx2(p)
      PROVE  LinksEx2!Next \/ Hidden
  BY <1>3, ProceedDrains, ClearRestarts, HiddenSteps DEF Endgame, ResetEx2
<1>4. ASSUME FirstBarrier \/ SecondBarrier \/ FinishedEx2 \/ UNCHANGED ex2vars
      PROVE  Hidden
  BY <1>4 DEF FirstBarrier, SecondBarrier, FinishedEx2, ex2vars, cycle, history, Hidden
<1> QED  BY <1>1, <1>2, <1>3, <1>4 DEF NextEx2

\* At first the links are empty, and every PE is in its first round.
LEMMA LinksInit == InitEx2 => LinksEx2!Init
BY DEF InitEx2, LinksEx2!Init

\* Each pair of PEs is a FIFO link: items are popped in the order they were
\* pushed, each once unless it was given back; exstack2_proceed() returns 0 only
\* when nothing is left to pop and nothing can come; and rounds do not mix.
THEOREM LinksHold == SpecEx2 => LinksSpecEx2
<1>1. SpecEx2 => []LInv
  BY LInvInit, LInvNext, PTL DEF SpecEx2
<1>2. LInv /\ [NextEx2]_ex2vars => [LinksEx2!Next]_(LinksEx2!vars)
  BY LinksNext
<1>3. QED
  BY <1>1, <1>2, LinksInit, PTL DEF SpecEx2, LinksSpecEx2, LinksEx2!Spec
=============================================================================
