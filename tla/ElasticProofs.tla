----------------------------- MODULE ElasticProofs -----------------------------
(***************************************************************************)
(* Elastic implements FifoLinks, for every number of PEs, every choice of  *)
(* the large items, every kind of elastic conveyor and every bound: what a *)
(* client has taken, what its buffer still holds and what is on the link   *)
(* are, in this order, the items pushed, and the large item that a ticket  *)
(* stands for is still where the ticket says.                              *)
(***************************************************************************)
EXTENDS Elastic, SequenceTheorems, TLAPS

-----------------------------------------------------------------------------
(* The inductive invariant *)

ItemType   == [dest : Nat, n : Nat]
PacketType == [ticket : {FALSE}, item : ItemType] \cup [ticket : {TRUE}, item : Nat]
BufferType == [from : Nat, items : Seq(PacketType), next : Nat]

Types ==
  /\ kind \in {"put", "mpi", "trivial"}
  /\ link     \in [PE -> [PE -> Seq(PacketType)]]
  /\ buffer   \in [PE -> BufferType]
  /\ drained  \in [PE -> BOOLEAN]
  /\ outgoing \in [PE -> ItemType]
  /\ bigsent  \in [PE -> Nat]
  /\ bigrcvd  \in [PE -> Nat]
  /\ big_req  \in [PE -> {"null", "active", "sent"}]
  /\ incoming \in [PE -> ItemType]
  /\ bigpull  \in [PE -> BOOLEAN]
  /\ unpull   \in [PE -> BOOLEAN]
  /\ backup   \in [PE -> BOOLEAN]
  /\ full     \in [PE -> BOOLEAN]
  /\ acks     \in [PE -> SUBSET Nat]
  /\ state    \in [PE -> {"working", "endgame", "cleanup", "complete", "dormant"}]
  /\ over     \in [PE -> BOOLEAN]
  /\ at       \in [PE -> {"client", "reset", "begin"}]
  /\ pushed   \in [PE -> [PE -> Nat]]
  /\ got      \in [PE -> [PE -> Seq(Nat)]]
  /\ round    \in [PE -> Nat]

\* The packets from p that d has not pulled: those in its buffer, then the link.
Held(p, d) == IF buffer[d].from = p THEN Len(buffer[d].items) - buffer[d].next ELSE 0
Left(p, d) == Held(p, d) + Len(link[p][d])
PacketAt(p, d, i) == IF i <= Held(p, d) THEN buffer[d].items[buffer[d].next + i]
                  ELSE link[p][d][i - Held(p, d)]

\* The n-th item from anyone to d
Numbered(d, n) == [dest |-> d, n |-> n]

\* The large item of p has not been fetched.
Busy(p) == IF kind = "mpi" THEN big_req[p] = "active"
           ELSE bigsent[p] = bigrcvd[p] + 1 /\ acks[p] = {}

\* Put back, and already fetched
PutBackAt(p, d, i) == unpull[d] /\ buffer[d].from = p /\ i = 1

\* A packet stands for item n: a small one carries it, the large one of a ticket
\* is at the sender, or with a client that has put it back.
StandsFor(p, d, i, n) ==
  LET x == PacketAt(p, d, i)
  IN IF ~x.ticket THEN x.item = Numbered(d, n)
     ELSE IF PutBackAt(p, d, i) THEN incoming[d] = Numbered(d, n)
     ELSE Busy(p) /\ x.item = bigsent[p] /\ outgoing[p] = Numbered(d, n)

InOrder(p, d) == \A i \in 1 .. Len(got[d][p]) : got[d][p][i] = i

Stream(p, d) ==
  /\ InOrder(p, d)
  /\ kind # "trivial" =>
       /\ Len(got[d][p]) + Left(p, d) = pushed[p][d]
       /\ \A i \in 1 .. Left(p, d) : StandsFor(p, d, i, Len(got[d][p]) + i)

\* The requests, or the puts of acknowledgements, of p
Requested(p) ==
  /\ kind = "put" => \/ bigsent[p] = bigrcvd[p] /\ acks[p] = {}
                     \/ bigsent[p] = bigrcvd[p] + 1 /\ acks[p] \in {{}, {bigsent[p]}}
  /\ kind # "put" => acks[p] = {}

\* What d can put back
Hand(d) ==
  LET b == buffer[d]
      n == Len(got[d][b.from])
  IN /\ b = NoBuffer \/ b.from \in PE
     /\ b.next <= Len(b.items)
     /\ unpull[d] => bigpull[d] /\ b.next < Len(b.items) /\ b.items[b.next + 1].ticket
     /\ b.next > 0 /\ ~unpull[d] /\ (bigpull[d] \/ backup[d]) =>
          /\ n > 0
          /\ b.items[b.next].ticket = bigpull[d]
          /\ IF bigpull[d] THEN incoming[d] = Numbered(d, n)
             ELSE b.items[b.next].item = Numbered(d, n)

\* A trivial conveyor has one item, and no links.
Single(p) ==
  /\ full[p] => kind = "trivial"
  /\ kind = "trivial" =>
       /\ buffer[p] = NoBuffer
       /\ \A d \in PE : link[p][d] = <<>>
       /\ \A d \in PE \ {p} : pushed[p][d] = 0 /\ got[d][p] = <<>>
       /\ Len(got[p][p]) + (IF full[p] THEN 1 ELSE 0) = pushed[p][p]
       /\ pushed[p][p] > 0 => outgoing[p] = Numbered(p, pushed[p][p])
       /\ ~drained[p]

\* p gets nothing more in this round.
Ended(p) ==
  /\ \A q \in PE : over[q] /\ link[q][p] = <<>>
  /\ buffer[p] = NoBuffer
  /\ kind = "trivial" => ~full[p]

Endings(p) ==
  /\ drained[p] \/ state[p] \in {"complete", "dormant"} => Ended(p)
  /\ at[p] = "begin" => state[p] = "dormant" /\ ~full[p] /\ ~drained[p]
  /\ at[p] = "reset" => state[p] = "complete"

\* Resets and rounds are common to all.
Common ==
  /\ \A p, q \in PE : round[p] = round[q]
  /\ (\E p \in PE : state[p] = "dormant") =>
       \A p \in PE : state[p] = "dormant" /\ acks[p] = {}

LInv ==
  /\ Types
  /\ \A p, d \in PE : Stream(p, d)
  /\ \A p \in PE : Requested(p) /\ Hand(p) /\ Single(p) /\ Endings(p)
  /\ Common

-----------------------------------------------------------------------------
(* Types *)

LEMMA NoBufferType == NoBuffer \in BufferType /\ NoBuffer.items = <<>> /\ NoBuffer.next = 0
BY ElasticAssumption DEF NoBuffer, BufferType

LEMMA NoItemType == NoItem \in ItemType
BY ElasticAssumption DEF NoItem, ItemType

LEMMA PEntries ==
  ASSUME Types, NEW p \in PE
  PROVE  /\ buffer[p] \in BufferType /\ buffer[p].items \in Seq(PacketType)
         /\ buffer[p].next \in Nat /\ buffer[p].from \in Nat
         /\ outgoing[p] \in ItemType /\ incoming[p] \in ItemType
         /\ bigsent[p] \in Nat /\ bigrcvd[p] \in Nat
         /\ drained[p] \in BOOLEAN /\ bigpull[p] \in BOOLEAN
         /\ unpull[p] \in BOOLEAN /\ backup[p] \in BOOLEAN
         /\ full[p] \in BOOLEAN /\ over[p] \in BOOLEAN /\ acks[p] \in SUBSET Nat
BY DEF Types, BufferType

LEMMA Entries ==
  ASSUME Types, NEW p \in PE, NEW d \in PE
  PROVE  /\ link[p][d] \in Seq(PacketType) /\ pushed[p][d] \in Nat
         /\ got[d][p] \in Seq(Nat) /\ Len(got[d][p]) \in Nat
         /\ Len(link[p][d]) \in Nat
<1>1. /\ link[p][d] \in Seq(PacketType) /\ pushed[p][d] \in Nat
      /\ got[d][p] \in Seq(Nat)
  BY DEF Types
<1> QED  BY <1>1, LenProperties

LEMMA SubSeqStart ==
  ASSUME NEW t \in Seq(Nat), NEW a \in Nat, a <= Len(t)
  PROVE  /\ SubSeq(t, 1, a) \in Seq(Nat) /\ Len(SubSeq(t, 1, a)) = a
         /\ \A i \in 1 .. a : SubSeq(t, 1, a)[i] = t[i]
BY SubSeqProperties

LEMMA Update2 ==
  ASSUME NEW A, NEW B, NEW S, NEW f \in [A -> [B -> S]], NEW a, NEW b, NEW v \in S
  PROVE  [f EXCEPT ![a][b] = v] \in [A -> [B -> S]]
OBVIOUS

LEMMA PushTypes ==
  ASSUME Types, NEW p \in PE, NEW d \in PE,
         PushSmall(p, d) \/ PushMonster(p, d) \/ PushTrivial(p)
  PROVE  Types'
<1>1. Item(p, d) \in ItemType /\ Item(p, p) \in ItemType
  BY Entries DEF Item, ItemType, PE
<1>2. /\ Packet(FALSE, Item(p, d)) \in PacketType
      /\ Packet(TRUE, bigsent[p] + 1) \in PacketType
  BY <1>1, PEntries DEF Packet, PacketType
<1>3. CASE PushSmall(p, d)
  <2>1. Append(link[p][d], Packet(FALSE, Item(p, d))) \in Seq(PacketType)
    BY <1>2, Entries, AppendProperties
  <2>2. link' \in [PE -> [PE -> Seq(PacketType)]] /\ pushed' \in [PE -> [PE -> Nat]]
    <3>1. link' = [link EXCEPT ![p][d] = Append(link[p][d], Packet(FALSE, Item(p, d)))]
      BY Zenon, <1>3 DEF PushSmall
    <3>2. pushed' = [pushed EXCEPT ![p][d] = pushed[p][d] + 1]
      BY Zenon, <1>3 DEF PushSmall
    <3>3. link \in [PE -> [PE -> Seq(PacketType)]] /\ pushed \in [PE -> [PE -> Nat]]
      BY DEF Types
    <3>4. pushed[p][d] + 1 \in Nat
      BY Entries
    <3> QED  BY <3>1, <3>2, <3>3, <3>4, <2>1, Update2
  <2> QED  BY <1>3, <2>2 DEF Types, PushSmall, setting, sending, pulling, control
<1>4. CASE PushMonster(p, d)
  <2>1. Append(link[p][d], Packet(TRUE, bigsent[p] + 1)) \in Seq(PacketType)
    BY <1>2, Entries, AppendProperties
  <2>2. /\ link' \in [PE -> [PE -> Seq(PacketType)]]
        /\ outgoing' \in [PE -> ItemType] /\ bigsent' \in [PE -> Nat]
        /\ pushed' \in [PE -> [PE -> Nat]]
    <3> DEFINE n == IF HasRoom(p, d) THEN 1 ELSE 0
               l == IF HasRoom(p, d) THEN Append(link[p][d], Packet(TRUE, bigsent[p] + 1))
                    ELSE link[p][d]
    <3>1. /\ link'     = [link EXCEPT ![p][d] = l]
          /\ outgoing' = [outgoing EXCEPT ![p] = Item(p, d)]
          /\ bigsent'  = [bigsent EXCEPT ![p] = bigsent[p] + n]
          /\ pushed'   = [pushed EXCEPT ![p][d] = pushed[p][d] + n]
      BY Zenon, <1>4 DEF PushMonster
    <3>2. /\ l \in Seq(PacketType) /\ bigsent[p] + n \in Nat
          /\ pushed[p][d] + n \in Nat
      <4>1. n \in Nat /\ l \in Seq(PacketType)
        BY <2>1, Entries
      <4> HIDE DEF n, l
      <4> QED  BY <4>1, Entries, PEntries
    <3> HIDE DEF n, l
    <3>3. /\ link \in [PE -> [PE -> Seq(PacketType)]] /\ pushed \in [PE -> [PE -> Nat]]
          /\ outgoing \in [PE -> ItemType] /\ bigsent \in [PE -> Nat]
      BY DEF Types
    <3>4. link' \in [PE -> [PE -> Seq(PacketType)]] /\ pushed' \in [PE -> [PE -> Nat]]
      BY <3>1, <3>2, <3>3, Update2
    <3> QED  BY <1>1, <3>1, <3>2, <3>3, <3>4
  <2>3. big_req' \in [PE -> {"null", "active", "sent"}]
    <3>1. \E v \in {"null", "active", "sent"} : big_req' = [big_req EXCEPT ![p] = v]
      <4>1. big_req[p] \in {"null", "active", "sent"}
        BY DEF Types
      <4>2. CASE kind = "mpi" /\ HasRoom(p, d)
        BY <4>2, <1>4 DEF PushMonster
      <4>3. CASE kind = "mpi" /\ ~HasRoom(p, d)
        BY <4>3, <1>4 DEF PushMonster
      <4>4. CASE kind # "mpi"
        BY <4>1, <4>4, <1>4 DEF PushMonster
      <4> QED  BY <4>2, <4>3, <4>4
    <3> QED  BY <3>1 DEF Types
  <2>4. UNCHANGED <<setting, buffer, drained, bigrcvd, acks, pulling, full, control, got, round>>
    BY Zenon, <1>4 DEF PushMonster
  <2>5. /\ UNCHANGED <<kind, buffer, drained, bigrcvd, acks, full, got, round>>
        /\ UNCHANGED <<incoming, bigpull, unpull, backup, state, over, at>>
    BY <2>4 DEF setting, pulling, control
  <2> QED  BY <2>2, <2>3, <2>5 DEF Types
<1>5. CASE PushTrivial(p)
  <2>1. pushed' \in [PE -> [PE -> Nat]] /\ outgoing' \in [PE -> ItemType]
        /\ full' \in [PE -> BOOLEAN]
    <3>1. pushed[p][p] + 1 \in Nat
      BY Entries
    <3>2. pushed' = [pushed EXCEPT ![p][p] = pushed[p][p] + 1]
      BY Zenon, <1>5 DEF PushTrivial
    <3>3. pushed' \in [PE -> [PE -> Nat]]
      BY <3>1, <3>2, Update2 DEF Types
    <3> QED  BY <1>1, <1>5, <3>3 DEF PushTrivial, Types
  <2>2. UNCHANGED <<setting, packets, bigsent, bigrcvd, big_req, acks, pulling, control, got, round>>
    BY Zenon, <1>5 DEF PushTrivial
  <2> QED  BY <2>1, <2>2 DEF Types, setting, packets, pulling, control
<1> QED  BY <1>3, <1>4, <1>5

LEMMA InitTypes == Init => Types
BY NoBufferType, NoItemType, ElasticAssumption DEF Init, Types, PE

LEMMA ControlTypes ==
  ASSUME Types, NEW p \in PE,
         Finish(p) \/ Advance(p) \/ EnterReset(p) \/ Begin(p) \/ DeliverAck(p)
  PROVE  Types'
<1>1. CASE Finish(p) \/ EnterReset(p)
  BY <1>1 DEF Types, Finish, EnterReset, setting, packets, sending, pulling, history
<1>2. CASE Advance(p)
  BY <1>2 DEF Types, Advance, setting, packets, sending, pulling, history
<1>3. CASE Begin(p)
  BY <1>3 DEF Types, Begin, setting, history
<1>4. CASE DeliverAck(p)
  BY <1>4 DEF Types, DeliverAck, setting, packets, pulling, control, history
<1> QED  BY <1>1, <1>2, <1>3, <1>4

LEMMA BarrierTypes ==
  ASSUME Types, ResetBarrier \/ FinishBegin
  PROVE  Types'
<1>1. CASE ResetBarrier
  BY <1>1 DEF Types, ResetBarrier, setting, packets, sending, pulling, history
<1>2. CASE FinishBegin
  BY <1>2 DEF Types, FinishBegin, setting, packets, sending, pulling
<1> QED  BY <1>1, <1>2

-----------------------------------------------------------------------------
(* The packets of a link when a client pulls *)

SamePackets(q, e) ==
  /\ Left(q, e)' = Left(q, e)
  /\ \A i \in 1 .. Left(q, e) : PacketAt(q, e, i)' = PacketAt(q, e, i)

LEMMA SameLink ==
  ASSUME NEW q \in PE, NEW e \in PE,
         buffer'[e] = buffer[e], link'[q][e] = link[q][e]
  PROVE  SamePackets(q, e)
BY DEF SamePackets, Left, Held, PacketAt

LEMMA HeldType ==
  ASSUME Types, NEW p \in PE, NEW d \in PE, Hand(d)
  PROVE  Held(p, d) \in Nat /\ Left(p, d) \in Nat
<1>1. Len(buffer[d].items) \in Nat /\ buffer[d].next \in Nat /\ Len(link[p][d]) \in Nat
  BY Entries, PEntries, LenProperties
<1>2. buffer[d].next <= Len(buffer[d].items)
  BY DEF Hand
<1>3. Held(p, d) \in Nat
  BY <1>1, <1>2 DEF Held
<1> QED  BY <1>1, <1>3 DEF Left

\* With nothing at hand, the packets are those on the link.
LEMMA HeldEmpty ==
  ASSUME Types, NEW p \in PE, NEW d \in PE, Hand(d), ~HasItems(d)
  PROVE  /\ Held(p, d) = 0 /\ ~unpull[d]
         /\ Left(p, d) = Len(link[p][d])
         /\ \A i \in 1 .. Left(p, d) : PacketAt(p, d, i) = link[p][d][i]
<1>1. Len(buffer[d].items) \in Nat /\ buffer[d].next \in Nat /\ Len(link[p][d]) \in Nat
  BY Entries, PEntries, LenProperties
<1>2. buffer[d].next = Len(buffer[d].items)
  BY <1>1 DEF Hand, HasItems
<1>3. Held(p, d) = 0
  BY <1>1, <1>2 DEF Held
<1>4. ~unpull[d]
  BY <1>1, <1>2 DEF Hand
<1>5. Left(p, d) = Len(link[p][d])
  BY <1>1, <1>3 DEF Left
<1>6. ASSUME NEW i \in 1 .. Left(p, d) PROVE PacketAt(p, d, i) = link[p][d][i]
  BY <1>1, <1>3 DEF PacketAt
<1> QED  BY <1>3, <1>4, <1>5, <1>6

\* What a pull of packet x, the first from s, does to the packets for d
Moves(s, d, x) ==
  /\ Left(s, d) > 0 /\ x = PacketAt(s, d, 1)
  /\ unpull[d] => buffer[d].from = s
  /\ Left(s, d)' = Left(s, d) - 1
  /\ \A i \in 1 .. Left(s, d) - 1 : PacketAt(s, d, i)' = PacketAt(s, d, i + 1)
  /\ \A q \in PE \ {s} : SamePackets(q, d)
  /\ \A q, e \in PE : e # d => buffer'[e] = buffer[e] /\ link'[q][e] = link[q][e]
  /\ \A q \in PE : link[q][d] = <<>> => link'[q][d] = <<>>
  /\ buffer'[d].from = s /\ buffer'[d].next \in 1 .. Len(buffer'[d].items)
  /\ buffer'[d].items[buffer'[d].next] = x
  /\ buffer' \in [PE -> BufferType] /\ link' \in [PE -> [PE -> Seq(PacketType)]]

\* What it does to the rest
Takes(s, d, x) ==
  LET fetch == x.ticket /\ ~unpull[d]
  IN /\ bigpull'  = [bigpull EXCEPT ![d] = x.ticket]
     /\ unpull'   = [unpull EXCEPT ![d] = unpull[d] /\ ~x.ticket]
     /\ backup'   = [backup EXCEPT ![d] = TRUE]
     /\ incoming' = [incoming EXCEPT ![d] = IF fetch THEN outgoing[s] ELSE incoming[d]]
     /\ Took(d, s, IF x.ticket THEN incoming'[d] ELSE x.item)
     /\ acks'     = [acks EXCEPT ![s] =
          IF fetch /\ kind = "put" THEN acks[s] \cup {x.item} ELSE acks[s]]
     /\ big_req'  = [big_req EXCEPT ![s] =
          IF fetch /\ kind = "mpi" THEN "sent" ELSE big_req[s]]
     /\ UNCHANGED <<kind, drained, outgoing, bigsent, bigrcvd, full, state, over, at,
                    pushed, round>>

Pulls(s, d, x) ==
  /\ s \in PE /\ x \in PacketType /\ state[d] # "dormant" /\ at[d] = "client"
  /\ Moves(s, d, x) /\ Takes(s, d, x)

LEMMA PullHeldMoves ==
  ASSUME Types, NEW d \in PE, Hand(d), PullHeld(d)
  PROVE  Pulls(buffer[d].from, d, buffer[d].items[buffer[d].next + 1])
<1> DEFINE b == buffer[d]
           s == b.from
           x == b.items[b.next + 1]
           t == b.items
           n == b.next
<1>1. /\ t \in Seq(PacketType) /\ Len(t) \in Nat /\ n \in Nat /\ n < Len(t)
      /\ b \in BufferType
  BY PEntries, LenProperties DEF PullHeld, HasItems
<1>2. s \in PE
  BY <1>1, NoBufferType DEF Hand
<1>3. x \in PacketType
  BY <1>1, ElementOfSeq
<1>4. /\ buffer' = [buffer EXCEPT ![d] = [b EXCEPT !.next = n + 1]]
      /\ UNCHANGED <<setting, link, drained, outgoing, bigsent, bigrcvd, full, control, pushed, round>>
  BY Zenon DEF PullHeld, PullFrom
<1>5. /\ bigpull'  = [bigpull EXCEPT ![d] = x.ticket]
      /\ unpull'   = [unpull EXCEPT ![d] = unpull[d] /\ ~x.ticket]
      /\ backup'   = [backup EXCEPT ![d] = TRUE]
      /\ incoming' = [incoming EXCEPT ![d] = IF x.ticket /\ ~unpull[d] THEN outgoing[s] ELSE incoming[d]]
      /\ Took(d, s, IF x.ticket THEN incoming'[d] ELSE x.item)
      /\ acks'     = [acks EXCEPT ![s] =
           IF (x.ticket /\ ~unpull[d]) /\ kind = "put" THEN acks[s] \cup {x.item} ELSE acks[s]]
      /\ big_req'  = [big_req EXCEPT ![s] =
           IF (x.ticket /\ ~unpull[d]) /\ kind = "mpi" THEN "sent" ELSE big_req[s]]
  BY Zenon DEF PullHeld, PullFrom
<1>6. Takes(s, d, x)
  BY <1>4, <1>5 DEF Takes, setting, control
<1>7. Moves(s, d, x)
  <2>1. /\ buffer'[d].from = s /\ buffer'[d].next = n + 1 /\ buffer'[d].items = t
        /\ \A e \in PE : e # d => buffer'[e] = buffer[e]
        /\ buffer' \in [PE -> BufferType] /\ link' = link
    <3>1. buffer'[d] = [b EXCEPT !.next = n + 1]
      BY <1>4 DEF Types
    <3>2. [b EXCEPT !.next = n + 1] \in BufferType
      BY <1>1 DEF BufferType
    <3>3. b = [from |-> s, items |-> t, next |-> n]
      BY <1>1 DEF BufferType
    <3> HIDE DEF b, s, t, n
    <3>4. /\ buffer'[d].from = s /\ buffer'[d].next = n + 1 /\ buffer'[d].items = t
      BY <3>1, <3>3
    <3>5. /\ \A e \in PE : e # d => buffer'[e] = buffer[e]
          /\ buffer' \in [PE -> BufferType] /\ link' = link
      BY <1>4, <3>2 DEF Types
    <3> QED  BY <3>4, <3>5
  <2>2. Held(s, d) = Len(t) - n /\ Held(s, d)' = Len(t) - (n + 1)
    BY <2>1 DEF Held
  <2>3. Left(s, d) = Len(t) - n + Len(link[s][d]) /\ Left(s, d)' = Len(t) - (n + 1) + Len(link[s][d])
    BY <2>1, <2>2 DEF Left
  <2> DEFINE l == link[s][d]
  <2>4. Len(l) \in Nat
    BY <1>2, Entries
  <2>5. /\ \A i : PacketAt(s, d, i) = IF i <= Len(t) - n THEN t[n + i] ELSE l[i - (Len(t) - n)]
        /\ \A i : PacketAt(s, d, i)' = IF i <= Len(t) - (n + 1) THEN t[n + 1 + i]
                                    ELSE l[i - (Len(t) - (n + 1))]
    BY <2>1, <2>2 DEF PacketAt
  <2>6. x = t[n + 1]
    OBVIOUS
  <2> HIDE DEF b, s, x, t, n, l
  <2>7. Left(s, d) > 0 /\ Left(s, d)' = Left(s, d) - 1
    BY <1>1, <2>3, <2>4 DEF l
  <2>8. x = PacketAt(s, d, 1)
    BY <1>1, <2>5, <2>6
  <2>9. ASSUME NEW i \in 1 .. Left(s, d) - 1 PROVE PacketAt(s, d, i)' = PacketAt(s, d, i + 1)
    <3>1. i \in Nat
      BY <2>7, <2>3, <2>4, <1>1 DEF l
    <3> DEFINE j == i + 1
               h == Len(t) - n
    <3>2. j \in Nat /\ h \in Nat
      BY <3>1, <1>1
    <3>3. Len(t) - (n + 1) = h - 1
      BY <1>1
    <3>4. /\ PacketAt(s, d, j) = IF j <= h THEN t[n + j] ELSE l[j - h]
          /\ PacketAt(s, d, i)' = IF i <= h - 1 THEN t[n + 1 + i] ELSE l[i - (h - 1)]
      BY <2>5, <3>3, Zenon
    <3>5. n + 1 + i = n + j /\ i - (h - 1) = j - h /\ (i <= h - 1 <=> j <= h)
      BY <3>1, <3>2, <1>1
    <3> HIDE DEF j, h
    <3>6. PacketAt(s, d, i)' = PacketAt(s, d, j)
      BY <3>4, <3>5
    <3> QED  BY <3>6 DEF j
  <2>10. ASSUME NEW q \in PE \ {s} PROVE SamePackets(q, d)
    <3>1. Held(q, d) = 0 /\ Held(q, d)' = 0
      BY <2>1 DEF Held, s, b
    <3>2. Left(q, d)' = Left(q, d)
      BY <2>1, <3>1 DEF Left
    <3>3. Left(q, d) = Len(link[q][d])
      BY <3>1, Entries DEF Left
    <3>4. ASSUME NEW i \in 1 .. Left(q, d) PROVE PacketAt(q, d, i)' = PacketAt(q, d, i)
      <4>1. i > 0
        BY <3>3, Entries
      <4> QED  BY <4>1, <3>1, <2>1 DEF PacketAt
    <3> QED  BY <3>2, <3>4 DEF SamePackets
  <2>11. unpull[d] => buffer[d].from = s
    BY DEF s, b
  <2>12. /\ buffer'[d].next \in 1 .. Len(buffer'[d].items)
         /\ buffer'[d].items[buffer'[d].next] = x
    BY <1>1, <2>1, <2>6
  <2>13. link' \in [PE -> [PE -> Seq(PacketType)]]
    BY <2>1 DEF Types
  <2> QED  BY <2>1, <2>7, <2>8, <2>9, <2>10, <2>11, <2>12, <2>13 DEF Moves
<1>8. state[d] # "dormant" /\ at[d] = "client"
  BY DEF PullHeld, CanPull
<1> QED  BY <1>2, <1>3, <1>6, <1>7, <1>8 DEF Pulls

LEMMA PullNextMoves ==
  ASSUME Types, NEW d \in PE, Hand(d), PullNext(d)
  PROVE  \E s \in PE : \E x \in PacketType : Pulls(s, d, x)
<1>1. PICK s \in PE : \E k \in 1 .. Len(link[s][d]) :
        /\ PullFrom(d, [from |-> s, items |-> SubSeq(link[s][d], 1, k), next |-> 0])
        /\ link' = [link EXCEPT ![s][d] = SubSeq(link[s][d], k + 1, Len(link[s][d]))]
  BY Zenon DEF PullNext
<1> DEFINE l == link[s][d]
           m == Len(l)
<1>2. l \in Seq(PacketType) /\ m \in Nat
  BY Entries
<1>3. PICK k \in 1 .. m :
        /\ PullFrom(d, [from |-> s, items |-> SubSeq(l, 1, k), next |-> 0])
        /\ link' = [link EXCEPT ![s][d] = SubSeq(l, k + 1, m)]
  BY <1>1
<1> DEFINE t == SubSeq(l, 1, k)
           b == [from |-> s, items |-> t, next |-> 0]
           x == t[1]
<1>4. k \in Nat /\ k >= 1 /\ k <= m
  BY <1>2
<1>5. /\ t \in Seq(PacketType) /\ Len(t) = k
      /\ \A i \in 1 .. k : t[i] = l[i]
  BY <1>2, <1>4, SubSeqProperties
<1>6. x \in PacketType
  BY <1>4, <1>5, ElementOfSeq
<1>7. UNCHANGED <<setting, drained, outgoing, bigsent, bigrcvd, full, control, pushed, round>>
  BY Zenon DEF PullNext
<1>8. b.from = s /\ b.next = 0 /\ b.items = t /\ b.items[b.next + 1] = x
  OBVIOUS
<1> HIDE DEF b, x, t, l, m
<1>9. /\ buffer'   = [buffer EXCEPT ![d] = [b EXCEPT !.next = b.next + 1]]
      /\ bigpull'  = [bigpull EXCEPT ![d] = x.ticket]
      /\ unpull'   = [unpull EXCEPT ![d] = unpull[d] /\ ~x.ticket]
      /\ backup'   = [backup EXCEPT ![d] = TRUE]
      /\ incoming' = [incoming EXCEPT ![d] = IF x.ticket /\ ~unpull[d] THEN outgoing[s] ELSE incoming[d]]
      /\ Took(d, s, IF x.ticket THEN incoming'[d] ELSE x.item)
      /\ acks'     = [acks EXCEPT ![s] =
           IF (x.ticket /\ ~unpull[d]) /\ kind = "put" THEN acks[s] \cup {x.item} ELSE acks[s]]
      /\ big_req'  = [big_req EXCEPT ![s] =
           IF (x.ticket /\ ~unpull[d]) /\ kind = "mpi" THEN "sent" ELSE big_req[s]]
  <2>1. PullFrom(d, b)
    BY <1>3 DEF b, t
  <2> QED  BY <2>1, <1>8 DEF PullFrom
<1>10. Takes(s, d, x)
  BY <1>7, <1>9 DEF Takes, setting, control
<1>11. Moves(s, d, x)
  <2>1. /\ buffer'[d].from = s /\ buffer'[d].next = 1 /\ buffer'[d].items = t
        /\ \A e \in PE : e # d => buffer'[e] = buffer[e]
        /\ buffer' \in [PE -> BufferType]
    <3>1. buffer'[d] = [b EXCEPT !.next = b.next + 1]
      BY <1>9 DEF Types
    <3>2. [b EXCEPT !.next = b.next + 1] = [from |-> s, items |-> t, next |-> 1]
      BY <1>8 DEF b
    <3>3. [from |-> s, items |-> t, next |-> 1] \in BufferType
      BY <1>5 DEF BufferType, PE
    <3>4. /\ buffer'[d].from = s /\ buffer'[d].next = 1 /\ buffer'[d].items = t
      BY <3>1, <3>2
    <3>5. /\ \A e \in PE : e # d => buffer'[e] = buffer[e]
          /\ buffer' \in [PE -> BufferType]
      BY <1>9, <3>2, <3>3 DEF Types
    <3> QED  BY <3>4, <3>5
  <2> DEFINE v == SubSeq(l, k + 1, m)
  <2>2. /\ v \in Seq(PacketType) /\ Len(v) = m - k
        /\ \A i \in 1 .. m - k : v[i] = l[k + i]
    <3>1. v \in Seq(PacketType) /\ Len(v) = m - k
      BY <1>2, <1>4, SubSeqProperties DEF m
    <3>2. ASSUME NEW i \in 1 .. m - k PROVE v[i] = l[k + i]
      <4>1. v[i] = l[k + 1 + i - 1]
        BY <1>2, <1>4, SubSeqProperties DEF m
      <4>2. k + 1 + i - 1 = k + i
        BY <1>2, <1>4
      <4> QED  BY <4>1, <4>2
    <3> QED  BY <3>1, <3>2
  <2>3. /\ link'[s][d] = v /\ link' \in [PE -> [PE -> Seq(PacketType)]]
        /\ \A q, e \in PE : q # s \/ e # d => link'[q][e] = link[q][e]
    <3>1. link' = [link EXCEPT ![s][d] = v]
      BY <1>3
    <3> HIDE DEF v
    <3>2. link \in [PE -> [PE -> Seq(PacketType)]]
      BY DEF Types
    <3> QED  BY <3>1, <3>2, <2>2, Update2
  <2> HIDE DEF v
  <2>4. ~HasItems(d)
    BY DEF PullNext
  <2>5. /\ Held(s, d) = 0 /\ ~unpull[d] /\ Left(s, d) = m
        /\ \A i \in 1 .. m : PacketAt(s, d, i) = l[i]
    BY <2>4, HeldEmpty DEF l, m
  <2>6. Held(s, d)' = k - 1
    BY <2>1, <1>5, <1>4 DEF Held
  <2>7. Left(s, d)' = m - 1
    BY <2>6, <2>2, <2>3, <1>2, <1>4 DEF Left
  <2>8. \A i : PacketAt(s, d, i)' = IF i <= k - 1 THEN t[1 + i] ELSE v[i - (k - 1)]
    BY <2>1, <2>3, <2>6 DEF PacketAt
  <2>9. ASSUME NEW i \in 1 .. Left(s, d) - 1 PROVE PacketAt(s, d, i)' = PacketAt(s, d, i + 1)
    <3>1. i \in Nat /\ i >= 1 /\ i + 1 <= m /\ i + 1 \in 1 .. m
      BY <2>5, <1>2
    <3>2. PacketAt(s, d, i + 1) = l[i + 1]
      BY <3>1, <2>5
    <3>3. CASE i <= k - 1
      <4>1. PacketAt(s, d, i)' = t[1 + i] /\ 1 + i \in 1 .. k /\ 1 + i = i + 1
        BY <3>1, <3>3, <2>8, <1>4
      <4>2. t[1 + i] = l[1 + i]
        BY <4>1, <1>5
      <4> QED  BY <4>1, <4>2, <3>2
    <3>4. CASE ~(i <= k - 1)
      <4>1. PacketAt(s, d, i)' = v[i - (k - 1)]
        BY <3>4, <2>8
      <4>2. i - (k - 1) \in 1 .. m - k /\ k + (i - (k - 1)) = i + 1
        BY <3>1, <3>4, <1>4, <1>2
      <4>3. v[i - (k - 1)] = l[k + (i - (k - 1))]
        BY <4>2, <2>2
      <4> QED  BY <4>1, <4>2, <4>3, <3>2
    <3> QED  BY <3>3, <3>4
  <2>10. ASSUME NEW q \in PE \ {s} PROVE SamePackets(q, d)
    <3>1. Held(q, d) = 0 /\ Held(q, d)' = 0
      BY <2>1, <2>4, HeldEmpty DEF Held
    <3>2. link'[q][d] = link[q][d]
      BY <2>3
    <3>3. Left(q, d)' = Left(q, d) /\ Left(q, d) = Len(link[q][d])
      BY <3>2, <3>1, Entries DEF Left
    <3>4. ASSUME NEW i \in 1 .. Left(q, d) PROVE PacketAt(q, d, i)' = PacketAt(q, d, i)
      <4>1. i > 0
        BY <3>3, Entries
      <4> QED  BY <4>1, <3>1, <3>2 DEF PacketAt
    <3> QED  BY <3>3, <3>4 DEF SamePackets
  <2>11. Left(s, d) > 0 /\ Left(s, d)' = Left(s, d) - 1
    BY <2>5, <2>7, <1>2, <1>4
  <2>12. x = PacketAt(s, d, 1)
    <3>1. x = l[1]
      BY <1>5, <1>4 DEF x
    <3> QED  BY <3>1, <2>5, <1>4, <1>2
  <2>13. /\ buffer'[d].next \in 1 .. Len(buffer'[d].items)
         /\ buffer'[d].items[buffer'[d].next] = x
    BY <1>4, <1>5, <2>1 DEF x
  <2>14. \A q \in PE : link[q][d] = <<>> => link'[q][d] = <<>>
    <3>1. link[s][d] # <<>>
      BY <1>2, <1>4 DEF l, m
    <3> QED  BY <3>1, <2>3
  <2>15. \A q, e \in PE : e # d => buffer'[e] = buffer[e] /\ link'[q][e] = link[q][e]
    BY <2>1, <2>3
  <2> QED  BY <2>1, <2>3, <2>5, <2>9, <2>10, <2>11, <2>12, <2>13, <2>14, <2>15 DEF Moves
<1>12. state[d] # "dormant" /\ at[d] = "client"
  BY DEF PullNext, CanPull
<1> QED  BY <1>6, <1>10, <1>11, <1>12 DEF Pulls

-----------------------------------------------------------------------------
(* A pull keeps the invariant *)

LEMMA NumberedType ==
  ASSUME NEW d \in PE, NEW n \in Nat
  PROVE  /\ Numbered(d, n) \in ItemType
         /\ Numbered(d, n).dest = d /\ Numbered(d, n).n = n
BY DEF Numbered, ItemType, PE

LEMMA NumberedOnce ==
  ASSUME NEW d, NEW e, NEW m, NEW n, Numbered(d, m) = Numbered(e, n)
  PROVE  d = e /\ m = n
<1>1. Numbered(d, m).dest = Numbered(e, n).dest /\ Numbered(d, m).n = Numbered(e, n).n
  OBVIOUS
<1> QED  BY <1>1 DEF Numbered

\* What a pull finds: the next item, which is small, put back or to be fetched.
LEMMA PullFinds ==
  ASSUME LInv, NEW d \in PE, NEW s, NEW x, Pulls(s, d, x)
  PROVE  LET n == Len(got[d][s]) + 1
         IN /\ kind # "trivial"
            /\ unpull'[d] = FALSE
            /\ got' = [got EXCEPT ![d][s] = Append(got[d][s], n)]
            /\ x.ticket /\ ~unpull[d] =>
                 Busy(s) /\ x.item = bigsent[s] /\ outgoing[s] = Numbered(d, n)
            /\ IF x.ticket THEN incoming'[d] = Numbered(d, n) ELSE x.item = Numbered(d, n)
<1> DEFINE n == Len(got[d][s]) + 1
           item == IF x.ticket THEN incoming'[d] ELSE x.item
<1>1. s \in PE /\ Types /\ Hand(d) /\ Stream(s, d) /\ Single(d) /\ Single(s)
  BY DEF Pulls, LInv
<1>2. Left(s, d) > 0 /\ x = PacketAt(s, d, 1) /\ (unpull[d] => buffer[d].from = s)
  BY DEF Pulls, Moves
<1>3. Left(s, d) \in Nat
  BY <1>1, HeldType
<1>4. kind # "trivial"
  <2>1. SUFFICES ASSUME kind = "trivial" PROVE FALSE
    OBVIOUS
  <2>2. link[s][d] = <<>> /\ buffer[d] = NoBuffer
    BY <2>1, <1>1 DEF Single
  <2>3. Held(s, d) = 0
    BY <2>2, <1>1 DEF Held, NoBuffer, PE
  <2> QED  BY <2>2, <2>3, <1>2 DEF Left
<1>5. StandsFor(s, d, 1, n)
  BY <1>1, <1>2, <1>3, <1>4 DEF Stream
<1>6. unpull[d] => x.ticket
  <2>1. SUFFICES ASSUME unpull[d] PROVE x.ticket
    OBVIOUS
  <2>2. /\ buffer[d].next < Len(buffer[d].items) /\ buffer[d].from = s
        /\ buffer[d].items[buffer[d].next + 1].ticket
    BY <2>1, <1>1, <1>2 DEF Hand
  <2>3. Held(s, d) >= 1
    BY <2>2, <1>1, PEntries, LenProperties DEF Held
  <2>4. x = buffer[d].items[buffer[d].next + 1]
    BY <2>2, <2>3, <1>2 DEF PacketAt
  <2> QED  BY <2>2, <2>4
<1>7. /\ unpull' = [unpull EXCEPT ![d] = unpull[d] /\ ~x.ticket]
      /\ incoming' = [incoming EXCEPT ![d] = IF x.ticket /\ ~unpull[d] THEN outgoing[s]
                                                                         ELSE incoming[d]]
      /\ got' = [got EXCEPT ![d][s] = Append(got[d][s], IF item.dest = d THEN item.n ELSE 0)]
  BY Zenon DEF Pulls, Takes, Took
<1>8. unpull'[d] = FALSE
  BY <1>1, <1>6, <1>7 DEF Types
<1>9. incoming'[d] = IF x.ticket /\ ~unpull[d] THEN outgoing[s] ELSE incoming[d]
  BY <1>1, <1>7 DEF Types
<1>10. x.ticket /\ ~unpull[d] =>
         Busy(s) /\ x.item = bigsent[s] /\ outgoing[s] = Numbered(d, n)
  BY <1>2, <1>5 DEF StandsFor, PutBackAt
<1>11. x.ticket /\ unpull[d] => incoming[d] = Numbered(d, n)
  BY <1>2, <1>5 DEF StandsFor, PutBackAt
<1>12. ~x.ticket => x.item = Numbered(d, n)
  BY <1>2, <1>5 DEF StandsFor
<1>13. item = Numbered(d, n)
  BY <1>9, <1>10, <1>11, <1>12
<1>14. n \in Nat
  BY <1>1, Entries
<1>15. got' = [got EXCEPT ![d][s] = Append(got[d][s], n)]
  <2> HIDE DEF item, n
  <2>1. item.dest = d /\ item.n = n
    BY <1>13, <1>14, NumberedType
  <2> QED  BY <1>7, <2>1
<1> QED  BY <1>4, <1>8, <1>10, <1>12, <1>13, <1>15

LEMMA PullTypes ==
  ASSUME LInv, NEW d \in PE, NEW s, NEW x, Pulls(s, d, x)
  PROVE  Types'
<1>1. s \in PE /\ Types /\ x \in PacketType
  BY DEF Pulls, LInv
<1>2. buffer' \in [PE -> BufferType] /\ link' \in [PE -> [PE -> Seq(PacketType)]]
  BY DEF Pulls, Moves
<1>3. got' \in [PE -> [PE -> Seq(Nat)]]
  <2> DEFINE v == Append(got[d][s], Len(got[d][s]) + 1)
  <2>1. v \in Seq(Nat)
    BY <1>1, Entries, AppendProperties
  <2>2. got' = [got EXCEPT ![d][s] = v]
    BY PullFinds
  <2> HIDE DEF v
  <2> QED  BY <1>1, <2>1, <2>2, Update2 DEF Types
<1>4. /\ bigpull'  = [bigpull EXCEPT ![d] = x.ticket]
      /\ unpull'   = [unpull EXCEPT ![d] = unpull[d] /\ ~x.ticket]
      /\ backup'   = [backup EXCEPT ![d] = TRUE]
      /\ incoming' = [incoming EXCEPT ![d] = IF x.ticket /\ ~unpull[d] THEN outgoing[s] ELSE incoming[d]]
      /\ acks'     = [acks EXCEPT ![s] =
           IF (x.ticket /\ ~unpull[d]) /\ kind = "put" THEN acks[s] \cup {x.item} ELSE acks[s]]
      /\ big_req'  = [big_req EXCEPT ![s] =
           IF (x.ticket /\ ~unpull[d]) /\ kind = "mpi" THEN "sent" ELSE big_req[s]]
  BY Zenon DEF Pulls, Takes
<1>5. UNCHANGED <<kind, drained, outgoing, bigsent, bigrcvd, full, state, over, at, pushed, round>>
  BY Zenon DEF Pulls, Takes
<1>6. x.ticket \in BOOLEAN /\ (x.ticket => x.item \in Nat)
  BY <1>1 DEF PacketType
<1>7. bigpull' \in [PE -> BOOLEAN] /\ unpull' \in [PE -> BOOLEAN] /\ backup' \in [PE -> BOOLEAN]
  BY <1>1, <1>4, <1>6 DEF Types
<1>8. incoming' \in [PE -> ItemType]
  BY <1>1, <1>4 DEF Types
<1>9. acks' \in [PE -> SUBSET Nat]
  <2>1. \E v \in SUBSET Nat : acks' = [acks EXCEPT ![s] = v]
    BY <1>1, <1>4, <1>6, PEntries
  <2> QED  BY <1>1, <2>1 DEF Types
<1>10. big_req' \in [PE -> {"null", "active", "sent"}]
  <2>1. \E v \in {"null", "active", "sent"} : big_req' = [big_req EXCEPT ![s] = v]
    <3>1. big_req[s] \in {"null", "active", "sent"}
      BY <1>1 DEF Types
    <3> QED  BY <3>1, <1>4
  <2> QED  BY <1>1, <2>1 DEF Types
<1> QED  BY <1>1, <1>2, <1>3, <1>5, <1>7, <1>8, <1>9, <1>10 DEF Types

\* A stream is kept when its packets and its item numbers are, and each packet
\* goes on standing for its item.
LEMMA StreamKept ==
  ASSUME Types, NEW q \in PE, NEW e \in PE, Stream(q, e), SamePackets(q, e),
         kind' = kind, got'[e][q] = got[e][q], pushed'[q][e] = pushed[q][e],
         \A i \in 1 .. Left(q, e) : \A n : StandsFor(q, e, i, n) => StandsFor(q, e, i, n)'
  PROVE  Stream(q, e)'
BY DEF Stream, InOrder, SamePackets

LEMMA PullOthers ==
  ASSUME LInv, NEW d \in PE, NEW s, NEW x, Pulls(s, d, x),
         NEW q \in PE, NEW e \in PE, q # s \/ e # d
  PROVE  Stream(q, e)'
<1> DEFINE m == Len(got[d][s]) + 1
<1>1. /\ s \in PE /\ Types /\ Stream(q, e) /\ kind # "trivial"
      /\ got' = [got EXCEPT ![d][s] = Append(got[d][s], m)]
      /\ unpull'[d] = FALSE
      /\ x.ticket /\ ~unpull[d] => outgoing[s] = Numbered(d, m)
  BY PullFinds DEF LInv, Pulls
<1> HIDE DEF m
<1>2. SamePackets(q, e)
  <2>1. CASE e # d
    BY <2>1, <1>1, SameLink DEF Pulls, Moves
  <2>2. CASE e = d
    BY <2>2, <1>1 DEF Pulls, Moves
  <2> QED  BY <2>1, <2>2
<1>3. /\ got'[e][q] = got[e][q] /\ pushed' = pushed /\ kind' = kind
      /\ outgoing' = outgoing /\ bigsent' = bigsent /\ bigrcvd' = bigrcvd
  BY <1>1 DEF Pulls, Takes, Types
<1>4. \A i : PutBackAt(q, e, i)' <=> PutBackAt(q, e, i)
  <2>1. CASE e # d
    <3>1. unpull'[e] = unpull[e] /\ buffer'[e] = buffer[e]
      BY <2>1, <1>1 DEF Pulls, Takes, Moves, Types
    <3> QED  BY <3>1 DEF PutBackAt
  <2>2. CASE e = d
    <3>1. unpull[d] => buffer[d].from = s
      BY DEF Pulls, Moves
    <3> QED  BY <2>2, <3>1, <1>1 DEF PutBackAt
  <2> QED  BY <2>1, <2>2
<1>5. \A i : PutBackAt(q, e, i) => incoming'[e] = incoming[e]
  <2>1. CASE e # d
    BY <2>1, <1>1 DEF Pulls, Takes, Types
  <2>2. CASE e = d
    BY <2>2, <1>1, <1>4 DEF PutBackAt
  <2> QED  BY <2>1, <2>2
<1>6. q # s \/ ~(x.ticket /\ ~unpull[d]) => Busy(q)' = Busy(q)
  <2>1. SUFFICES ASSUME q # s \/ ~(x.ticket /\ ~unpull[d]) PROVE Busy(q)' = Busy(q)
    OBVIOUS
  <2>2. acks'[q] = acks[q] /\ big_req'[q] = big_req[q]
    BY <2>1, <1>1 DEF Pulls, Takes, Types
  <2> QED  BY <2>2, <1>3 DEF Busy
<1>7. ASSUME NEW i \in 1 .. Left(q, e), NEW n, StandsFor(q, e, i, n)
      PROVE  StandsFor(q, e, i, n)'
  <2>1. PacketAt(q, e, i)' = PacketAt(q, e, i)
    BY <1>2 DEF SamePackets
  <2>2. CASE ~PacketAt(q, e, i).ticket
    BY <2>1, <2>2, <1>7 DEF StandsFor
  <2>3. CASE PacketAt(q, e, i).ticket /\ PutBackAt(q, e, i)
    BY <2>1, <2>3, <1>4, <1>5, <1>7 DEF StandsFor
  <2>4. CASE PacketAt(q, e, i).ticket /\ ~PutBackAt(q, e, i)
    <3>1. Busy(q) /\ PacketAt(q, e, i).item = bigsent[q] /\ outgoing[q] = Numbered(e, n)
      BY <2>4, <1>7 DEF StandsFor
    <3>2. ~(q = s /\ x.ticket /\ ~unpull[d])
      BY <3>1, <1>1, NumberedOnce
    <3>3. Busy(q)'
      BY <3>1, <3>2, <1>6
    <3> QED  BY <2>1, <2>4, <3>1, <3>3, <1>3, <1>4 DEF StandsFor
  <2> QED  BY <2>2, <2>3, <2>4
<1> QED  BY <1>1, <1>2, <1>3, <1>7, StreamKept

LEMMA SameStanding ==
  ASSUME NEW s, NEW d, NEW i, NEW j, NEW n, StandsFor(s, d, j, n),
         PacketAt(s, d, i)' = PacketAt(s, d, j),
         ~PutBackAt(s, d, j), ~PutBackAt(s, d, i)',
         PacketAt(s, d, j).ticket /\ outgoing[s] = Numbered(d, n) /\ Busy(s) => Busy(s)',
         bigsent' = bigsent, outgoing' = outgoing
  PROVE  StandsFor(s, d, i, n)'
<1> DEFINE x == PacketAt(s, d, j)
<1>1. CASE ~x.ticket
  <2>1. x.item = Numbered(d, n)
    BY <1>1 DEF StandsFor
  <2> QED  BY <1>1, <2>1 DEF StandsFor
<1>2. CASE x.ticket
  <2>1. Busy(s) /\ x.item = bigsent[s] /\ outgoing[s] = Numbered(d, n)
    BY <1>2 DEF StandsFor
  <2> QED  BY <1>2, <2>1 DEF StandsFor
<1> QED  BY <1>1, <1>2

LEMMA PullSelf ==
  ASSUME LInv, NEW d \in PE, NEW s, NEW x, Pulls(s, d, x)
  PROVE  Stream(s, d)'
<1>1. /\ s \in PE /\ Types /\ Stream(s, d) /\ Hand(d) /\ kind # "trivial"
      /\ got' = [got EXCEPT ![d][s] = Append(got[d][s], Len(got[d][s]) + 1)]
      /\ unpull'[d] = FALSE
      /\ x.ticket /\ ~unpull[d] => outgoing[s] = Numbered(d, Len(got[d][s]) + 1)
  BY PullFinds DEF LInv, Pulls
<1>2. /\ Len(got[d][s]) \in Nat /\ Left(s, d) \in Nat
      /\ got[d][s] \in Seq(Nat) /\ pushed[s][d] \in Nat
  BY <1>1, Entries, HeldType
<1>3. PICK a \in Nat : a = Len(got[d][s])
  BY <1>2
<1>4. PICK m \in Nat : m = a + 1
  OBVIOUS
<1>5. PICK l \in Nat : l = Left(s, d)
  BY <1>2
<1>6. /\ Len(got'[d][s]) = m /\ got'[d][s][m] = m
      /\ \A j \in 1 .. a : got'[d][s][j] = got[d][s][j]
  <2>1. got'[d][s] = Append(got[d][s], m)
    BY <1>1, <1>3, <1>4 DEF Types
  <2> QED  BY <2>1, <1>2, <1>3, <1>4, AppendProperties
<1>7. InOrder(s, d)'
  <2>1. ASSUME NEW j \in 1 .. m PROVE got'[d][s][j] = j
    <3>1. CASE j \in 1 .. a
      BY <3>1, <1>1, <1>3, <1>6 DEF Stream, InOrder
    <3>2. CASE j = m
      BY <3>2, <1>6
    <3> QED  BY <3>1, <3>2, <1>4
  <2> QED  BY <2>1, <1>6 DEF InOrder
<1>8. /\ Left(s, d)' = l - 1 /\ l > 0
      /\ \A i \in 1 .. l - 1 : PacketAt(s, d, i)' = PacketAt(s, d, i + 1)
      /\ UNCHANGED <<kind, pushed, outgoing, bigsent, bigrcvd>>
  BY <1>5 DEF Pulls, Moves, Takes
<1>9. a + l = pushed[s][d] /\ \A j \in 1 .. l : StandsFor(s, d, j, a + j)
  BY <1>1, <1>3, <1>5 DEF Stream
<1>10. m + (l - 1) = pushed'[s][d]
  BY <1>4, <1>8, <1>9
<1>11. ~(x.ticket /\ ~unpull[d]) => Busy(s)' = Busy(s)
  <2>1. SUFFICES ASSUME ~(x.ticket /\ ~unpull[d]) PROVE Busy(s)' = Busy(s)
    OBVIOUS
  <2>2. acks'[s] = acks[s] /\ big_req'[s] = big_req[s]
    BY <2>1, <1>1 DEF Pulls, Takes, Types
  <2> QED  BY <2>2, <1>8 DEF Busy
<1>12. ASSUME NEW i \in 1 .. l - 1 PROVE StandsFor(s, d, i, m + i)'
  <2>1. PICK j \in Nat : j = i + 1
    OBVIOUS
  <2>2. PICK n \in Nat : n = m + i
    OBVIOUS
  <2>3. j \in 1 .. l /\ a + j = n /\ n # m /\ j # 1
    BY <1>4, <2>1, <2>2
  <2>4. StandsFor(s, d, j, n)
    BY <2>3, <1>9
  <2>5. PacketAt(s, d, i)' = PacketAt(s, d, j)
    BY <1>8, <2>1
  <2>6. ~PutBackAt(s, d, j)
    BY <2>3 DEF PutBackAt
  <2>7. ~PutBackAt(s, d, i)'
    BY <1>1 DEF PutBackAt
  <2>8. outgoing[s] = Numbered(d, n) /\ Busy(s) => Busy(s)'
    <3>1. x.ticket /\ ~unpull[d] => outgoing[s] = Numbered(d, m)
      BY <1>1, <1>3, <1>4
    <3>2. Numbered(d, m) # Numbered(d, n)
      BY <2>3, NumberedOnce
    <3> QED  BY <3>1, <3>2, <1>11
  <2>9. bigsent' = bigsent /\ outgoing' = outgoing
    BY <1>8
  <2>10. StandsFor(s, d, i, n)'
    BY <2>4, <2>5, <2>6, <2>7, <2>8, <2>9, SameStanding
  <2> QED  BY <2>2, <2>10
<1> QED  BY <1>1, <1>6, <1>7, <1>8, <1>10, <1>12 DEF Stream

LEMMA PullRequested ==
  ASSUME LInv, NEW d \in PE, NEW s, NEW x, Pulls(s, d, x), NEW q \in PE
  PROVE  Requested(q)'
<1>1. /\ s \in PE /\ Types /\ Requested(q)
      /\ x.ticket /\ ~unpull[d] => Busy(s) /\ x.item = bigsent[s]
  BY PullFinds DEF LInv, Pulls
<1>2. UNCHANGED <<kind, bigsent, bigrcvd>>
  BY DEF Pulls, Takes
<1>3. acks' = [acks EXCEPT ![s] =
        IF (x.ticket /\ ~unpull[d]) /\ kind = "put" THEN acks[s] \cup {x.item} ELSE acks[s]]
  BY Zenon DEF Pulls, Takes
<1>4. CASE q = s /\ x.ticket /\ ~unpull[d] /\ kind = "put"
  <2>1. bigsent[s] = bigrcvd[s] + 1 /\ acks[s] = {} /\ x.item = bigsent[s]
    BY <1>4, <1>1 DEF Busy
  <2>2. acks'[s] = {bigsent[s]}
    BY <2>1, <1>1, <1>3, <1>4 DEF Types
  <2> QED  BY <1>4, <2>1, <2>2, <1>2 DEF Requested
<1>5. CASE ~(q = s /\ x.ticket /\ ~unpull[d] /\ kind = "put")
  <2>1. acks'[q] = acks[q]
    BY <1>1, <1>3, <1>5 DEF Types
  <2> QED  BY <1>1, <1>2, <2>1 DEF Requested
<1> QED  BY <1>4, <1>5

LEMMA PullHand ==
  ASSUME LInv, NEW d \in PE, NEW s, NEW x, Pulls(s, d, x), NEW e \in PE
  PROVE  Hand(e)'
<1>1. s \in PE /\ Types /\ Hand(e) /\ x \in PacketType
  BY DEF LInv, Pulls
<1>2. PICK a \in Nat : a = Len(got[d][s]) /\ got[d][s] \in Seq(Nat)
  BY <1>1, Entries
<1>3. PICK m \in Nat : m = a + 1
  OBVIOUS
<1>4. /\ s \in PE /\ Types /\ Hand(e) /\ unpull'[d] = FALSE /\ x \in PacketType
      /\ got' = [got EXCEPT ![d][s] = Append(got[d][s], m)]
      /\ IF x.ticket THEN incoming'[d] = Numbered(d, m) ELSE x.item = Numbered(d, m)
  <2>1. m = Len(got[d][s]) + 1
    BY <1>2, <1>3
  <2>2. /\ unpull'[d] = FALSE
        /\ got' = [got EXCEPT ![d][s] = Append(got[d][s], Len(got[d][s]) + 1)]
        /\ IF x.ticket THEN incoming'[d] = Numbered(d, Len(got[d][s]) + 1)
           ELSE x.item = Numbered(d, Len(got[d][s]) + 1)
    BY PullFinds
  <2> QED  BY <1>1, <2>1, <2>2, Zenon
<1>5. CASE e # d
  <2>1. /\ buffer'[e] = buffer[e] /\ unpull'[e] = unpull[e] /\ bigpull'[e] = bigpull[e]
        /\ backup'[e] = backup[e] /\ incoming'[e] = incoming[e] /\ got'[e] = got[e]
    BY <1>5, <1>4 DEF Pulls, Moves, Takes, Types
  <2> QED  BY <2>1, <1>4 DEF Hand
<1>6. CASE e = d
  <2>1. /\ buffer'[d].from = s /\ buffer'[d].next \in 1 .. Len(buffer'[d].items)
        /\ buffer'[d].items[buffer'[d].next] = x
        /\ buffer' \in [PE -> BufferType]
    BY DEF Pulls, Moves
  <2>2. bigpull'[d] = x.ticket
    BY <1>4 DEF Pulls, Takes, Types
  <2>3. Len(got'[d][s]) = m
    <3>1. got'[d][s] = Append(got[d][s], m)
      BY <1>4 DEF Types
    <3> QED  BY <3>1, <1>2, <1>3, AppendProperties
  <2>4. buffer'[d].next <= Len(buffer'[d].items)
    BY <2>1, LenProperties DEF BufferType
  <2>5. x.ticket \in BOOLEAN
    BY <1>4 DEF PacketType
  <2>6. m > 0
    BY <1>2, <1>3
  <2>7. x.ticket => incoming'[d] = Numbered(d, m)
    BY <1>4
  <2>8. ~x.ticket => x.item = Numbered(d, m)
    BY <1>4
  <2> QED  BY <1>4, <1>6, <2>1, <2>2, <2>3, <2>4, <2>6, <2>7, <2>8 DEF Hand
<1> QED  BY <1>5, <1>6

LEMMA PullEndings ==
  ASSUME LInv, NEW d \in PE, NEW s, NEW x, Pulls(s, d, x), NEW e \in PE
  PROVE  Endings(e)' /\ Single(e)' /\ Common'
<1>1. /\ s \in PE /\ Types /\ Endings(e) /\ Single(e) /\ Common /\ kind # "trivial"
      /\ Left(s, d) > 0 /\ state[d] # "dormant"
  BY PullFinds DEF LInv, Pulls, Moves
<1>2. UNCHANGED <<kind, state, at, drained, over, full, round>>
  BY DEF Pulls, Takes
<1>3. Ended(e) => Ended(e)'
  <2>1. SUFFICES ASSUME Ended(e) PROVE Ended(e)'
    OBVIOUS
  <2>2. e # d
    <3>1. SUFFICES ASSUME e = d PROVE FALSE
      OBVIOUS
    <3>2. link[s][d] = <<>> /\ buffer[d] = NoBuffer
      BY <2>1, <1>1, <3>1 DEF Ended
    <3>3. Held(s, d) = 0
      BY <3>2, <1>1 DEF Held, NoBuffer, PE
    <3> QED  BY <3>2, <3>3, <1>1 DEF Left
  <2>3. buffer'[e] = buffer[e] /\ \A q \in PE : link'[q][e] = link[q][e]
    BY <2>2 DEF Pulls, Moves
  <2> QED  BY <2>1, <2>3, <1>2 DEF Ended
<1>4. Endings(e)'
  BY <1>1, <1>2, <1>3 DEF Endings
<1>5. Single(e)'
  BY <1>1, <1>2 DEF Single
<1>6. Common'
  <2>1. \A p \in PE : state[p] # "dormant"
    BY <1>1 DEF Common
  <2> QED  BY <2>1, <1>1, <1>2 DEF Common
<1> QED  BY <1>4, <1>5, <1>6

LEMMA PullInv ==
  ASSUME LInv, NEW d \in PE, NEW s, NEW x, Pulls(s, d, x)
  PROVE  LInv'
<1>1. \A q, e \in PE : Stream(q, e)'
  <2> SUFFICES ASSUME NEW q \in PE, NEW e \in PE PROVE Stream(q, e)'
    OBVIOUS
  <2> QED  BY PullOthers, PullSelf
<1>2. Types'
  BY PullTypes
<1>3. \A q \in PE : Requested(q)' /\ Hand(q)' /\ Single(q)' /\ Endings(q)'
  BY PullRequested, PullHand, PullEndings
<1>4. Common'
  BY PullEndings
<1> QED  BY <1>1, <1>2, <1>3, <1>4 DEF LInv

LEMMA PullReceives ==
  ASSUME LInv, NEW d \in PE, NEW s, NEW x, Pulls(s, d, x)
  PROVE  Links!Receive(d, s) /\ Links!Together
<1>1. /\ s \in PE /\ Types /\ Stream(s, d) /\ kind # "trivial"
      /\ got' = [got EXCEPT ![d][s] = Append(got[d][s], Len(got[d][s]) + 1)]
      /\ Left(s, d) > 0 /\ Hand(d)
  <2>1. s \in PE /\ Types /\ Stream(s, d) /\ Left(s, d) > 0 /\ Hand(d)
    BY DEF LInv, Pulls, Moves
  <2> QED  BY <2>1, PullFinds
<1>2. Len(got[d][s]) < pushed[s][d]
  BY <1>1, HeldType, Entries DEF Stream
<1>3. UNCHANGED <<pushed, over, state, round>>
  BY DEF Pulls, Takes
<1>4. Links!Together
  BY DEF LInv, Common, Links!Together
<1> QED  BY <1>1, <1>2, <1>3, <1>4 DEF Links!Receive

-----------------------------------------------------------------------------
(* A push keeps the invariant *)

LEMMA StreamStays ==
  ASSUME Types, NEW q \in PE, NEW e \in PE, Stream(q, e), SamePackets(q, e),
         kind' = kind, got'[e][q] = got[e][q], pushed'[q][e] = pushed[q][e],
         unpull'[e] = unpull[e], incoming'[e] = incoming[e],
         unpull[e] => buffer'[e] = buffer[e],
         Busy(q) => /\ Busy(q)'
                    /\ bigsent'[q] = bigsent[q] /\ outgoing'[q] = outgoing[q]
  PROVE  Stream(q, e)'
<1>1. ASSUME NEW i \in 1 .. Left(q, e), NEW n, StandsFor(q, e, i, n)
      PROVE  StandsFor(q, e, i, n)'
  <2>1. PacketAt(q, e, i)' = PacketAt(q, e, i)
    BY DEF SamePackets
  <2>2. PutBackAt(q, e, i)' <=> PutBackAt(q, e, i)
    BY DEF PutBackAt
  <2> QED  BY <1>1, <2>1, <2>2 DEF StandsFor
<1> QED  BY <1>1, StreamKept

LEMMA PacketIs ==
  ASSUME NEW p, NEW d, NEW h, NEW t, NEW b
  PROVE  /\ Held(p, d) = h /\ link[p][d] = t /\ buffer[d] = b =>
              \A i : PacketAt(p, d, i) = IF i <= h THEN b.items[b.next + i] ELSE t[i - h]
         /\ Held(p, d)' = h /\ link'[p][d] = t /\ buffer'[d] = b =>
              \A i : PacketAt(p, d, i)' = IF i <= h THEN b.items[b.next + i] ELSE t[i - h]
BY Zenon DEF PacketAt

\* Sequence v is t and, behind it, x.
Grown(t, v, x) ==
  /\ v \in Seq(PacketType) /\ Len(v) = Len(t) + 1 /\ v[Len(t) + 1] = x
  /\ \A i \in 1 .. Len(t) : v[i] = t[i]

LEMMA AppendGrown ==
  ASSUME NEW t \in Seq(PacketType), NEW x \in PacketType
  PROVE  Grown(t, Append(t, x), x)
BY AppendProperties DEF Grown

LEMMA Appended ==
  ASSUME Types, NEW p \in PE, NEW d \in PE, Hand(d), NEW x \in PacketType,
         Grown(link[p][d], link'[p][d], x),
         \A e \in PE : buffer'[e] = buffer[e],
         \A q, e \in PE : q # p \/ e # d => link'[q][e] = link[q][e],
         NEW l \in Nat, l = Left(p, d), NEW k, k = l + 1
  PROVE  /\ Left(p, d)' = k /\ PacketAt(p, d, k)' = x
         /\ \A i \in 1 .. l : PacketAt(p, d, i)' = PacketAt(p, d, i)
         /\ \A q, e \in PE : q # p \/ e # d => SamePackets(q, e)
<1>1. PICK h \in Nat : h = Held(p, d)
  BY HeldType
<1>2. PICK s \in Seq(PacketType) : s = link[p][d]
  BY Entries
<1>3. Len(s) \in Nat /\ l = h + Len(s)
  BY <1>1, <1>2, LenProperties DEF Left
<1>4. PICK v \in Seq(PacketType) :
        /\ v = link'[p][d] /\ Len(v) = Len(s) + 1 /\ v[Len(s) + 1] = x
        /\ \A i \in 1 .. Len(s) : v[i] = s[i]
  BY <1>2 DEF Grown
<1>6. Held(p, d)' = h
  BY <1>1 DEF Held
<1>7. Left(p, d)' = k
  BY <1>3, <1>4, <1>6 DEF Left
<1>8. /\ \A i : PacketAt(p, d, i)' = IF i <= h THEN buffer[d].items[buffer[d].next + i]
                                  ELSE v[i - h]
      /\ \A i : PacketAt(p, d, i) = IF i <= h THEN buffer[d].items[buffer[d].next + i]
                                    ELSE s[i - h]
  <2>1. PICK b : b = buffer[d]
    OBVIOUS
  <2>2. Held(p, d) = h /\ link[p][d] = s /\ buffer[d] = b
    BY <1>1, <1>2, <2>1
  <2>3. Held(p, d)' = h /\ link'[p][d] = v /\ buffer'[d] = b
    BY <1>4, <1>6, <2>1
  <2>4. \A i : PacketAt(p, d, i) = IF i <= h THEN b.items[b.next + i] ELSE s[i - h]
    BY <2>2, PacketIs
  <2>5. \A i : PacketAt(p, d, i)' = IF i <= h THEN b.items[b.next + i] ELSE v[i - h]
    BY <2>3, PacketIs
  <2> QED  BY <2>1, <2>4, <2>5
<1>9. PacketAt(p, d, k)' = x
  <2>1. ~(k <= h) /\ k - h = Len(s) + 1
    BY <1>3
  <2> QED  BY <2>1, <1>4, <1>8
<1>10. ASSUME NEW i \in 1 .. l PROVE PacketAt(p, d, i)' = PacketAt(p, d, i)
  <2>1. CASE i <= h
    BY <2>1, <1>8
  <2>2. CASE ~(i <= h)
    <3>1. PICK j \in 1 .. Len(s) : j = i - h
      <4>1. i - h \in 1 .. Len(s)
        BY <2>2, <1>3
      <4> QED  BY <4>1
    <3>2. PacketAt(p, d, i)' = v[j] /\ PacketAt(p, d, i) = s[j]
      BY <3>1, <2>2, <1>8
    <3> QED  BY <3>2, <1>4
  <2> QED  BY <2>1, <2>2
<1>11. \A q, e \in PE : q # p \/ e # d => SamePackets(q, e)
  BY SameLink
<1> QED  BY <1>7, <1>9, <1>10, <1>11

\* A push of packet x by p to d: a small item, or the ticket of a large one
Pushes(p, d, x) ==
  /\ kind # "trivial" /\ x \in PacketType
  /\ at[p] = "client" /\ state[p] = "working" /\ ~over[p]
  /\ link'   = [link EXCEPT ![p][d] = Append(link[p][d], x)]
  /\ pushed' = [pushed EXCEPT ![p][d] = pushed[p][d] + 1]
  /\ UNCHANGED <<kind, buffer, drained, bigrcvd, acks, incoming, bigpull, unpull,
                 backup, full, state, over, at, got, round>>
  /\ \/ /\ ~x.ticket /\ x.item = Item(p, d)
        /\ UNCHANGED <<outgoing, bigsent, big_req>>
     \/ /\ x.ticket /\ x.item = bigsent[p] + 1 /\ monster_can_send(p)
        /\ outgoing' = [outgoing EXCEPT ![p] = Item(p, d)]
        /\ bigsent'  = [bigsent EXCEPT ![p] = bigsent[p] + 1]
        /\ big_req'  = [big_req EXCEPT ![p] = IF kind = "mpi" THEN "active" ELSE big_req[p]]

LEMMA PacketTypes ==
  ASSUME Types, NEW p \in PE, NEW d \in PE
  PROVE  /\ Packet(FALSE, Item(p, d)) \in PacketType
         /\ Packet(TRUE, bigsent[p] + 1) \in PacketType
         /\ Item(p, d) = Numbered(d, pushed[p][d] + 1)
<1>1. Item(p, d) \in ItemType
  BY Entries DEF Item, ItemType, PE
<1> QED  BY <1>1, PEntries DEF Packet, PacketType, Item, Numbered

LEMMA PushSmallPushes ==
  ASSUME Types, NEW p \in PE, NEW d \in PE, PushSmall(p, d)
  PROVE  Pushes(p, d, Packet(FALSE, Item(p, d)))
<1> DEFINE x == Packet(FALSE, Item(p, d))
<1>1. x \in PacketType /\ ~x.ticket /\ x.item = Item(p, d)
  BY PacketTypes DEF Packet
<1>2. /\ link'   = [link EXCEPT ![p][d] = Append(link[p][d], x)]
      /\ pushed' = [pushed EXCEPT ![p][d] = pushed[p][d] + 1]
  BY Zenon DEF PushSmall
<1>3. /\ UNCHANGED <<setting, buffer, drained, sending, pulling, full, control, got, round>>
      /\ kind # "trivial" /\ MayPush(p, d)
  BY Zenon DEF PushSmall
<1>4. UNCHANGED <<kind, buffer, drained, bigrcvd, acks, incoming, bigpull, unpull, backup,
                  full, state, over, at, got, round, outgoing, bigsent, big_req>>
  BY <1>3 DEF setting, sending, pulling, control
<1> HIDE DEF x
<1>5. Pushes(p, d, x)
  BY <1>1, <1>2, <1>3, <1>4 DEF Pushes, MayPush
<1> QED  BY <1>5 DEF x

LEMMA PushMonsterPushes ==
  ASSUME Types, NEW p \in PE, NEW d \in PE, PushMonster(p, d), HasRoom(p, d)
  PROVE  Pushes(p, d, Packet(TRUE, bigsent[p] + 1))
<1> DEFINE x == Packet(TRUE, bigsent[p] + 1)
<1>1. x \in PacketType /\ x.ticket /\ x.item = bigsent[p] + 1
  BY PacketTypes DEF Packet
<1>2. /\ link'   = [link EXCEPT ![p][d] = Append(link[p][d], x)]
      /\ pushed' = [pushed EXCEPT ![p][d] = pushed[p][d] + 1]
      /\ outgoing' = [outgoing EXCEPT ![p] = Item(p, d)]
      /\ bigsent'  = [bigsent EXCEPT ![p] = bigsent[p] + 1]
  BY Zenon DEF PushMonster
<1>3. big_req' = [big_req EXCEPT ![p] = IF kind = "mpi" THEN "active" ELSE big_req[p]]
  <2>1. CASE kind = "mpi"
    BY <2>1 DEF PushMonster
  <2>2. CASE kind # "mpi"
    BY <2>2 DEF PushMonster
  <2> QED  BY <2>1, <2>2
<1>4. /\ UNCHANGED <<setting, buffer, drained, bigrcvd, acks, pulling, full, control, got, round>>
      /\ kind # "trivial" /\ MayPush(p, d) /\ monster_can_send(p)
  BY Zenon DEF PushMonster
<1>5. UNCHANGED <<kind, buffer, drained, bigrcvd, acks, incoming, bigpull, unpull, backup,
                  full, state, over, at, got, round>>
  BY <1>4 DEF setting, pulling, control
<1> HIDE DEF x
<1>6. Pushes(p, d, x)
  BY <1>1, <1>2, <1>3, <1>4, <1>5 DEF Pushes, MayPush
<1> QED  BY <1>6 DEF x

\* The last large item of a sender that may send another has been fetched.
LEMMA CanSend ==
  ASSUME LInv, NEW p \in PE, monster_can_send(p)
  PROVE  /\ ~Busy(p)
         /\ kind = "put" => bigsent[p] = bigrcvd[p] /\ acks[p] = {}
<1>1. Types /\ Requested(p)
  BY DEF LInv
<1>2. bigsent[p] \in Nat /\ bigrcvd[p] \in Nat
  BY <1>1, PEntries
<1> QED  BY <1>1, <1>2 DEF monster_can_send, Busy, Requested

LEMMA PushOthers ==
  ASSUME LInv, NEW p \in PE, NEW d \in PE, NEW x, Pushes(p, d, x),
         NEW q \in PE
  PROVE  Busy(q) => Busy(q)' /\ bigsent'[q] = bigsent[q] /\ outgoing'[q] = outgoing[q]
<1>1. Types
  BY DEF LInv
<1>2. CASE UNCHANGED <<outgoing, bigsent, big_req>>
  BY <1>2 DEF Pushes, Busy
<1>3. CASE q # p
  BY <1>1, <1>3 DEF Pushes, Busy, Types
<1>4. CASE q = p /\ monster_can_send(p)
  BY <1>4, CanSend
<1> QED  BY <1>2, <1>3, <1>4 DEF Pushes

LEMMA PushStream ==
  ASSUME LInv, NEW p \in PE, NEW d \in PE, NEW x, Pushes(p, d, x)
  PROVE  Stream(p, d)'
<1>1. Types /\ Stream(p, d) /\ Hand(d) /\ Requested(p) /\ kind # "trivial" /\ x \in PacketType
  BY DEF LInv, Pushes
<1>2. /\ Len(got[d][p]) \in Nat /\ Left(p, d) \in Nat /\ pushed[p][d] \in Nat
  BY <1>1, Entries, HeldType
<1>3. PICK a \in Nat : a = Len(got[d][p])
  BY <1>2
<1>4. PICK l \in Nat : l = Left(p, d)
  BY <1>2
<1>5. PICK k \in Nat : k = l + 1
  OBVIOUS
<1>6. PICK n \in Nat : n = pushed[p][d] + 1
  BY <1>2
<1>7. /\ Left(p, d)' = k /\ PacketAt(p, d, k)' = x
      /\ \A i \in 1 .. l : PacketAt(p, d, i)' = PacketAt(p, d, i)
  <2>1. link[p][d] \in Seq(PacketType)
    BY <1>1, Entries
  <2>2. Grown(link[p][d], Append(link[p][d], x), x)
    BY <2>1, <1>1, AppendGrown
  <2>3. /\ Grown(link[p][d], link'[p][d], x) /\ \A e \in PE : buffer'[e] = buffer[e]
        /\ \A q, e \in PE : q # p \/ e # d => link'[q][e] = link[q][e]
    <3>1. link' = [link EXCEPT ![p][d] = Append(link[p][d], x)] /\ buffer' = buffer
      BY Zenon DEF Pushes
    <3>2. /\ link'[p][d] = Append(link[p][d], x)
          /\ \A q, e \in PE : q # p \/ e # d => link'[q][e] = link[q][e]
      BY <3>1, <1>1 DEF Types
    <3> QED  BY <3>1, <3>2, <2>2
  <2>4. /\ Types /\ Hand(d) /\ x \in PacketType /\ l \in Nat /\ l = Left(p, d) /\ k = l + 1
    BY <1>1, <1>4, <1>5
  <2>5. /\ Left(p, d)' = k /\ PacketAt(p, d, k)' = x
    BY <2>3, <2>4, Appended
  <2>6. \A i \in 1 .. l : PacketAt(p, d, i)' = PacketAt(p, d, i)
    BY <2>3, <2>4, Appended
  <2> QED  BY <2>5, <2>6
<1>8. a + l = pushed[p][d] /\ \A i \in 1 .. l : StandsFor(p, d, i, a + i)
  BY <1>1, <1>3, <1>4 DEF Stream
<1>9. a + k = n
  BY <1>2, <1>5, <1>6, <1>8
<1>10. /\ UNCHANGED <<kind, got, buffer, unpull, incoming>>
       /\ pushed'[p][d] = n
  BY <1>1, <1>6 DEF Pushes, Types
<1>11. ASSUME NEW i \in 1 .. l PROVE StandsFor(p, d, i, a + i)'
  <2>1. PacketAt(p, d, i)' = PacketAt(p, d, i)
    BY <1>7
  <2>2. PutBackAt(p, d, i)' <=> PutBackAt(p, d, i)
    BY <1>10 DEF PutBackAt
  <2>3. Busy(p) => Busy(p)' /\ bigsent'[p] = bigsent[p] /\ outgoing'[p] = outgoing[p]
    BY PushOthers
  <2>4. PICK m : m = a + i
    OBVIOUS
  <2>5. StandsFor(p, d, i, m)
    BY <1>8, <2>4
  <2>6. StandsFor(p, d, i, m)'
    BY <1>10, <2>1, <2>2, <2>3, <2>5 DEF StandsFor
  <2> QED  BY <2>4, <2>6
<1>12. StandsFor(p, d, k, n)'
  <2>1. Item(p, d) = Numbered(d, n)
    BY <1>1, <1>6, PacketTypes
  <2>2. CASE ~x.ticket
    <3>1. x.item = Numbered(d, n)
      BY <2>1, <2>2 DEF Pushes
    <3> QED  BY <2>2, <3>1, <1>7 DEF StandsFor
  <2>3. CASE x.ticket
    <3>1. /\ x.item = bigsent[p] + 1 /\ monster_can_send(p)
          /\ outgoing'[p] = Numbered(d, n) /\ bigsent'[p] = bigsent[p] + 1
          /\ kind = "mpi" => big_req'[p] = "active"
          /\ bigrcvd' = bigrcvd /\ acks' = acks
      BY <1>1, <2>1, <2>3 DEF Pushes, Types
    <3>2. Busy(p)'
      <4>1. CASE kind = "mpi"
        BY <3>1, <4>1, <1>10 DEF Busy
      <4>2. CASE kind = "put"
        <5>1. bigsent[p] = bigrcvd[p] /\ acks[p] = {}
          BY <3>1, <4>2, CanSend
        <5> QED  BY <3>1, <4>2, <5>1, <1>10 DEF Busy
      <4> QED  BY <4>1, <4>2, <1>1 DEF Types
    <3>3. ~PutBackAt(p, d, k)'
      <4>1. SUFFICES ASSUME unpull[d] /\ buffer[d].from = p /\ k = 1 PROVE FALSE
        BY <1>10 DEF PutBackAt
      <4>2. buffer[d].next < Len(buffer[d].items)
        BY <4>1, <1>1 DEF Hand
      <4>3. Held(p, d) >= 1
        BY <4>1, <4>2, <1>1, PEntries, LenProperties DEF Held
      <4>4. Left(p, d) = 0
        BY <4>1, <1>4, <1>5
      <4>5. Held(p, d) \in Nat /\ Len(link[p][d]) \in Nat
        BY <1>1, HeldType, Entries
      <4> QED  BY <4>3, <4>4, <4>5 DEF Left
    <3> QED  BY <3>1, <3>2, <3>3, <2>3, <1>7 DEF StandsFor
  <2>4. x.ticket \in BOOLEAN
    BY <1>1 DEF PacketType
  <2> QED  BY <2>2, <2>3, <2>4
<1>13. ASSUME NEW i \in 1 .. k PROVE StandsFor(p, d, i, a + i)'
  <2>1. CASE i \in 1 .. l
    BY <2>1, <1>11
  <2>2. CASE i = k
    BY <2>2, <1>9, <1>12
  <2> QED  BY <2>1, <2>2, <1>5
<1>14. InOrder(p, d)'
  BY <1>1, <1>10 DEF Stream, InOrder
<1>15. Len(got'[d][p]) = a
  BY <1>3, <1>10
<1> QED  BY <1>7, <1>9, <1>10, <1>13, <1>14, <1>15 DEF Stream

LEMMA PushInv ==
  ASSUME LInv, NEW p \in PE, NEW d \in PE, NEW x, Pushes(p, d, x), Types'
  PROVE  LInv'
<1>1. /\ Types /\ kind # "trivial" /\ x \in PacketType /\ ~over[p]
      /\ \A q, e \in PE : Stream(q, e)
      /\ \A q \in PE : Requested(q) /\ Hand(q) /\ Single(q) /\ Endings(q)
      /\ Common
  BY DEF LInv, Pushes
<1>2. UNCHANGED <<kind, buffer, drained, bigrcvd, acks, incoming, bigpull, unpull,
                  backup, full, state, over, at, got, round>>
  BY DEF Pushes
<1>3. ASSUME NEW q \in PE, NEW e \in PE PROVE Stream(q, e)'
  <2>1. CASE q = p /\ e = d
    BY <2>1, PushStream
  <2>2. CASE q # p \/ e # d
    <3>1. link'[q][e] = link[q][e] /\ pushed'[q][e] = pushed[q][e]
      <4>1. /\ link'   = [link EXCEPT ![p][d] = Append(link[p][d], x)]
            /\ pushed' = [pushed EXCEPT ![p][d] = pushed[p][d] + 1]
        BY Zenon DEF Pushes
      <4>2. link'[q][e] = link[q][e]
        BY <2>2, <4>1, <1>1 DEF Types
      <4>3. pushed'[q][e] = pushed[q][e]
        BY <2>2, <4>1, <1>1 DEF Types
      <4> QED  BY <4>2, <4>3
    <3>2. SamePackets(q, e)
      BY <3>1, <1>2, SameLink
    <3>3. Busy(q) => Busy(q)' /\ bigsent'[q] = bigsent[q] /\ outgoing'[q] = outgoing[q]
      BY PushOthers
    <3> QED  BY <3>1, <3>2, <3>3, <1>1, <1>2, StreamStays
  <2> QED  BY <2>1, <2>2
<1>4. ASSUME NEW q \in PE PROVE Requested(q)'
  <2>1. CASE bigsent'[q] = bigsent[q]
    BY <2>1, <1>1, <1>2 DEF Requested
  <2>2. CASE q = p /\ monster_can_send(p) /\ bigsent'[p] = bigsent[p] + 1
    BY <2>2, <1>1, <1>2, CanSend DEF Requested
  <2>3. bigsent'[q] = bigsent[q] \/ (q = p /\ monster_can_send(p) /\ bigsent'[p] = bigsent[p] + 1)
    <3>1. CASE bigsent' = bigsent
      BY <3>1
    <3>2. CASE monster_can_send(p) /\ bigsent' = [bigsent EXCEPT ![p] = bigsent[p] + 1]
      BY <3>2, <1>1 DEF Types
    <3>3. bigsent' = bigsent \/ (/\ monster_can_send(p)
                                /\ bigsent' = [bigsent EXCEPT ![p] = bigsent[p] + 1])
      BY Zenon DEF Pushes
    <3> QED  BY <3>1, <3>2, <3>3
  <2> QED  BY <2>1, <2>2, <2>3
<1>5. ASSUME NEW q \in PE PROVE Hand(q)'
  BY <1>1, <1>2 DEF Hand
<1>6. ASSUME NEW q \in PE PROVE Single(q)'
  BY <1>1, <1>2 DEF Single
<1>7. ASSUME NEW q \in PE PROVE Endings(q)'
  <2>1. ~Ended(q)
    BY <1>1 DEF Ended
  <2> QED  BY <2>1, <1>1, <1>2 DEF Endings
<1>8. Common'
  BY <1>1, <1>2 DEF Common
<1> QED  BY <1>3, <1>4, <1>5, <1>6, <1>7, <1>8 DEF LInv

\* Nothing but the outgoing item changes if the ticket does not fit.
LEMMA PushStays ==
  ASSUME LInv, NEW p \in PE, NEW d \in PE, PushMonster(p, d), ~HasRoom(p, d)
  PROVE  LInv' /\ UNCHANGED Links!vars
<1>1. /\ Types /\ \A q, e \in PE : Stream(q, e)
      /\ \A q \in PE : Requested(q) /\ Hand(q) /\ Single(q) /\ Endings(q)
      /\ Common
  BY DEF LInv
<1>2. Types'
  BY <1>1, PushTypes
<1>3. /\ link'   = [link EXCEPT ![p][d] = link[p][d]]
      /\ pushed' = [pushed EXCEPT ![p][d] = pushed[p][d] + 0]
      /\ outgoing' = [outgoing EXCEPT ![p] = Item(p, d)]
      /\ bigsent'  = [bigsent EXCEPT ![p] = bigsent[p] + 0]
  BY Zenon DEF PushMonster
<1>4. link' = link /\ pushed' = pushed /\ bigsent' = bigsent
  <2>1. bigsent[p] + 0 = bigsent[p] /\ pushed[p][d] + 0 = pushed[p][d]
    BY <1>1, PEntries, Entries
  <2> QED  BY <1>1, <1>3, <2>1 DEF Types
<1>5. /\ UNCHANGED <<setting, buffer, drained, bigrcvd, acks, pulling, full, control, got, round>>
      /\ kind # "trivial" /\ monster_can_send(p)
  BY Zenon DEF PushMonster
<1>6. UNCHANGED <<kind, buffer, drained, bigrcvd, acks, incoming, bigpull, unpull, backup,
                  full, state, over, at, got, round>>
  BY <1>5 DEF setting, pulling, control
<1>7. \A q \in PE : q # p => outgoing'[q] = outgoing[q] /\ big_req'[q] = big_req[q]
  BY <1>1 DEF PushMonster, Types
<1>8. ASSUME NEW q \in PE
      PROVE  Busy(q) => Busy(q)' /\ bigsent'[q] = bigsent[q] /\ outgoing'[q] = outgoing[q]
  <2>1. CASE q = p
    BY <2>1, <1>5, CanSend
  <2>2. CASE q # p
    BY <2>2, <1>4, <1>6, <1>7 DEF Busy
  <2> QED  BY <2>1, <2>2
<1>9. ASSUME NEW q \in PE, NEW e \in PE PROVE Stream(q, e)'
  <2>1. SamePackets(q, e)
    BY <1>4, <1>6, SameLink
  <2> QED  BY <2>1, <1>1, <1>4, <1>6, <1>8, StreamStays
<1>10. ASSUME NEW q \in PE PROVE Requested(q)' /\ Hand(q)' /\ Single(q)' /\ Endings(q)'
  <2>1. Requested(q)' /\ Hand(q)'
    BY <1>1, <1>4, <1>6 DEF Requested, Hand
  <2>2. Single(q)'
    BY <1>1, <1>5, <1>6 DEF Single
  <2>3. Endings(q)'
    BY <1>1, <1>4, <1>6 DEF Endings, Ended
  <2> QED  BY <2>1, <2>2, <2>3
<1>11. Common'
  BY <1>1, <1>6 DEF Common
<1>12. LInv'
  BY <1>2, <1>9, <1>10, <1>11 DEF LInv
<1> QED  BY <1>12, <1>4, <1>6 DEF Links!vars

LEMMA Togetherness ==
  ASSUME LInv
  PROVE  Links!Together
BY DEF LInv, Common, Links!Together

LEMMA PushSends ==
  ASSUME LInv, NEW p \in PE, NEW d \in PE, NEW x, Pushes(p, d, x)
  PROVE  Links!Send(p, d)
BY DEF Pushes, Links!Send

LEMMA PushTrivialSends ==
  ASSUME LInv, NEW p \in PE, PushTrivial(p)
  PROVE  LInv' /\ Links!Send(p, p)
<1>1. /\ Types /\ \A q, e \in PE : Stream(q, e)
      /\ \A q \in PE : Requested(q) /\ Hand(q) /\ Single(q) /\ Endings(q)
      /\ Common
  BY DEF LInv
<1>2. Types'
  BY <1>1, PushTypes
<1>3. /\ kind = "trivial" /\ ~over[p] /\ ~full[p] /\ state[p] = "working" /\ at[p] = "client"
      /\ outgoing' = [outgoing EXCEPT ![p] = Item(p, p)]
      /\ full'     = [full EXCEPT ![p] = TRUE]
      /\ pushed'   = [pushed EXCEPT ![p][p] = pushed[p][p] + 1]
      /\ UNCHANGED <<setting, packets, bigsent, bigrcvd, big_req, acks, pulling, control, got, round>>
  BY Zenon DEF PushTrivial, MayPush
<1>4. UNCHANGED <<kind, link, buffer, drained, bigsent, bigrcvd, acks, incoming, bigpull,
                  unpull, backup, state, over, at, got, round>>
  BY <1>3 DEF setting, packets, pulling, control
<1>5. ASSUME NEW q \in PE, NEW e \in PE PROVE Stream(q, e)'
  BY <1>1, <1>3, <1>4 DEF Stream, InOrder
<1>6. ASSUME NEW q \in PE PROVE Requested(q)' /\ Hand(q)'
  BY <1>1, <1>4 DEF Requested, Hand
<1>7. ASSUME NEW q \in PE PROVE Endings(q)'
  <2>1. ~Ended(q)
    BY <1>3 DEF Ended
  <2>2. at[q] = "begin" => state[q] = "dormant" /\ ~full[q] /\ ~drained[q]
    BY <1>1 DEF Endings
  <2>3. at[q] = "begin" => full'[q] = full[q]
    BY <1>1, <1>3 DEF Types
  <2> QED  BY <2>1, <2>2, <2>3, <1>1, <1>4 DEF Endings
<1>8. ASSUME NEW q \in PE PROVE Single(q)'
  <2>1. CASE q # p
    <3>1. full'[q] = full[q] /\ pushed'[q] = pushed[q] /\ outgoing'[q] = outgoing[q]
      BY <2>1, <1>1, <1>3 DEF Types
    <3> QED  BY <3>1, <1>1, <1>4 DEF Single
  <2>2. CASE q = p
    <3>1. PICK n \in Nat : n = pushed[p][p]
      BY <1>1, Entries
    <3>2. PICK m \in Nat : m = n + 1
      OBVIOUS
    <3>3. /\ full'[p] = TRUE /\ pushed'[p][p] = m /\ outgoing'[p] = Numbered(p, m)
          /\ \A e \in PE \ {p} : pushed'[p][e] = pushed[p][e]
      <4>1. Item(p, p) = Numbered(p, m)
        BY <1>1, <3>1, <3>2, PacketTypes
      <4>2. pushed' = [pushed EXCEPT ![p][p] = m]
        BY <3>1, <3>2, <1>3
      <4> QED  BY <4>1, <4>2, <1>1, <1>3 DEF Types
    <3>4. Len(got[p][p]) = n
      <4>1. Len(got[p][p]) + 0 = n /\ Len(got[p][p]) \in Nat
        BY <1>1, <1>3, <3>1, Entries DEF Single
      <4> QED  BY <4>1
    <3>5. Len(got'[p][p]) + 1 = m
      BY <3>2, <3>4, <1>4
    <3>6. /\ buffer[p] = NoBuffer /\ ~drained[p] /\ \A e \in PE : link[p][e] = <<>>
          /\ \A e \in PE \ {p} : pushed[p][e] = 0 /\ got[e][p] = <<>>
      BY <1>1, <1>3 DEF Single
    <3>7. /\ buffer'[p] = NoBuffer /\ ~drained'[p] /\ \A e \in PE : link'[p][e] = <<>>
          /\ \A e \in PE \ {p} : pushed'[p][e] = 0 /\ got'[e][p] = <<>>
          /\ kind' = "trivial"
      BY <3>3, <3>6, <1>3, <1>4
    <3>8. /\ Len(got'[p][p]) + (IF full'[p] THEN 1 ELSE 0) = pushed'[p][p]
          /\ outgoing'[p] = Numbered(p, pushed'[p][p])
      BY <3>3, <3>5
    <3> QED  BY <2>2, <3>7, <3>8 DEF Single
  <2> QED  BY <2>1, <2>2
<1>9. Common'
  BY <1>1, <1>4 DEF Common
<1>10. LInv'
  BY <1>2, <1>5, <1>6, <1>7, <1>8, <1>9 DEF LInv
<1> QED  BY <1>10, <1>3, <1>4 DEF Links!Send

-----------------------------------------------------------------------------
(* A client gives back the item it has pulled last *)

\* PE d gives back packet x, from s.
GivesPacket(s, d, x) ==
  LET b == buffer[d]
  IN /\ s = b.from /\ s \in PE /\ b.next \in 1 .. Len(b.items) /\ x = b.items[b.next]
     /\ kind # "trivial" /\ state[d] # "dormant" /\ ~unpull[d]
     /\ got[d][s] # <<>> /\ x.ticket = bigpull[d]
     /\ IF x.ticket THEN incoming[d] = Numbered(d, Len(got[d][s]))
        ELSE x.item = Numbered(d, Len(got[d][s]))
     /\ buffer' = [buffer EXCEPT ![d] = [from |-> s, items |-> b.items, next |-> b.next - 1]]
     /\ unpull' = [unpull EXCEPT ![d] = x.ticket]
     /\ backup' = [backup EXCEPT ![d] = FALSE]
     /\ got'    = [got EXCEPT ![d][s] = SubSeq(got[d][s], 1, Len(got[d][s]) - 1)]
     /\ UNCHANGED <<kind, link, drained, outgoing, bigsent, bigrcvd, big_req, incoming,
                    bigpull, full, acks, state, over, at, pushed, round>>

LEMMA UnpullGives ==
  ASSUME LInv, NEW d \in PE, UnpullSmall(d) \/ UnpullMonster(d)
  PROVE  \E s \in PE : \E x \in PacketType : GivesPacket(s, d, x)
<1> DEFINE b == buffer[d]
           s == b.from
           x == b.items[b.next]
           k == Len(got[d][s])
           t == b.items
<1>1. Types /\ Hand(d) /\ Single(d)
  BY DEF LInv
<1>2. /\ t \in Seq(PacketType) /\ Len(t) \in Nat /\ b.next \in Nat /\ b \in BufferType
      /\ bigpull[d] \in BOOLEAN
  BY <1>1, PEntries, LenProperties
<1>3. b.next > 0 /\ CanPull(d)
  BY DEF UnpullSmall, UnpullMonster
<1>4. b # NoBuffer
  BY <1>3, NoBufferType
<1>5. s \in PE /\ kind # "trivial" /\ b.next \in 1 .. Len(t)
  <2>1. s \in PE /\ b.next <= Len(t)
    BY <1>1, <1>4 DEF Hand
  <2>2. kind # "trivial"
    BY <1>1, <1>4 DEF Single
  <2> QED  BY <2>1, <2>2, <1>2, <1>3
<1>6. x \in PacketType
  BY <1>2, <1>5, ElementOfSeq
<1>7. ~unpull[d] /\ (bigpull[d] \/ backup[d])
  <2>1. CASE UnpullSmall(d)
    BY <2>1, <1>1 DEF UnpullSmall, Hand
  <2>2. CASE UnpullMonster(d)
    BY <2>2 DEF UnpullMonster
  <2> QED  BY <2>1, <2>2
<1>8. /\ k > 0 /\ x.ticket = bigpull[d]
      /\ IF bigpull[d] THEN incoming[d] = Numbered(d, k) ELSE x.item = Numbered(d, k)
  BY <1>1, <1>3, <1>7 DEF Hand
<1>9. got[d][s] # <<>>
  BY <1>1, <1>5, <1>8, Entries
<1>10. /\ buffer' = [buffer EXCEPT ![d].next = buffer[d].next - 1]
       /\ backup' = [backup EXCEPT ![d] = FALSE]
       /\ got' = [got EXCEPT ![d][s] = SubSeq(got[d][s], 1, Len(got[d][s]) - 1)]
       /\ UNCHANGED <<setting, link, drained, sending, incoming, bigpull, full, control, pushed, round>>
  BY Zenon DEF UnpullSmall, UnpullMonster, GivesBack
<1>11. UNCHANGED <<kind, link, drained, outgoing, bigsent, bigrcvd, big_req, incoming,
                   bigpull, full, acks, state, over, at, pushed, round>>
  BY <1>10 DEF setting, sending, control
<1>12. unpull' = [unpull EXCEPT ![d] = x.ticket]
  <2>1. CASE UnpullSmall(d)
    <3>1. unpull' = unpull /\ ~bigpull[d]
      BY <2>1 DEF UnpullSmall
    <3>2. unpull[d] = FALSE /\ x.ticket = FALSE
      BY <3>1, <1>1, <1>2, <1>7, <1>8, PEntries
    <3> QED  BY <3>1, <3>2, <1>1 DEF Types
  <2>2. CASE UnpullMonster(d)
    <3>1. unpull' = [unpull EXCEPT ![d] = TRUE] /\ bigpull[d]
      BY <2>2 DEF UnpullMonster, PutBack
    <3>2. x.ticket = TRUE
      BY <3>1, <1>2, <1>8
    <3> QED  BY <3>1, <3>2
  <2> QED  BY <2>1, <2>2
<1>13. buffer' = [buffer EXCEPT ![d] = [from |-> s, items |-> t, next |-> b.next - 1]]
  <2>1. [b EXCEPT !.next = b.next - 1] = [from |-> s, items |-> t, next |-> b.next - 1]
    BY <1>2 DEF BufferType
  <2>2. buffer' = [buffer EXCEPT ![d] = [b EXCEPT !.next = b.next - 1]]
    BY <1>10
  <2> QED  BY <2>1, <2>2
<1>14. x.ticket => incoming[d] = Numbered(d, k)
  BY <1>8
<1>15. ~x.ticket => x.item = Numbered(d, k)
  BY <1>8
<1>16. GivesPacket(s, d, x)
  <2>1. state[d] # "dormant"
    BY <1>3 DEF CanPull
  <2> QED  BY <2>1, <1>5, <1>7, <1>8, <1>9, <1>10, <1>11, <1>12, <1>13, <1>14, <1>15, Zenon
              DEF GivesPacket
<1> QED  BY <1>5, <1>6, <1>16

\* What is given back becomes the first of the packets.
LEMMA GivesMoves ==
  ASSUME LInv, NEW d \in PE, NEW s \in PE, NEW x \in PacketType, GivesPacket(s, d, x),
         NEW l \in Nat, l = Left(s, d), NEW k, k = l + 1
  PROVE  /\ Left(s, d)' = k /\ PacketAt(s, d, 1)' = x
         /\ \A i \in 1 .. l : \A j : j = i + 1 => PacketAt(s, d, j)' = PacketAt(s, d, i)
         /\ \A q \in PE \ {s} : SamePackets(q, d)
         /\ \A q, e \in PE : e # d => SamePackets(q, e)
         /\ buffer' \in [PE -> BufferType]
<1>1. Types /\ Hand(d)
  BY DEF LInv
<1>2. PICK t \in Seq(PacketType) : t = buffer[d].items
  BY <1>1, PEntries
<1>3. Len(t) \in Nat
  BY LenProperties
<1>4. PICK n \in Nat : n = buffer[d].next
  BY <1>1, PEntries
<1>5. PICK r \in Seq(PacketType) : r = link[s][d]
  BY <1>1, Entries
<1>6. s = buffer[d].from /\ n >= 1 /\ n <= Len(t) /\ x = t[n] /\ link' = link
  BY <1>2, <1>3, <1>4 DEF GivesPacket
<1>7. PICK m \in Nat : m = n - 1
  BY <1>6
<1>8. buffer' = [buffer EXCEPT ![d] = [from |-> s, items |-> t, next |-> m]]
  <2>1. /\ buffer' = [buffer EXCEPT ![d] = [from |-> s, items |-> buffer[d].items,
                                            next |-> buffer[d].next - 1]]
    BY Zenon DEF GivesPacket
  <2> QED  BY <2>1, <1>2, <1>4, <1>7
<1>9. /\ buffer'[d] = [from |-> s, items |-> t, next |-> m]
      /\ \A e \in PE : e # d => buffer'[e] = buffer[e]
      /\ buffer' \in [PE -> BufferType]
  <2>1. [from |-> s, items |-> t, next |-> m] \in BufferType
    BY DEF BufferType, PE
  <2> QED  BY <1>1, <1>8, <2>1 DEF Types
<1>10. Held(s, d) = Len(t) - n /\ Held(s, d)' = Len(t) - m
  <2>1. Held(s, d) = Len(t) - n
    BY <1>2, <1>4, <1>6 DEF Held
  <2>2. buffer'[d].from = s /\ buffer'[d].items = t /\ buffer'[d].next = m
    BY <1>9
  <2>3. Held(s, d)' = Len(t) - m
    BY <2>2 DEF Held
  <2> QED  BY <2>1, <2>3
<1>11. PICK h \in Nat : h = Len(t) - n
  <2>1. n <= Len(t)
    BY <1>6
  <2>2. Len(t) - n \in Nat
    BY <2>1, <1>3
  <2> QED  BY <2>2
<1>12. PICK g \in Nat : g = Len(t) - m /\ g = h + 1 /\ m + 1 = n
  <2>1. n >= 1 /\ n <= Len(t)
    BY <1>6
  <2>2. m + 1 = n
    BY <2>1, <1>7
  <2>3. h + 1 \in Nat /\ h + 1 = Len(t) - m
    BY <2>2, <1>3, <1>11
  <2> QED  BY <2>2, <2>3
<1>13. Len(r) \in Nat
  BY LenProperties
<1>14. Left(s, d)' = k
  <2>1. l = h + Len(r) /\ Left(s, d)' = g + Len(r)
    BY <1>5, <1>6, <1>10, <1>11, <1>12 DEF Left
  <2> QED  BY <2>1, <1>12, <1>13
<1>15. /\ \A i : PacketAt(s, d, i) = IF i <= h THEN t[n + i] ELSE r[i - h]
       /\ \A i : PacketAt(s, d, i)' = IF i <= g THEN t[m + i] ELSE r[i - g]
  BY <1>2, <1>4, <1>5, <1>6, <1>9, <1>10, <1>11, <1>12 DEF PacketAt
<1>16. PacketAt(s, d, 1)' = x
  <2>1. 1 <= g
    BY <1>12
  <2> QED  BY <2>1, <1>6, <1>12, <1>15
<1>17. ASSUME NEW i \in 1 .. l, NEW j, j = i + 1
       PROVE  PacketAt(s, d, j)' = PacketAt(s, d, i)
  <2>1. m + j = n + i /\ j - g = i - h /\ (j <= g <=> i <= h)
    BY <1>12, <1>17
  <2> QED  BY <2>1, <1>15
<1>18. ASSUME NEW q \in PE \ {s} PROVE SamePackets(q, d)
  <2>1. Held(q, d) = 0 /\ Held(q, d)' = 0
    BY <1>6, <1>9 DEF Held
  <2>2. Left(q, d)' = Left(q, d) /\ Left(q, d) = Len(link[q][d])
    BY <2>1, <1>1, <1>6, Entries DEF Left
  <2>3. ASSUME NEW i \in 1 .. Left(q, d) PROVE PacketAt(q, d, i)' = PacketAt(q, d, i)
    <3>1. i > 0
      BY <2>2, <1>1, Entries
    <3> QED  BY <3>1, <2>1, <1>6 DEF PacketAt
  <2> QED  BY <2>2, <2>3 DEF SamePackets
<1>19. \A q, e \in PE : e # d => SamePackets(q, e)
  BY <1>6, <1>9, SameLink
<1> QED  BY <1>9, <1>14, <1>16, <1>17, <1>18, <1>19

LEMMA UnpullSelf ==
  ASSUME LInv, NEW d \in PE, NEW s \in PE, NEW x \in PacketType, GivesPacket(s, d, x)
  PROVE  Stream(s, d)'
<1>1. Types /\ Stream(s, d) /\ Hand(d) /\ kind # "trivial"
  BY DEF LInv, GivesPacket
<1>2. /\ Len(got[d][s]) \in Nat /\ Left(s, d) \in Nat
      /\ got[d][s] \in Seq(Nat) /\ pushed[s][d] \in Nat
  BY <1>1, Entries, HeldType
<1>3. PICK a \in Nat : a = Len(got[d][s])
  BY <1>2
<1>4. PICK l \in Nat : l = Left(s, d)
  BY <1>2
<1>5. PICK k \in Nat : k = l + 1
  OBVIOUS
<1>6. a > 0
  <2>1. got[d][s] # <<>>
    BY DEF GivesPacket
  <2> QED  BY <2>1, <1>2, <1>3, EmptySeq
<1>7. PICK m \in Nat : a = m + 1
  <2>1. a - 1 \in Nat /\ a = (a - 1) + 1
    BY <1>6
  <2> QED  BY <2>1
<1>8. /\ Left(s, d)' = k /\ PacketAt(s, d, 1)' = x
      /\ \A i \in 1 .. l : \A j : j = i + 1 => PacketAt(s, d, j)' = PacketAt(s, d, i)
  BY <1>4, <1>5, GivesMoves
<1>9. a + l = pushed[s][d] /\ \A j \in 1 .. l : StandsFor(s, d, j, a + j)
  BY <1>1, <1>3, <1>4 DEF Stream
<1>10. /\ UNCHANGED <<kind, link, outgoing, bigsent, bigrcvd, big_req, incoming, acks, pushed>>
       /\ ~unpull[d] /\ unpull'[d] = x.ticket /\ buffer'[d].from = s
  <2>1. /\ buffer' = [buffer EXCEPT ![d] = [from |-> s, items |-> buffer[d].items,
                                            next |-> buffer[d].next - 1]]
        /\ unpull' = [unpull EXCEPT ![d] = x.ticket]
    BY Zenon DEF GivesPacket
  <2> QED  BY <2>1, <1>1 DEF GivesPacket, Types
<1>11. /\ Len(got'[d][s]) = m
       /\ \A i \in 1 .. m : got'[d][s][i] = got[d][s][i]
  <2>1. a - 1 = m
    BY <1>7
  <2> DEFINE w == SubSeq(got[d][s], 1, m)
  <2>2. got' = [got EXCEPT ![d][s] = w]
    BY <2>1, <1>3, Zenon DEF GivesPacket
  <2>3. m <= Len(got[d][s])
    BY <1>3, <1>7
  <2>4. Len(w) = m /\ \A i \in 1 .. m : w[i] = got[d][s][i]
    BY <2>3, <1>2, SubSeqStart
  <2> HIDE DEF w
  <2>5. got'[d][s] = w
    BY <2>2, <1>1 DEF Types
  <2> QED  BY <2>4, <2>5
<1>12. InOrder(s, d)'
  <2>1. ASSUME NEW i \in 1 .. m PROVE got'[d][s][i] = i
    <3>1. i \in 1 .. a
      BY <1>7
    <3> QED  BY <3>1, <1>1, <1>3, <1>11 DEF Stream, InOrder
  <2> QED  BY <2>1, <1>11 DEF InOrder
<1>13. m + k = pushed'[s][d]
  BY <1>5, <1>7, <1>9, <1>10
<1>14. StandsFor(s, d, 1, a)'
  <2>1. CASE x.ticket
    <3>1. incoming'[d] = Numbered(d, a)
      BY <2>1, <1>3, <1>10 DEF GivesPacket
    <3>2. PutBackAt(s, d, 1)'
      BY <2>1, <1>10 DEF PutBackAt
    <3> QED  BY <2>1, <3>1, <3>2, <1>8 DEF StandsFor
  <2>2. CASE ~x.ticket
    <3>1. x.item = Numbered(d, a)
      BY <2>2, <1>3 DEF GivesPacket
    <3> QED  BY <2>2, <3>1, <1>8 DEF StandsFor
  <2> QED  BY <2>1, <2>2
<1>15. ASSUME NEW j \in 2 .. k PROVE StandsFor(s, d, j, m + j)'
  <2>1. PICK i \in Nat : j = i + 1
    <3>1. j - 1 \in Nat /\ j = (j - 1) + 1
      OBVIOUS
    <3> QED  BY <3>1
  <2>2. PICK n \in Nat : n = m + j
    OBVIOUS
  <2>3. i \in 1 .. l /\ a + i = n /\ j # 1
    BY <2>1, <2>2, <1>5, <1>7
  <2>4. StandsFor(s, d, i, n)
    BY <2>3, <1>9
  <2>5. PacketAt(s, d, j)' = PacketAt(s, d, i)
    BY <2>1, <2>3, <1>8
  <2>6. ~PutBackAt(s, d, i) /\ ~PutBackAt(s, d, j)'
    BY <2>3, <1>10 DEF PutBackAt
  <2>7. Busy(s) => Busy(s)'
    BY <1>10 DEF Busy
  <2>8. bigsent' = bigsent /\ outgoing' = outgoing
    BY <1>10
  <2>9. StandsFor(s, d, j, n)'
    BY <2>4, <2>5, <2>6, <2>7, <2>8, SameStanding
  <2> QED  BY <2>2, <2>9
<1>16. ASSUME NEW j \in 1 .. k PROVE StandsFor(s, d, j, m + j)'
  <2>1. CASE j = 1
    BY <2>1, <1>7, <1>14
  <2>2. CASE j \in 2 .. k
    BY <2>2, <1>15
  <2> QED  BY <2>1, <2>2
<1> QED  BY <1>8, <1>10, <1>11, <1>12, <1>13, <1>16 DEF Stream

LEMMA UnpullOthers ==
  ASSUME LInv, NEW d \in PE, NEW s \in PE, NEW x \in PacketType, GivesPacket(s, d, x),
         NEW q \in PE, NEW e \in PE, q # s \/ e # d
  PROVE  Stream(q, e)'
<1>1. Types /\ Stream(q, e) /\ Hand(d)
  BY DEF LInv
<1>2. /\ UNCHANGED <<kind, link, outgoing, bigsent, bigrcvd, big_req, incoming, acks, pushed>>
      /\ buffer' = [buffer EXCEPT ![d] = [from |-> s, items |-> buffer[d].items,
                                           next |-> buffer[d].next - 1]]
      /\ unpull' = [unpull EXCEPT ![d] = x.ticket]
      /\ got'    = [got EXCEPT ![d][s] = SubSeq(got[d][s], 1, Len(got[d][s]) - 1)]
  BY Zenon DEF GivesPacket
<1>3. SamePackets(q, e)
  <2>1. PICK l \in Nat : l = Left(s, d)
    BY <1>1, HeldType
  <2>2. PICK k : k = l + 1
    OBVIOUS
  <2> QED  BY <2>1, <2>2, GivesMoves
<1>4. got'[e][q] = got[e][q] /\ Busy(q)' = Busy(q)
  BY <1>1, <1>2 DEF Types, Busy
<1>5. \A i : PutBackAt(q, e, i)' <=> PutBackAt(q, e, i)
  <2>1. CASE e = d
    <3>1. ~unpull[d]
      BY DEF GivesPacket
    <3>2. buffer'[d].from = s
      BY <1>1, <1>2 DEF Types
    <3> QED  BY <2>1, <3>1, <3>2 DEF PutBackAt
  <2>2. CASE e # d
    <3>1. unpull'[e] = unpull[e] /\ buffer'[e] = buffer[e]
      BY <2>2, <1>1, <1>2 DEF Types
    <3> QED  BY <3>1 DEF PutBackAt
  <2> QED  BY <2>1, <2>2
<1>6. ASSUME NEW i \in 1 .. Left(q, e), NEW n, StandsFor(q, e, i, n)
      PROVE  StandsFor(q, e, i, n)'
  <2>1. PacketAt(q, e, i)' = PacketAt(q, e, i)
    BY <1>3 DEF SamePackets
  <2> QED  BY <2>1, <1>2, <1>4, <1>5, <1>6 DEF StandsFor
<1> QED  BY <1>1, <1>2, <1>3, <1>4, <1>6, StreamKept

LEMMA UnpullInv ==
  ASSUME LInv, NEW d \in PE, NEW s \in PE, NEW x \in PacketType, GivesPacket(s, d, x)
  PROVE  LInv' /\ Links!GiveBack(d, s)
<1>1. /\ Types /\ \A q \in PE : Requested(q) /\ Hand(q) /\ Single(q) /\ Endings(q)
      /\ Common
  BY DEF LInv
<1>2. UNCHANGED <<kind, link, drained, outgoing, bigsent, bigrcvd, big_req, incoming,
                  bigpull, full, acks, state, over, at, pushed, round>>
  BY Zenon DEF GivesPacket
<1>3. /\ buffer' = [buffer EXCEPT ![d] = [from |-> s, items |-> buffer[d].items,
                                           next |-> buffer[d].next - 1]]
      /\ unpull' = [unpull EXCEPT ![d] = x.ticket]
      /\ backup' = [backup EXCEPT ![d] = FALSE]
      /\ got'    = [got EXCEPT ![d][s] = SubSeq(got[d][s], 1, Len(got[d][s]) - 1)]
  BY Zenon DEF GivesPacket
<1>4. /\ buffer' \in [PE -> BufferType]
      /\ s = buffer[d].from /\ buffer[d].next \in 1 .. Len(buffer[d].items)
      /\ x = buffer[d].items[buffer[d].next] /\ x.ticket = bigpull[d]
      /\ kind # "trivial" /\ got[d][s] # <<>> /\ state[d] # "dormant"
  <2>1. PICK l \in Nat : l = Left(s, d)
    BY <1>1, HeldType
  <2>2. PICK k : k = l + 1
    OBVIOUS
  <2>3. buffer' \in [PE -> BufferType]
    BY <2>1, <2>2, GivesMoves
  <2> QED  BY <2>3 DEF GivesPacket
<1>5. Types'
  <2>1. SubSeq(got[d][s], 1, Len(got[d][s]) - 1) \in Seq(Nat)
    <3>1. got[d][s] \in Seq(Nat) /\ Len(got[d][s]) \in Nat
      BY <1>1, Entries
    <3>2. Len(got[d][s]) > 0
      BY <3>1, <1>4, EmptySeq
    <3> QED  BY <3>1, <3>2, SubSeqProperties
  <2>2. got' \in [PE -> [PE -> Seq(Nat)]]
    <3> DEFINE v == SubSeq(got[d][s], 1, Len(got[d][s]) - 1)
    <3>1. got' = [got EXCEPT ![d][s] = v] /\ v \in Seq(Nat)
      BY <2>1, <1>3
    <3> HIDE DEF v
    <3> QED  BY <3>1, <1>1, Update2 DEF Types
  <2>3. x.ticket \in BOOLEAN
    BY DEF PacketType
  <2>4. unpull' \in [PE -> BOOLEAN] /\ backup' \in [PE -> BOOLEAN]
    BY <2>3, <1>1, <1>3 DEF Types
  <2> QED  BY <2>2, <2>4, <1>1, <1>2, <1>4 DEF Types
<1>6. ASSUME NEW q \in PE, NEW e \in PE PROVE Stream(q, e)'
  BY UnpullSelf, UnpullOthers
<1>7. ASSUME NEW q \in PE PROVE Requested(q)'
  BY <1>1, <1>2 DEF Requested
<1>8. ASSUME NEW q \in PE PROVE Single(q)'
  BY <1>1, <1>2, <1>4 DEF Single
<1>9. ~Ended(d)
  <2>1. buffer[d] # NoBuffer
    BY <1>4, NoBufferType, <1>1, PEntries
  <2> QED  BY <2>1 DEF Ended
<1>10. ASSUME NEW q \in PE PROVE Endings(q)'
  <2>1. CASE q = d
    BY <2>1, <1>1, <1>2, <1>9 DEF Endings
  <2>2. CASE q # d
    <3>1. buffer'[q] = buffer[q]
      BY <2>2, <1>1, <1>3 DEF Types
    <3>2. Ended(q) => Ended(q)'
      BY <3>1, <1>2 DEF Ended
    <3> QED  BY <3>2, <1>1, <1>2 DEF Endings
  <2> QED  BY <2>1, <2>2
<1>11. ASSUME NEW q \in PE PROVE Hand(q)'
  <2>1. CASE q = d
    <3>1. PICK m \in Nat : buffer[d].next = m + 1 /\ buffer[d].next - 1 = m
      <4>1. buffer[d].next \in Nat /\ buffer[d].next >= 1
        BY <1>1, <1>4, PEntries
      <4> QED  BY <4>1
    <3>2. /\ buffer'[d].from = s /\ buffer'[d].items = buffer[d].items
          /\ buffer'[d].next = m
      BY <3>1, <1>1, <1>3 DEF Types
    <3>3. /\ unpull'[d] = x.ticket /\ backup'[d] = FALSE /\ bigpull'[d] = x.ticket
      BY <1>1, <1>2, <1>3, <1>4 DEF Types
    <3>4. m + 1 <= Len(buffer[d].items) /\ Len(buffer[d].items) \in Nat
          /\ x = buffer[d].items[m + 1]
      BY <3>1, <1>1, <1>4, PEntries, LenProperties
    <3>5. m < Len(buffer'[d].items) /\ m <= Len(buffer'[d].items)
          /\ buffer'[d].items[m + 1] = x
      BY <3>2, <3>4
    <3> QED  BY <2>1, <3>2, <3>3, <3>5 DEF Hand
  <2>2. CASE q # d
    <3>1. /\ buffer'[q] = buffer[q] /\ unpull'[q] = unpull[q] /\ backup'[q] = backup[q]
          /\ got'[q] = got[q]
      BY <2>2, <1>1, <1>3 DEF Types
    <3> QED  BY <3>1, <1>1, <1>2 DEF Hand
  <2> QED  BY <2>1, <2>2
<1>12. Common'
  BY <1>1, <1>2 DEF Common
<1>13. state[d] \notin {"complete", "dormant"}
  BY <1>1, <1>9 DEF Endings
<1>14. LInv'
  BY <1>5, <1>6, <1>7, <1>8, <1>10, <1>11, <1>12 DEF LInv
<1>15. Links!GiveBack(d, s)
  BY <1>2, <1>3, <1>4, <1>13 DEF Links!GiveBack
<1> QED  BY <1>14, <1>15

-----------------------------------------------------------------------------
(* Trivial conveyors, acknowledgements, and a pull that finds nothing *)

LEMMA Parts ==
  ASSUME LInv
  PROVE  /\ Types /\ \A q, e \in PE : Stream(q, e)
         /\ \A q \in PE : Requested(q) /\ Hand(q) /\ Single(q) /\ Endings(q)
         /\ Common
BY DEF LInv

LEMMA PullTrivialReceives ==
  ASSUME LInv, NEW p \in PE, PullTrivial(p)
  PROVE  LInv' /\ Links!Receive(p, p)
<1>1. /\ Types /\ \A q, e \in PE : Stream(q, e)
      /\ \A q \in PE : Requested(q) /\ Hand(q) /\ Single(q) /\ Endings(q)
      /\ Common
  BY Parts
<1>2. /\ full[p] /\ at[p] = "client" /\ state[p] # "dormant"
      /\ full' = [full EXCEPT ![p] = FALSE]
      /\ got' = [got EXCEPT ![p][p] =
                   Append(got[p][p], IF outgoing[p].dest = p THEN outgoing[p].n ELSE 0)]
      /\ UNCHANGED <<setting, packets, sending, pulling, control, pushed, round>>
  BY Zenon DEF PullTrivial, CanPull, Took
<1>3. UNCHANGED <<kind, link, buffer, drained, outgoing, bigsent, bigrcvd, big_req, acks,
                  incoming, bigpull, unpull, backup, state, over, at, pushed, round>>
  BY <1>2 DEF setting, packets, sending, pulling, control
<1>4. kind = "trivial"
  BY <1>1, <1>2 DEF Single
<1>5. PICK a \in Nat : a = Len(got[p][p]) /\ got[p][p] \in Seq(Nat)
  BY <1>1, Entries
<1>6. PICK n \in Nat : n = a + 1
  OBVIOUS
<1>7. pushed[p][p] = n /\ outgoing[p] = Numbered(p, n)
  <2>1. /\ Len(got[p][p]) + 1 = pushed[p][p]
        /\ pushed[p][p] > 0 => outgoing[p] = Numbered(p, pushed[p][p])
    BY <1>1, <1>2, <1>4 DEF Single
  <2>2. pushed[p][p] = n
    BY <2>1, <1>5, <1>6
  <2>3. pushed[p][p] > 0
    BY <2>2, <1>6
  <2> QED  BY <2>1, <2>2, <2>3
<1>8. got' = [got EXCEPT ![p][p] = Append(got[p][p], n)]
  <2>1. outgoing[p].dest = p /\ outgoing[p].n = n
    BY <1>7, NumberedType
  <2> QED  BY <2>1, <1>2
<1>9. /\ Append(got[p][p], n) \in Seq(Nat) /\ Len(Append(got[p][p], n)) = n
      /\ Append(got[p][p], n)[n] = n
      /\ \A i \in 1 .. a : Append(got[p][p], n)[i] = got[p][p][i]
  BY <1>5, <1>6, AppendProperties
<1>10. PICK v \in Seq(Nat) :
         /\ v = Append(got[p][p], n) /\ Len(v) = n /\ v[n] = n
         /\ \A i \in 1 .. a : v[i] = got[p][p][i]
  BY <1>9
<1>11. got' = [got EXCEPT ![p][p] = v]
  BY <1>8, <1>10
<1>12. Types'
  <2>1. got' \in [PE -> [PE -> Seq(Nat)]]
    BY <1>1, <1>11, Update2 DEF Types
  <2>2. full' \in [PE -> BOOLEAN]
    BY <1>1, <1>2 DEF Types
  <2> QED  BY <2>1, <2>2, <1>1, <1>3 DEF Types
<1>13. /\ got'[p][p] = v /\ full'[p] = FALSE
       /\ \A q, e \in PE : q # p \/ e # p => got'[e][q] = got[e][q]
       /\ \A q \in PE : q # p => full'[q] = full[q]
  <2>1. full' = [full EXCEPT ![p] = FALSE]
    BY <1>2
  <2> QED  BY <2>1, <1>1, <1>11 DEF Types
<1>14. ASSUME NEW q \in PE, NEW e \in PE PROVE Stream(q, e)'
  <2>1. CASE q = p /\ e = p
    <3>1. ASSUME NEW i \in 1 .. n PROVE v[i] = i
      <4>1. CASE i \in 1 .. a
        BY <4>1, <1>1, <1>5, <1>10 DEF Stream, InOrder
      <4>2. CASE i = n
        BY <4>2, <1>10
      <4> QED  BY <4>1, <4>2, <1>6
    <3> QED  BY <2>1, <3>1, <1>3, <1>4, <1>10, <1>13 DEF Stream, InOrder
  <2>2. CASE q # p \/ e # p
    BY <2>2, <1>1, <1>3, <1>4, <1>13 DEF Stream, InOrder
  <2> QED  BY <2>1, <2>2
<1>15. ASSUME NEW q \in PE PROVE Single(q)'
  <2>1. /\ \A e \in PE \ {q} : got'[e][q] = got[e][q]
        /\ Len(got'[q][q]) + (IF full'[q] THEN 1 ELSE 0) = pushed[q][q]
    <3>1. CASE q = p
      <4>1. \A e \in PE \ {p} : got'[e][p] = got[e][p]
        BY <1>13
      <4>2. Len(got'[p][p]) = n /\ full'[p] = FALSE
        BY <1>10, <1>13
      <4> QED  BY <3>1, <4>1, <4>2, <1>7
    <3>2. CASE q # p
      BY <3>2, <1>1, <1>4, <1>13 DEF Single
    <3> QED  BY <3>1, <3>2, <1>13
  <2> QED  BY <2>1, <1>1, <1>3, <1>4 DEF Single
<1>16. ASSUME NEW q \in PE PROVE Requested(q)' /\ Hand(q)'
  <2>1. buffer[q] = NoBuffer
    BY <1>1, <1>4 DEF Single
  <2>2. Hand(q)'
    BY <2>1, <1>1, <1>3, NoBufferType DEF Hand
  <2> QED  BY <2>2, <1>1, <1>3 DEF Requested
<1>17. ASSUME NEW q \in PE PROVE Endings(q)'
  <2>1. full'[q] => full[q]
    BY <1>2, <1>13
  <2>2. Ended(q) => Ended(q)'
    BY <2>1, <1>3 DEF Ended
  <2> QED  BY <2>1, <2>2, <1>1, <1>3 DEF Endings
<1>18. Common'
  BY <1>1, <1>3 DEF Common
<1>19. LInv'
  BY <1>12, <1>14, <1>15, <1>16, <1>17, <1>18 DEF LInv
<1>20. Links!Receive(p, p)
  <2>1. Len(got[p][p]) < pushed[p][p]
    BY <1>5, <1>6, <1>7
  <2>2. got' = [got EXCEPT ![p][p] = Append(got[p][p], Len(got[p][p]) + 1)]
    BY <1>5, <1>6, <1>8
  <2> QED  BY <2>1, <2>2, <1>3 DEF Links!Receive
<1> QED  BY <1>19, <1>20

LEMMA UnpullTrivialGives ==
  ASSUME LInv, NEW p \in PE, UnpullTrivial(p)
  PROVE  LInv' /\ Links!GiveBack(p, p)
<1>1. /\ Types /\ \A q, e \in PE : Stream(q, e)
      /\ \A q \in PE : Requested(q) /\ Hand(q) /\ Single(q) /\ Endings(q)
      /\ Common
  BY Parts
<1>2. /\ kind = "trivial" /\ ~full[p] /\ at[p] = "client"
      /\ state[p] # "dormant" /\ state[p] # "complete" /\ got[p][p] # <<>>
      /\ full' = [full EXCEPT ![p] = TRUE]
      /\ got' = [got EXCEPT ![p][p] = SubSeq(got[p][p], 1, Len(got[p][p]) - 1)]
      /\ UNCHANGED <<setting, packets, sending, pulling, control, pushed, round>>
  BY Zenon DEF UnpullTrivial, CanPull, GivesBack
<1>3. UNCHANGED <<kind, link, buffer, drained, outgoing, bigsent, bigrcvd, big_req, acks,
                  incoming, bigpull, unpull, backup, state, over, at, pushed, round>>
  BY <1>2 DEF setting, packets, sending, pulling, control
<1>4. PICK n \in Nat : n = Len(got[p][p]) /\ got[p][p] \in Seq(Nat)
  BY <1>1, Entries
<1>5. PICK a \in Nat : a + 1 = n /\ a = n - 1
  <2>1. n > 0
    BY <1>2, <1>4, EmptySeq
  <2>2. n - 1 \in Nat /\ (n - 1) + 1 = n
    BY <2>1
  <2> QED  BY <2>2
<1>6. PICK v \in Seq(Nat) : /\ got' = [got EXCEPT ![p][p] = v] /\ Len(v) = a
                            /\ \A i \in 1 .. a : v[i] = got[p][p][i]
  <2> DEFINE w == SubSeq(got[p][p], 1, a)
  <2>1. a <= Len(got[p][p])
    BY <1>4, <1>5
  <2>2. /\ w \in Seq(Nat) /\ Len(w) = a
        /\ \A i \in 1 .. a : w[i] = got[p][p][i]
    BY <2>1, <1>4, SubSeqStart
  <2>3. got' = [got EXCEPT ![p][p] = w]
    BY <1>2, <1>4, <1>5
  <2> HIDE DEF w
  <2> QED  BY <2>2, <2>3
<1>7. got' = [got EXCEPT ![p][p] = v] /\ full' = [full EXCEPT ![p] = TRUE]
  BY <1>2, <1>6
<1>8. Types'
  <2>1. got' \in [PE -> [PE -> Seq(Nat)]]
    BY <1>1, <1>7, Update2 DEF Types
  <2>2. full' \in [PE -> BOOLEAN]
    BY <1>1, <1>2 DEF Types
  <2> QED  BY <2>1, <2>2, <1>1, <1>3 DEF Types
<1>9. /\ got'[p][p] = v /\ full'[p] = TRUE
      /\ \A q, e \in PE : q # p \/ e # p => got'[e][q] = got[e][q]
      /\ \A q \in PE : q # p => full'[q] = full[q]
  BY <1>1, <1>7 DEF Types
<1>10. ASSUME NEW q \in PE, NEW e \in PE PROVE Stream(q, e)'
  <2>1. CASE q = p /\ e = p
    <3>1. ASSUME NEW i \in 1 .. a PROVE v[i] = i
      <4>1. i \in 1 .. n
        BY <1>5
      <4> QED  BY <4>1, <1>1, <1>4, <1>6 DEF Stream, InOrder
    <3> QED  BY <2>1, <3>1, <1>2, <1>3, <1>6, <1>9 DEF Stream, InOrder
  <2>2. CASE q # p \/ e # p
    BY <2>2, <1>1, <1>2, <1>3, <1>9 DEF Stream, InOrder
  <2> QED  BY <2>1, <2>2
<1>11. ASSUME NEW q \in PE PROVE Single(q)'
  <2>1. /\ \A e \in PE \ {q} : got'[e][q] = got[e][q]
        /\ Len(got'[q][q]) + (IF full'[q] THEN 1 ELSE 0) = pushed[q][q]
    <3>1. CASE q = p
      <4>1. n + 0 = pushed[p][p]
        BY <1>1, <1>2, <1>4 DEF Single
      <4>2. \A e \in PE \ {p} : got'[e][p] = got[e][p]
        BY <1>9
      <4>3. Len(got'[p][p]) = a /\ full'[p] = TRUE
        BY <1>6, <1>9
      <4>4. a + 1 = pushed[p][p]
        BY <4>1, <1>5
      <4> QED  BY <3>1, <4>2, <4>3, <4>4
    <3>2. CASE q # p
      <4>1. /\ \A e \in PE \ {q} : got'[e][q] = got[e][q]
            /\ got'[q][q] = got[q][q] /\ full'[q] = full[q]
        BY <3>2, <1>9
      <4>2. Len(got[q][q]) + (IF full[q] THEN 1 ELSE 0) = pushed[q][q]
        BY <1>1, <1>2 DEF Single
      <4> QED  BY <4>1, <4>2
    <3> QED  BY <3>1, <3>2, <1>9
  <2>2. /\ buffer[q] = NoBuffer /\ ~drained[q] /\ \A e \in PE : link[q][e] = <<>>
        /\ \A e \in PE \ {q} : pushed[q][e] = 0 /\ got[e][q] = <<>>
        /\ pushed[q][q] > 0 => outgoing[q] = Numbered(q, pushed[q][q])
    BY <1>1, <1>2 DEF Single
  <2> QED  BY <2>1, <2>2, <1>2, <1>3 DEF Single
<1>12. ASSUME NEW q \in PE PROVE Requested(q)' /\ Hand(q)'
  <2>1. buffer[q] = NoBuffer
    BY <1>1, <1>2 DEF Single
  <2>2. Hand(q)'
    BY <2>1, <1>1, <1>3, NoBufferType DEF Hand
  <2> QED  BY <2>2, <1>1, <1>3 DEF Requested
<1>13. ASSUME NEW q \in PE PROVE Endings(q)'
  <2>1. CASE q = p
    <3>1. ~drained[p]
      BY <1>1, <1>2 DEF Single
    <3> QED  BY <2>1, <3>1, <1>2, <1>3 DEF Endings
  <2>2. CASE q # p
    <3>1. Ended(q) => Ended(q)'
      BY <2>2, <1>3, <1>9 DEF Ended
    <3> QED  BY <2>2, <3>1, <1>1, <1>3, <1>9 DEF Endings
  <2> QED  BY <2>1, <2>2
<1>14. Common'
  BY <1>1, <1>3 DEF Common
<1>15. LInv'
  BY <1>8, <1>10, <1>11, <1>12, <1>13, <1>14 DEF LInv
<1>16. Links!GiveBack(p, p)
  BY <1>2, <1>3 DEF Links!GiveBack
<1> QED  BY <1>15, <1>16

LEMMA PullNothingStays ==
  ASSUME LInv, NEW p \in PE, PullNothing(p)
  PROVE  LInv' /\ UNCHANGED Links!vars
<1>1. /\ Types /\ \A q, e \in PE : Stream(q, e)
      /\ \A q \in PE : Requested(q) /\ Hand(q) /\ Single(q) /\ Endings(q)
      /\ Common
  BY Parts
<1>2. /\ kind # "trivial" /\ at[p] = "client" /\ ~HasItems(p)
      /\ buffer'  = [buffer EXCEPT ![p] = NoBuffer]
      /\ backup'  = [backup EXCEPT ![p] = backup[p] /\ buffer[p] = NoBuffer]
      /\ drained' = [drained EXCEPT ![p] =
                       drained[p] \/ \A s \in PE : over[s] /\ link[s][p] = <<>>]
      /\ UNCHANGED <<setting, link, sending, incoming, bigpull, unpull, full, control, history>>
  BY Zenon DEF PullNothing, CanPull
<1>3. UNCHANGED <<kind, link, outgoing, bigsent, bigrcvd, big_req, acks,
                  incoming, bigpull, unpull, full, state, over, at, pushed, got, round>>
  BY <1>2 DEF setting, sending, control, history
<1>4. Types'
  <2>1. buffer' \in [PE -> BufferType]
    BY <1>1, <1>2, NoBufferType DEF Types
  <2>2. backup' \in [PE -> BOOLEAN]
    BY <1>1, <1>2 DEF Types
  <2>3. drained' \in [PE -> BOOLEAN]
    BY <1>1, <1>2 DEF Types
  <2> QED  BY <2>1, <2>2, <2>3, <1>1, <1>3 DEF Types
<1>5. /\ buffer'[p] = NoBuffer /\ \A e \in PE : e # p => buffer'[e] = buffer[e]
      /\ \A e \in PE : e # p => backup'[e] = backup[e] /\ drained'[e] = drained[e]
      /\ drained'[p] => drained[p] \/ \A s \in PE : over[s] /\ link[s][p] = <<>>
  BY <1>1, <1>2 DEF Types
<1>6. ~unpull[p]
  BY <1>1, <1>2, HeldEmpty
<1>7. ASSUME NEW q \in PE, NEW e \in PE PROVE Stream(q, e)'
  <2>1. SamePackets(q, e)
    <3>1. CASE e = p
      <4>1. /\ Held(q, p) = 0 /\ Left(q, p) = Len(link[q][p])
            /\ \A i \in 1 .. Left(q, p) : PacketAt(q, p, i) = link[q][p][i]
        BY <1>1, <1>2, HeldEmpty
      <4>2. Held(q, p)' = 0
        BY <1>5, NoBufferType DEF Held
      <4>3. Len(link[q][p]) \in Nat
        BY <1>1, Entries
      <4>4. Left(q, p)' = Left(q, p)
        BY <4>1, <4>2, <4>3, <1>3 DEF Left
      <4>5. ASSUME NEW i \in 1 .. Left(q, p) PROVE PacketAt(q, p, i)' = PacketAt(q, p, i)
        <5>1. i \in Nat /\ ~(i <= 0) /\ i - 0 = i
          BY <4>1, <4>3
        <5>2. PacketAt(q, p, i)' = link[q][p][i]
          BY <5>1, <4>2, <1>3 DEF PacketAt
        <5> QED  BY <5>2, <4>1
      <4> QED  BY <3>1, <4>4, <4>5 DEF SamePackets
    <3>2. CASE e # p
      BY <3>2, <1>3, <1>5, SameLink
    <3> QED  BY <3>1, <3>2
  <2>2. unpull[e] => buffer'[e] = buffer[e]
    BY <1>5, <1>6
  <2>3. Busy(q)' = Busy(q)
    BY <1>3 DEF Busy
  <2> QED  BY <2>1, <2>2, <2>3, <1>1, <1>3, StreamStays
<1>8. ASSUME NEW q \in PE PROVE Requested(q)' /\ Single(q)'
  BY <1>1, <1>2, <1>3 DEF Requested, Single
<1>9. ASSUME NEW q \in PE PROVE Hand(q)'
  <2>1. CASE q = p
    BY <2>1, <1>3, <1>5, <1>6, NoBufferType DEF Hand
  <2>2. CASE q # p
    BY <2>2, <1>1, <1>3, <1>5 DEF Hand
  <2> QED  BY <2>1, <2>2
<1>10. ASSUME NEW q \in PE PROVE Endings(q)'
  <2>1. CASE q = p
    <3>1. drained'[p] \/ state[p] \in {"complete", "dormant"} =>
            \A s \in PE : over[s] /\ link[s][p] = <<>>
      BY <1>1, <1>5 DEF Endings, Ended
    <3>2. drained'[p] \/ state[p] \in {"complete", "dormant"} => Ended(p)'
      BY <3>1, <1>2, <1>3, <1>5 DEF Ended
    <3> QED  BY <2>1, <3>2, <1>1, <1>2, <1>3 DEF Endings
  <2>2. CASE q # p
    <3>1. Ended(q) => Ended(q)'
      BY <2>2, <1>3, <1>5 DEF Ended
    <3> QED  BY <2>2, <3>1, <1>1, <1>3, <1>5 DEF Endings
  <2> QED  BY <2>1, <2>2
<1>11. Common'
  BY <1>1, <1>3 DEF Common
<1>12. LInv'
  BY <1>4, <1>7, <1>8, <1>9, <1>10, <1>11 DEF LInv
<1> QED  BY <1>12, <1>3 DEF Links!vars

LEMMA DeliverAckStays ==
  ASSUME LInv, NEW p \in PE, DeliverAck(p)
  PROVE  LInv' /\ UNCHANGED Links!vars
<1>1. /\ Types /\ \A q, e \in PE : Stream(q, e)
      /\ \A q \in PE : Requested(q) /\ Hand(q) /\ Single(q) /\ Endings(q)
      /\ Common
  BY Parts
<1>2. PICK id \in acks[p] : /\ bigrcvd' = [bigrcvd EXCEPT ![p] = id]
                            /\ acks'    = [acks EXCEPT ![p] = acks[p] \ {id}]
  BY Zenon DEF DeliverAck
<1>3. UNCHANGED <<setting, packets, outgoing, bigsent, big_req, pulling, full, control, history>>
  BY Zenon DEF DeliverAck
<1>4. UNCHANGED <<kind, link, buffer, drained, outgoing, bigsent, big_req, incoming, bigpull,
                  unpull, backup, full, state, over, at, pushed, got, round>>
  BY <1>3 DEF setting, packets, pulling, control, history
<1>5. Types'
  BY <1>1, ControlTypes
<1>6. kind = "put" /\ id = bigsent[p] /\ acks[p] = {id}
  <2>1. kind = "put"
    BY <1>1 DEF Requested
  <2> QED  BY <2>1, <1>1 DEF Requested
<1>7. /\ bigrcvd'[p] = bigsent[p] /\ acks'[p] = {}
      /\ \A q \in PE : q # p => bigrcvd'[q] = bigrcvd[q] /\ acks'[q] = acks[q]
  BY <1>1, <1>2, <1>6 DEF Types
<1>8. ASSUME NEW q \in PE, NEW e \in PE PROVE Stream(q, e)'
  <2>1. SamePackets(q, e)
    BY <1>4, SameLink
  <2>2. Busy(q) => Busy(q)'
    BY <1>4, <1>6, <1>7 DEF Busy
  <2> QED  BY <2>1, <2>2, <1>1, <1>4, StreamStays
<1>9. ASSUME NEW q \in PE PROVE Requested(q)'
  BY <1>1, <1>4, <1>6, <1>7 DEF Requested
<1>10. ASSUME NEW q \in PE PROVE Hand(q)' /\ Single(q)' /\ Endings(q)'
  <2>1. Hand(q)'
    BY <1>1, <1>4 DEF Hand
  <2>2. Single(q)'
    BY <1>1, <1>4 DEF Single
  <2>3. Endings(q)'
    BY <1>1, <1>4 DEF Endings, Ended
  <2> QED  BY <2>1, <2>2, <2>3
<1>11. Common'
  BY <1>1, <1>4, <1>7 DEF Common
<1>12. LInv'
  BY <1>5, <1>8, <1>9, <1>10, <1>11 DEF LInv
<1> QED  BY <1>12, <1>4 DEF Links!vars

-----------------------------------------------------------------------------
(* Steps of the rounds *)

LEMMA FinishCloses ==
  ASSUME LInv, NEW p \in PE, Finish(p)
  PROVE  LInv' /\ Links!Close(p)
<1>1. /\ Types /\ \A q, e \in PE : Stream(q, e)
      /\ \A q \in PE : Requested(q) /\ Hand(q) /\ Single(q) /\ Endings(q)
      /\ Common
  BY Parts
<1>2. /\ ~over[p] /\ over' = [over EXCEPT ![p] = TRUE]
      /\ UNCHANGED <<setting, packets, sending, pulling, full, state, at, history>>
  BY Zenon DEF Finish
<1>3. UNCHANGED <<kind, link, buffer, drained, outgoing, bigsent, bigrcvd, big_req, acks,
                  incoming, bigpull, unpull, backup, full, state, at, pushed, got, round>>
  BY <1>2 DEF setting, packets, sending, pulling, history
<1>4. Types'
  BY <1>1, ControlTypes
<1>5. \A q \in PE : over[q] => over'[q]
  BY <1>1, <1>2 DEF Types
<1>6. ASSUME NEW q \in PE, NEW e \in PE PROVE Stream(q, e)'
  <2>1. SamePackets(q, e)
    BY <1>3, SameLink
  <2>2. Busy(q)' = Busy(q)
    BY <1>3 DEF Busy
  <2> QED  BY <2>1, <2>2, <1>1, <1>3, StreamStays
<1>7. ASSUME NEW q \in PE PROVE Requested(q)' /\ Hand(q)' /\ Single(q)' /\ Endings(q)'
  <2>1. Requested(q)'
    BY <1>1, <1>3 DEF Requested
  <2>2. Hand(q)'
    BY <1>1, <1>3 DEF Hand
  <2>3. Single(q)'
    BY <1>1, <1>3 DEF Single
  <2>4. Ended(q) => Ended(q)'
    BY <1>3, <1>5 DEF Ended
  <2>5. Endings(q)'
    BY <2>4, <1>1, <1>3 DEF Endings
  <2> QED  BY <2>1, <2>2, <2>3, <2>5
<1>8. Common'
  BY <1>1, <1>3 DEF Common
<1>9. LInv'
  BY <1>4, <1>6, <1>7, <1>8 DEF LInv
<1> QED  BY <1>9, <1>2, <1>3 DEF Links!Close

\* Only the states and the places of the PEs change.
LEMMA PlacesKept ==
  ASSUME LInv, UNCHANGED <<setting, packets, sending, pulling, full, over, history>>
  PROVE  /\ \A q, e \in PE : Stream(q, e)'
         /\ \A q \in PE : Requested(q)' /\ Hand(q)' /\ Single(q)' /\ (Ended(q)' <=> Ended(q))
         /\ UNCHANGED <<pushed, got, over, round, acks, full, drained>>
<1>1. /\ Types /\ \A q, e \in PE : Stream(q, e)
      /\ \A q \in PE : Requested(q) /\ Hand(q) /\ Single(q) /\ Endings(q)
      /\ Common
  BY Parts
<1>2. UNCHANGED <<kind, link, buffer, drained, outgoing, bigsent, bigrcvd, big_req, acks,
                  incoming, bigpull, unpull, backup, full, over, pushed, got, round>>
  BY DEF setting, packets, sending, pulling, history
<1>3. ASSUME NEW q \in PE, NEW e \in PE PROVE Stream(q, e)'
  <2>1. SamePackets(q, e)
    BY <1>2, SameLink
  <2>2. Busy(q)' = Busy(q)
    BY <1>2 DEF Busy
  <2> QED  BY <2>1, <2>2, <1>1, <1>2, StreamStays
<1>4. ASSUME NEW q \in PE
      PROVE  Requested(q)' /\ Hand(q)' /\ Single(q)' /\ (Ended(q)' <=> Ended(q))
  <2>1. Requested(q)'
    BY <1>1, <1>2 DEF Requested
  <2>2. Hand(q)'
    BY <1>1, <1>2 DEF Hand
  <2>3. Single(q)'
    BY <1>1, <1>2 DEF Single
  <2>4. Ended(q)' <=> Ended(q)
    BY <1>2 DEF Ended
  <2> QED  BY <2>1, <2>2, <2>3, <2>4
<1> QED  BY <1>2, <1>3, <1>4

\* A PE for which it is over has taken all that was pushed to it.
LEMMA EndedAll ==
  ASSUME LInv, NEW d \in PE, Ended(d), NEW p \in PE
  PROVE  over[p] /\ Len(got[d][p]) = pushed[p][d] /\ Left(p, d) = 0
<1>1. Types /\ Stream(p, d) /\ Single(p)
  BY DEF LInv
<1>2. over[p] /\ link[p][d] = <<>> /\ buffer[d] = NoBuffer /\ (kind = "trivial" => ~full[d])
  BY DEF Ended
<1>3. Left(p, d) = 0
  <2>1. Held(p, d) = 0
    BY <1>2, NoBufferType DEF Held
  <2> QED  BY <2>1, <1>2 DEF Left
<1>4. Len(got[d][p]) \in Nat
  BY <1>1, Entries
<1>5. Len(got[d][p]) = pushed[p][d]
  <2>1. CASE kind # "trivial"
    <3>1. Len(got[d][p]) + 0 = pushed[p][d]
      BY <2>1, <1>1, <1>3 DEF Stream
    <3> QED  BY <3>1, <1>4
  <2>2. CASE kind = "trivial" /\ p = d
    <3>1. Len(got[d][p]) + 0 = pushed[p][d]
      BY <2>2, <1>1, <1>2 DEF Single
    <3> QED  BY <3>1, <1>4
  <2>3. CASE kind = "trivial" /\ p # d
    <3>1. pushed[p][d] = 0 /\ got[d][p] = <<>>
      BY <2>3, <1>1 DEF Single
    <3> QED  BY <3>1
  <2> QED  BY <2>1, <2>2, <2>3
<1> QED  BY <1>2, <1>3, <1>5

LEMMA AdvanceDrains ==
  ASSUME LInv, NEW p \in PE, Advance(p)
  PROVE  LInv' /\ (Links!Drain(p) \/ UNCHANGED Links!vars)
<1>1. /\ Types /\ \A q, e \in PE : Stream(q, e)
      /\ \A q \in PE : Requested(q) /\ Hand(q) /\ Single(q) /\ Endings(q)
      /\ Common
  BY Parts
<1>2. PICK v : state' = [state EXCEPT ![p] = v] /\
               v = CASE Result(p) = "DONE" -> "complete"
                     [] Result(p) = "NEAR" -> "cleanup"
                     [] OTHER -> IF state[p] = "working" THEN "endgame" ELSE state[p]
  BY DEF Advance
<1>3. /\ at[p] = "client" /\ state[p] \notin {"dormant", "complete"}
      /\ kind = "trivial" => \A q \in PE : over[q]
      /\ UNCHANGED <<setting, packets, sending, pulling, full, over, at, history>>
  BY Zenon DEF Advance
<1>4. /\ \A q, e \in PE : Stream(q, e)'
      /\ \A q \in PE : Requested(q)' /\ Hand(q)' /\ Single(q)' /\ (Ended(q)' <=> Ended(q))
      /\ UNCHANGED <<pushed, got, over, round, acks, full, drained>>
  BY <1>3, PlacesKept
<1>5. Types'
  BY <1>1, ControlTypes
<1>6. v = "complete" => Ended(p)
  <2>1. SUFFICES ASSUME v = "complete" PROVE Ended(p)
    OBVIOUS
  <2>2. Result(p) = "DONE"
    BY <2>1, <1>2, <1>3
  <2>3. CASE kind = "trivial"
    <3>1. ~full[p]
      BY <2>2, <2>3 DEF Result
    <3>2. buffer[p] = NoBuffer /\ \A q \in PE : over[q] /\ link[q][p] = <<>>
      <4>1. \A q \in PE : over[q]
        BY <2>3, <1>3
      <4>2. ASSUME NEW q \in PE PROVE link[q][p] = <<>> /\ buffer[q] = NoBuffer
        BY <2>3, <1>1 DEF Single
      <4> QED  BY <4>1, <4>2
    <3> QED  BY <3>1, <3>2 DEF Ended
  <2>4. CASE kind # "trivial"
    <3>1. drained[p]
      BY <2>2, <2>4 DEF Result
    <3> QED  BY <3>1, <1>1 DEF Endings
  <2> QED  BY <2>3, <2>4
<1>7. /\ state'[p] = v /\ v # "dormant" /\ \A q \in PE : q # p => state'[q] = state[q]
      /\ v \in {"working", "endgame", "cleanup", "complete"}
  <2>1. state[p] \in {"working", "endgame", "cleanup"}
    BY <1>1, <1>3 DEF Types
  <2>2. v \in {"working", "endgame", "cleanup", "complete"}
    BY <2>1, <1>2
  <2>3. state'[p] = v /\ \A q \in PE : q # p => state'[q] = state[q]
    BY <1>1, <1>2 DEF Types
  <2> QED  BY <2>2, <2>3
<1>8. ASSUME NEW q \in PE PROVE Endings(q)'
  <2>1. CASE q = p
    BY <2>1, <1>1, <1>3, <1>4, <1>6, <1>7 DEF Endings
  <2>2. CASE q # p
    BY <2>2, <1>1, <1>3, <1>4, <1>7 DEF Endings
  <2> QED  BY <2>1, <2>2
<1>9. Common'
  <2>1. \A q \in PE : state[q] # "dormant"
    BY <1>1, <1>3 DEF Common
  <2> QED  BY <2>1, <1>1, <1>4, <1>7 DEF Common
<1>10. LInv'
  BY <1>4, <1>5, <1>8, <1>9 DEF LInv
<1>11. CASE v = "complete"
  <2>1. \A q \in PE : over[q] /\ Len(got[p][q]) = pushed[q][p]
    BY <1>6, <1>11, EndedAll
  <2>2. [q \in PE |-> state'[q] \in {"complete", "dormant"}]
          = [[q \in PE |-> state[q] \in {"complete", "dormant"}] EXCEPT ![p] = TRUE]
    BY <1>7, <1>11
  <2> QED  BY <2>1, <2>2, <1>3, <1>4, <1>10 DEF Links!Drain
<1>12. CASE v # "complete"
  <2>1. [q \in PE |-> state'[q] \in {"complete", "dormant"}]
          = [q \in PE |-> state[q] \in {"complete", "dormant"}]
    BY <1>3, <1>7, <1>12
  <2> QED  BY <2>1, <1>4, <1>10 DEF Links!vars
<1> QED  BY <1>11, <1>12

LEMMA EnterResetStays ==
  ASSUME LInv, NEW p \in PE, EnterReset(p)
  PROVE  LInv' /\ UNCHANGED Links!vars
<1>1. /\ Types /\ \A q \in PE : Endings(q) /\ Common
  BY Parts
<1>2. /\ state[p] = "complete" /\ at' = [at EXCEPT ![p] = "reset"]
      /\ UNCHANGED <<setting, packets, sending, pulling, full, state, over, history>>
  BY Zenon DEF EnterReset
<1>3. /\ \A q, e \in PE : Stream(q, e)'
      /\ \A q \in PE : Requested(q)' /\ Hand(q)' /\ Single(q)' /\ (Ended(q)' <=> Ended(q))
      /\ UNCHANGED <<pushed, got, over, round, acks, full, drained>>
  BY <1>2, PlacesKept
<1>4. Types'
  BY <1>1, ControlTypes
<1>5. at'[p] = "reset" /\ \A q \in PE : q # p => at'[q] = at[q]
  BY <1>1, <1>2 DEF Types
<1>6. ASSUME NEW q \in PE PROVE Endings(q)'
  BY <1>1, <1>2, <1>3, <1>5 DEF Endings
<1>7. Common'
  BY <1>1, <1>2, <1>3 DEF Common
<1>8. LInv'
  BY <1>3, <1>4, <1>6, <1>7 DEF LInv
<1> QED  BY <1>8, <1>2, <1>3 DEF Links!vars

LEMMA ResetBarrierStays ==
  ASSUME LInv, ResetBarrier
  PROVE  LInv' /\ UNCHANGED Links!vars
<1>1. /\ Types /\ \A q \in PE : Endings(q) /\ Common
  BY Parts
<1>2. /\ \A q \in PE : at[q] = "reset" /\ acks[q] = {}
      /\ at'    = [q \in PE |-> "client"]
      /\ state' = [q \in PE |-> "dormant"]
      /\ UNCHANGED <<setting, packets, sending, pulling, full, over, history>>
  BY Zenon DEF ResetBarrier, AllAt, AllQuiet
<1>3. /\ \A q, e \in PE : Stream(q, e)'
      /\ \A q \in PE : Requested(q)' /\ Hand(q)' /\ Single(q)' /\ (Ended(q)' <=> Ended(q))
      /\ UNCHANGED <<pushed, got, over, round, acks, full, drained>>
  BY <1>2, PlacesKept
<1>4. Types'
  BY <1>1, BarrierTypes
<1>5. \A q \in PE : state[q] = "complete" /\ Ended(q)
  BY <1>1, <1>2 DEF Endings
<1>6. ASSUME NEW q \in PE PROVE Endings(q)'
  BY <1>2, <1>3, <1>5 DEF Endings
<1>7. Common'
  BY <1>1, <1>2, <1>3 DEF Common
<1>8. LInv'
  BY <1>3, <1>4, <1>6, <1>7 DEF LInv
<1>9. [q \in PE |-> state'[q] \in {"complete", "dormant"}]
        = [q \in PE |-> state[q] \in {"complete", "dormant"}]
  BY <1>2, <1>5
<1> QED  BY <1>8, <1>9, <1>3 DEF Links!vars

LEMMA BeginStays ==
  ASSUME LInv, NEW p \in PE, Begin(p)
  PROVE  LInv' /\ UNCHANGED Links!vars
<1>1. /\ Types /\ \A q, e \in PE : Stream(q, e)
      /\ \A q \in PE : Requested(q) /\ Hand(q) /\ Single(q) /\ Endings(q)
      /\ Common
  BY Parts
<1>2. /\ at[p] = "client" /\ state[p] = "dormant"
      /\ drained' = [drained EXCEPT ![p] = FALSE]
      /\ bigsent' = [bigsent EXCEPT ![p] = 0]
      /\ bigrcvd' = [bigrcvd EXCEPT ![p] = 0]
      /\ bigpull' = [bigpull EXCEPT ![p] = FALSE]
      /\ unpull'  = [unpull EXCEPT ![p] = FALSE]
      /\ backup'  = [backup EXCEPT ![p] = FALSE]
      /\ full'    = [full EXCEPT ![p] = FALSE]
      /\ at'      = [at EXCEPT ![p] = "begin"]
      /\ UNCHANGED <<setting, link, buffer, outgoing, incoming, acks, state, over, history>>
  BY Zenon DEF Begin
<1>3. UNCHANGED <<kind, link, buffer, outgoing, incoming, acks, state, over, pushed, got, round>>
  BY <1>2 DEF setting, history
<1>4. Types'
  BY <1>1, ControlTypes
<1>5. \A q \in PE : state[q] = "dormant" /\ acks[q] = {} /\ Ended(q)
  BY <1>1, <1>2 DEF Common, Endings
<1>6. /\ drained'[p] = FALSE /\ bigsent'[p] = 0 /\ bigrcvd'[p] = 0 /\ unpull'[p] = FALSE
      /\ full'[p] = FALSE /\ at'[p] = "begin"
  BY <1>1, <1>2 DEF Types
<1>7. ASSUME NEW q \in PE, q # p
      PROVE  /\ drained'[q] = drained[q] /\ bigsent'[q] = bigsent[q] /\ bigrcvd'[q] = bigrcvd[q]
             /\ bigpull'[q] = bigpull[q] /\ unpull'[q] = unpull[q] /\ backup'[q] = backup[q]
             /\ full'[q] = full[q] /\ at'[q] = at[q]
  BY <1>1, <1>2, <1>7 DEF Types
<1>8. \A q \in PE : (drained'[q] => drained[q]) /\ (full'[q] => full[q])
  BY <1>6, <1>7
<1>9. ASSUME NEW q \in PE, NEW e \in PE PROVE Stream(q, e)'
  <2>1. SamePackets(q, e)
    BY <1>3, SameLink
  <2>2. Left(q, e) = 0
    BY <1>5, EndedAll
  <2> QED  BY <2>1, <2>2, <1>1, <1>3, StreamKept
<1>10. ASSUME NEW q \in PE PROVE Requested(q)'
  <2>1. CASE q = p
    BY <2>1, <1>3, <1>5, <1>6 DEF Requested
  <2>2. CASE q # p
    BY <2>2, <1>1, <1>3, <1>7 DEF Requested
  <2> QED  BY <2>1, <2>2
<1>11. ASSUME NEW q \in PE PROVE Hand(q)'
  <2>1. buffer[q] = NoBuffer /\ ~unpull[q]
    <3>1. buffer[q] = NoBuffer
      BY <1>5 DEF Ended
    <3>2. ~(buffer[q].next < Len(buffer[q].items))
      BY <3>1, NoBufferType
    <3> QED  BY <3>1, <3>2, <1>1 DEF Hand
  <2>2. ~unpull'[q]
    BY <2>1, <1>6, <1>7
  <2> QED  BY <2>1, <2>2, <1>3, NoBufferType DEF Hand
<1>12. ASSUME NEW q \in PE PROVE Single(q)'
  <2>1. kind = "trivial" => full'[q] = full[q]
    <3>1. kind = "trivial" => ~full[q]
      BY <1>5 DEF Ended
    <3>2. full'[q] \in BOOLEAN /\ full[q] \in BOOLEAN
      BY <1>1, <1>4 DEF Types
    <3> QED  BY <3>1, <3>2, <1>8
  <2>2. kind # "trivial" => ~full'[q]
    BY <1>1, <1>8 DEF Single
  <2>3. CASE kind = "trivial"
    <3>1. /\ buffer[q] = NoBuffer /\ ~drained[q] /\ \A d \in PE : link[q][d] = <<>>
          /\ \A d \in PE \ {q} : pushed[q][d] = 0 /\ got[d][q] = <<>>
          /\ Len(got[q][q]) + (IF full'[q] THEN 1 ELSE 0) = pushed[q][q]
          /\ pushed[q][q] > 0 => outgoing[q] = Numbered(q, pushed[q][q])
      BY <2>1, <2>3, <1>1 DEF Single
    <3> QED  BY <3>1, <2>3, <1>3, <1>8 DEF Single
  <2>4. CASE kind # "trivial"
    BY <2>2, <2>4, <1>3 DEF Single
  <2> QED  BY <2>3, <2>4
<1>13. ASSUME NEW q \in PE PROVE Endings(q)'
  <2>1. Ended(q)'
    BY <1>3, <1>5, <1>8 DEF Ended
  <2>2. CASE q = p
    BY <2>1, <2>2, <1>2, <1>3, <1>6 DEF Endings
  <2>3. CASE q # p
    BY <2>1, <2>3, <1>1, <1>3, <1>7 DEF Endings
  <2> QED  BY <2>2, <2>3
<1>14. Common'
  BY <1>1, <1>3 DEF Common
<1>15. LInv'
  BY <1>4, <1>9, <1>10, <1>11, <1>12, <1>13, <1>14 DEF LInv
<1> QED  BY <1>15, <1>3 DEF Links!vars

LEMMA FinishBeginRestarts ==
  ASSUME LInv, FinishBegin
  PROVE  LInv' /\ Links!Restart(PE)
<1>1. /\ Types /\ \A q, e \in PE : Stream(q, e)
      /\ \A q \in PE : Requested(q) /\ Hand(q) /\ Single(q) /\ Endings(q)
      /\ Common
  BY Parts
<1>2. /\ \A q \in PE : at[q] = "begin"
      /\ at'     = [p \in PE |-> "client"]
      /\ state'  = [p \in PE |-> "working"]
      /\ over'   = [p \in PE |-> FALSE]
      /\ pushed' = [p \in PE |-> [d \in PE |-> 0]]
      /\ got'    = [p \in PE |-> [s \in PE |-> <<>>]]
      /\ round'  = [p \in PE |-> round[p] + 1]
      /\ UNCHANGED <<setting, packets, sending, pulling, full>>
  BY Zenon DEF FinishBegin, AllAt
<1>3. UNCHANGED <<kind, link, buffer, drained, outgoing, bigsent, bigrcvd, big_req, acks,
                  incoming, bigpull, unpull, backup, full>>
  BY <1>2 DEF setting, packets, sending, pulling
<1>4. Types'
  BY <1>1, BarrierTypes
<1>5. \A q \in PE : state[q] = "dormant" /\ ~full[q] /\ ~drained[q] /\ Ended(q)
  BY <1>1, <1>2 DEF Endings
<1>6. \A q \in PE : buffer[q] = NoBuffer /\ ~unpull[q]
  <2> SUFFICES ASSUME NEW q \in PE PROVE buffer[q] = NoBuffer /\ ~unpull[q]
    OBVIOUS
  <2>1. buffer[q] = NoBuffer
    BY <1>5 DEF Ended
  <2>2. ~(buffer[q].next < Len(buffer[q].items))
    BY <2>1, NoBufferType
  <2> QED  BY <2>1, <2>2, <1>1 DEF Hand
<1>7. \A q, e \in PE : got'[e][q] = <<>> /\ pushed'[q][e] = 0
  BY <1>2
<1>8. ASSUME NEW q \in PE, NEW e \in PE PROVE Stream(q, e)'
  <2>1. Left(q, e) = 0 /\ SamePackets(q, e)
    BY <1>3, <1>5, EndedAll, SameLink
  <2>2. Left(q, e)' = 0
    BY <2>1 DEF SamePackets
  <2>3. Len(got'[e][q]) = 0 /\ pushed'[q][e] = 0
    BY <1>7
  <2> QED  BY <2>2, <2>3 DEF Stream, InOrder
<1>9. ASSUME NEW q \in PE PROVE Requested(q)' /\ Hand(q)' /\ Single(q)' /\ Endings(q)'
  <2>1. Requested(q)'
    BY <1>1, <1>3 DEF Requested
  <2>2. Hand(q)'
    BY <1>3, <1>6, NoBufferType DEF Hand
  <2>3. Single(q)'
    <3>1. kind = "trivial" => \A d \in PE : link[q][d] = <<>>
      BY <1>1 DEF Single
    <3>2. Len(got'[q][q]) = 0 /\ pushed'[q][q] = 0
      BY <1>7
    <3> QED  BY <3>1, <3>2, <1>3, <1>5, <1>6, <1>7 DEF Single
  <2>4. Endings(q)'
    BY <1>2, <1>3, <1>5 DEF Endings
  <2> QED  BY <2>1, <2>2, <2>3, <2>4
<1>10. Common'
  BY <1>1, <1>2 DEF Common
<1>11. LInv'
  BY <1>4, <1>8, <1>9, <1>10 DEF LInv
<1>12. Links!Restart(PE)
  <2>1. pushed' = [p \in PE |-> IF p \in PE THEN [d \in PE |-> 0] ELSE pushed[p]]
    BY <1>2
  <2>2. got' = [p \in PE |-> IF p \in PE THEN [s \in PE |-> <<>>] ELSE got[p]]
    BY <1>2
  <2>3. over' = [p \in PE |-> over[p] /\ p \notin PE]
    BY <1>2
  <2>4. [p \in PE |-> state'[p] \in {"complete", "dormant"}]
          = [p \in PE |-> [q \in PE |-> state[q] \in {"complete", "dormant"}][p] /\ p \notin PE]
    BY <1>2
  <2>5. round' = [p \in PE |-> IF p \in PE THEN round[p] + 1 ELSE round[p]]
    BY <1>2
  <2>6. \A q \in PE : [p \in PE |-> state[p] \in {"complete", "dormant"}][q]
    BY <1>5
  <2> QED  BY <2>1, <2>2, <2>3, <2>4, <2>5, <2>6 DEF Links!Restart
<1> QED  BY <1>11, <1>12

-----------------------------------------------------------------------------
(* The theorem *)

LEMMA LInvInit == Init => LInv
<1> SUFFICES ASSUME Init PROVE LInv
  OBVIOUS
<1>1. Types
  BY InitTypes
<1>2. ASSUME NEW q \in PE, NEW e \in PE PROVE Stream(q, e)
  <2>1. /\ got[e][q] = <<>> /\ pushed[q][e] = 0 /\ link[q][e] = <<>> /\ buffer[e] = NoBuffer
    BY DEF Init
  <2>2. Left(q, e) = 0
    BY <2>1, NoBufferType DEF Left, Held
  <2> QED  BY <2>1, <2>2 DEF Stream, InOrder
<1>3. ASSUME NEW q \in PE PROVE Requested(q) /\ Hand(q) /\ Single(q) /\ Endings(q)
  <2>1. Requested(q) /\ Endings(q)
    BY DEF Init, Requested, Endings
  <2>2. Hand(q)
    BY NoBufferType DEF Init, Hand
  <2>3. Single(q)
    BY DEF Init, Single
  <2> QED  BY <2>1, <2>2, <2>3
<1>4. Common
  BY DEF Init, Common
<1> QED  BY <1>1, <1>2, <1>3, <1>4 DEF LInv

LEMMA LInvStutters == LInv /\ UNCHANGED vars => LInv'
<1> SUFFICES ASSUME LInv, UNCHANGED vars PROVE LInv'
  OBVIOUS
<1>1. /\ Types /\ \A q \in PE : Endings(q) /\ Common
  BY Parts
<1>2. UNCHANGED <<setting, packets, sending, pulling, full, control, history>>
  BY DEF vars
<1>3. UNCHANGED <<setting, packets, sending, pulling, full, over, history>> /\ UNCHANGED <<state, at>>
  BY <1>2 DEF control
<1>4. /\ \A q, e \in PE : Stream(q, e)'
      /\ \A q \in PE : Requested(q)' /\ Hand(q)' /\ Single(q)' /\ (Ended(q)' <=> Ended(q))
      /\ UNCHANGED <<pushed, got, over, round, acks, full, drained>>
  BY <1>3, PlacesKept
<1>5. Types'
  BY <1>1, <1>3 DEF Types, setting, packets, sending, pulling, history
<1>6. ASSUME NEW q \in PE PROVE Endings(q)'
  BY <1>1, <1>3, <1>4 DEF Endings
<1>7. Common'
  BY <1>1, <1>3, <1>4 DEF Common
<1> QED  BY <1>4, <1>5, <1>6, <1>7 DEF LInv

LEMMA StutterLinks == UNCHANGED vars => UNCHANGED Links!vars
BY DEF vars, history, control, Links!vars

\* Every step keeps the invariant, and is one of the links or none.
LEMMA LInvStep ==
  ASSUME LInv, [Next]_vars
  PROVE  LInv' /\ [Links!Next]_(Links!vars)
<1>1. Types /\ \A q \in PE : Hand(q)
  BY Parts
<1>2. Links!Together
  BY Togetherness
<1>3. ASSUME NEW p \in PE, NEW d \in PE, Push(p, d)
      PROVE  LInv' /\ [Links!Next]_(Links!vars)
  <2>1. Types'
    BY <1>1, <1>3, PushTypes DEF Push
  <2>2. ASSUME NEW x, Pushes(p, d, x) PROVE LInv' /\ [Links!Next]_(Links!vars)
    BY <2>1, <2>2, <1>2, PushInv, PushSends DEF Links!Next
  <2>3. CASE PushSmall(p, d)
    BY <2>2, <2>3, <1>1, PushSmallPushes
  <2>4. CASE PushMonster(p, d) /\ HasRoom(p, d)
    BY <2>2, <2>4, <1>1, PushMonsterPushes
  <2>5. CASE PushMonster(p, d) /\ ~HasRoom(p, d)
    BY <2>5, PushStays
  <2> QED  BY <2>3, <2>4, <2>5, <1>3 DEF Push
<1>4. ASSUME NEW p \in PE, PushTrivial(p) PROVE LInv' /\ [Links!Next]_(Links!vars)
  BY <1>2, <1>4, PushTrivialSends DEF Links!Next
<1>5. ASSUME NEW p \in PE, Pull(p) PROVE LInv' /\ [Links!Next]_(Links!vars)
  <2>1. ASSUME NEW s \in PE, NEW x, Pulls(s, p, x)
        PROVE  LInv' /\ [Links!Next]_(Links!vars)
    BY <2>1, <1>2, PullInv, PullReceives DEF Links!Next
  <2>2. CASE PullHeld(p)
    <3>1. \E s, x : Pulls(s, p, x)
      BY <2>2, <1>1, PullHeldMoves
    <3>2. \E s \in PE : \E x : Pulls(s, p, x)
      BY <3>1 DEF Pulls
    <3> QED  BY <3>2, <2>1
  <2>3. CASE PullNext(p)
    BY <2>1, <2>3, <1>1, PullNextMoves
  <2>4. CASE PullTrivial(p)
    BY <2>4, <1>2, PullTrivialReceives DEF Links!Next
  <2> QED  BY <2>2, <2>3, <2>4, <1>5 DEF Pull
<1>6. ASSUME NEW p \in PE, PullNothing(p) PROVE LInv' /\ [Links!Next]_(Links!vars)
  BY <1>6, PullNothingStays
<1>7. ASSUME NEW p \in PE, Unpull(p) PROVE LInv' /\ [Links!Next]_(Links!vars)
  <2>1. CASE UnpullSmall(p) \/ UnpullMonster(p)
    <3>1. PICK s \in PE, x \in PacketType : GivesPacket(s, p, x)
      BY <2>1, UnpullGives
    <3> QED  BY <3>1, <1>2, UnpullInv DEF Links!Next
  <2>2. CASE UnpullTrivial(p)
    BY <2>2, <1>2, UnpullTrivialGives DEF Links!Next
  <2> QED  BY <2>1, <2>2, <1>7 DEF Unpull
<1>8. ASSUME NEW p \in PE, Finish(p) PROVE LInv' /\ [Links!Next]_(Links!vars)
  BY <1>2, <1>8, FinishCloses DEF Links!Next
<1>9. ASSUME NEW p \in PE, Advance(p) PROVE LInv' /\ [Links!Next]_(Links!vars)
  BY <1>2, <1>9, AdvanceDrains DEF Links!Next
<1>10. ASSUME NEW p \in PE, DeliverAck(p) \/ Cycle(p) PROVE LInv' /\ [Links!Next]_(Links!vars)
  BY <1>10, DeliverAckStays, EnterResetStays, BeginStays DEF Cycle
<1>11. CASE ResetBarrier
  BY <1>11, ResetBarrierStays
<1>12. CASE FinishBegin
  <2>1. LInv' /\ Links!Restart(PE)
    BY <1>12, FinishBeginRestarts
  <2>2. PE \in SUBSET PE
    OBVIOUS
  <2> QED  BY <2>1, <2>2 DEF Links!Next
<1>13. CASE UNCHANGED vars
  BY <1>13, LInvStutters, StutterLinks
<1> QED  BY <1>3, <1>4, <1>5, <1>6, <1>7, <1>8, <1>9, <1>10, <1>11, <1>12, <1>13
         DEF Next, Finished

LEMMA LinksInit == Init => Links!Init
<1> SUFFICES ASSUME Init PROVE Links!Init
  OBVIOUS
<1>1. [p \in PE |-> state[p] \in {"complete", "dormant"}] = [p \in PE |-> FALSE]
  <2>1. \A p \in PE : state[p] = "working"
    BY DEF Init
  <2>2. \A p \in PE : (state[p] \in {"complete", "dormant"}) = FALSE
    BY <2>1
  <2> QED  BY <2>2, Zenon
<1> QED  BY <1>1 DEF Init, Links!Init

\* An elastic conveyor, or a trivial one, gives its clients FIFO links for items
\* of all sizes: monster_epush, elastic_epull and monster_unpull take, fetch and
\* put back every large item in its turn.
THEOREM LinksHold == Spec => LinksSpec
<1>1. Spec => []LInv
  BY LInvInit, LInvStep, PTL DEF Spec
<1>2. LInv /\ [Next]_vars => [Links!Next]_(Links!vars)
  BY LInvStep
<1> QED  BY <1>1, <1>2, LinksInit, PTL DEF Spec, LinksSpec, Links!Spec
=============================================================================
