---------------------------- MODULE MpiPorterProofs ---------------------------
(***************************************************************************)
(* The porter over MPI, proved for every number of PEs, every size of the  *)
(* buffers and every quota: MPI and the clients never use a buffer at the  *)
(* same time, nothing is left with MPI between rounds, and the group keeps *)
(* the promises of FifoLinks.                                              *)
(*                                                                         *)
(* At any time the buffers of a link cut the items pushed on it into       *)
(* pieces; where they are cut is the witness in Wire.  A piece is with the *)
(* sender, with MPI or with the receiver, and they follow each other.      *)
(***************************************************************************)
EXTENDS MpiPorter, FiniteSetTheorems, SequenceTheorems, TLAPS

-----------------------------------------------------------------------------
(* The inductive invariant *)

\* The state of the send_req of a link
Request == {"null", "active", "sent"}
Stage   == {"working", "resetting", "dormant", "set"}
Buffer  == [start : Nat, items : Seq(Nat)]
Channel == [bufs : [Level -> Buffer], open : BOOLEAN, fill : Nat,
            produced : Nat, emitted : Nat, delivered : Nat, req : Request,
            all_sent : BOOLEAN]

\* The types of the variables
TypeOK ==
  /\ chan     \in [Ranks -> [Ranks -> Channel]]
  /\ mail     \in [Ranks -> [Ranks -> Seq(Buffer)]]
  /\ posts    \in [Ranks -> [Ranks -> Seq({"live", "lost"})]]
  /\ arrived  \in [Ranks -> SUBSET Live]
  /\ inbuf    \in [Ranks -> [Ranks -> Buffer]]
  /\ pending  \in [Ranks -> Seq(Live)]
  /\ taken    \in [Ranks -> Live \cup {NoRank}]
  /\ finished \in [Ranks -> SUBSET Ranks]
  /\ mpi_endgame  \in [Ranks -> BOOLEAN] /\ flushed \in [Ranks -> BOOLEAN]
  /\ drained  \in [Ranks -> BOOLEAN] /\ done \in [Ranks -> BOOLEAN]
  /\ mpi_stage    \in [Ranks -> Stage]
  /\ mpi_round    \in [Ranks -> Nat]
  /\ mpi_pushed   \in [Ranks -> [Ranks -> Nat]]
  /\ mpi_got      \in [Ranks -> [Ranks -> Seq(Nat)]]

\* The counters of a channel: an open buffer is not one that is on its way.
Counts(c) ==
  /\ c.delivered <= c.emitted /\ c.emitted <= c.produced
  /\ c.produced <= c.delivered + 2
  /\ c.open => c.produced <= c.delivered + 1
  /\ c.req = "null" <=> c.emitted = c.delivered
  /\ c.req # "null" => c.emitted = c.delivered + 1
  /\ c.fill <= Len(c.bufs[LevelOf(c.produced)].items)
  /\ ~c.open => c.fill = 0

\* The number of items in the buffers before a buffer of a link
Cuts == [Nat -> Nat]

\* Buffer n of a link, as a sequence of items
IsRun(s, f, n) == /\ Len(s) = f[n+1] - f[n]
                  /\ \A i \in 1 .. Len(s) : s[i] = f[n] + i

\* The number of buffers that MPI has read.
ReadOf(c) == IF c.req = "active" THEN c.emitted - 1 ELSE c.emitted

\* Buffer n of a link carries the items f[n]+1 .. f[n+1].
Holds(c, f, np) ==
  /\ \A i, j \in 0 .. c.produced : i <= j => f[i] <= f[j]
  /\ np = f[c.produced] + c.fill
  /\ \A i \in 1 .. c.fill : c.bufs[LevelOf(c.produced)].items[i] = f[c.produced] + i
  /\ \A n \in ReadOf(c) .. c.produced-1 : IsRun(c.bufs[LevelOf(n)].items, f, n)
  /\ c.all_sent => ~c.open /\ c.emitted = c.produced
  /\ c.req = "active" =>
       /\ c.bufs[LevelOf(c.emitted-1)].start \in 0 .. 1
       /\ c.bufs[LevelOf(c.emitted-1)].start = 1 => c.all_sent

\* The last message was read, and nothing is on its way.
Over(c, m) == c.all_sent /\ m = <<>> /\ c.req # "active"

\* Buffers that were read and not matched yet
Mailed(c, m, f) ==
  /\ Len(m) <= ReadOf(c)
  /\ \A i \in 1 .. Len(m) :
       /\ IsRun(m[i].items, f, ReadOf(c) - Len(m) + i - 1)
       /\ m[i].start \in 0 .. 1
       /\ m[i].start = 1 => i = Len(m) /\ c.all_sent /\ c.req # "active"

\* The buffer with the receiver is number k-1, if it is in arrived (A), listed
\* (L) or neither; F: the link is finished.
Lands(c, m, f, k, b, gs, A, L, F) ==
  /\ \A i \in 1 .. Len(gs) : gs[i] = i
  /\ A # {} => /\ k >= 1 /\ IsRun(b.items, f, k - 1)
               /\ Len(gs) = f[k - 1]
               /\ b.start \in 0 .. 1
               /\ b.start = 1 => Over(c, m)
  /\ L # {} => /\ k >= 1 /\ IsRun(b.items, f, k - 1)
               /\ Len(gs) = f[k - 1] + b.start
               /\ b.start <= Len(b.items)
  /\ A = {} /\ L = {} => Len(gs) = f[k]
  /\ F # {} => Over(c, m)

\* A link, with the numbers of items in its buffers as the witness
Wire(c, np, m, b, gs, A, L, F) == \E f \in Cuts :
  /\ Holds(c, f, np)
  /\ Mailed(c, m, f)
  /\ Lands(c, m, f, ReadOf(c) - Len(m), b, gs, A, L, F)

\* A receive is posted only if the buffer is not in use and a message may come.
Posted(ps, A, L, F) ==
  /\ ps # <<>> => A = {} /\ L = {} /\ F = {}
  /\ A # {} => L = {} /\ F = {}

\* The sources of a list
Listed(s) == {s[i] : i \in 1 .. Len(s)}

\* The link from p to d
Link(p, d) ==
  /\ Wire(chan[p][d], mpi_pushed[p][d], mail[p][d], inbuf[d][p], mpi_got[d][p],
          arrived[d] \cap {p}, Listed(pending[d]) \cap {p}, finished[d] \cap {p})
  /\ Posted(posts[d][p], arrived[d] \cap {p}, Listed(pending[d]) \cap {p},
            finished[d] \cap {p})

\* Not between the barriers of reset and setup
AtWork(p) == mpi_stage[p] \in {"working", "resetting"}

\* MPI holds nothing of the link.
Quiet(p, d) == posts[d][p] = <<>> /\ mail[p][d] = <<>> /\ chan[p][d].req = "null"

\* The state a new round starts from
Fresh(p) ==
  /\ chan[p] = [d \in Ranks |-> NewChannel(d)]
  /\ arrived[p] = {} /\ pending[p] = <<>> /\ taken[p] = NoRank
  /\ finished[p] = Ranks \ Live
  /\ ~drained[p] /\ ~mpi_endgame[p] /\ ~flushed[p] /\ ~done[p]
  /\ mpi_pushed[p] = [d \in Ranks |-> 0] /\ mpi_got[p] = [s \in Ranks |-> <<>>]

\* Every channel counts right.
CountsInv == \A p, d \in Ranks : Counts(chan[p][d])

\* pending lists no source twice; what is borrowed is its head.
ListInv == \A d \in Ranks :
  /\ \A i, j \in 1 .. Len(pending[d]) : pending[d][i] = pending[d][j] => i = j
  /\ taken[d] # NoRank => pending[d] # <<>> /\ taken[d] = Head(pending[d])

\* At most one receive is posted per link, and recv_req knows it.
PostInv == \A p, d \in Ranks : /\ posts[d][p] \in {<<>>, <<"live">>}
                               /\ posts[d][p] # <<>> => p \in Live

\* Nothing is sent to or by a rank that stands for no PE.
DeadInv == \A p, d \in Ranks : ~({p, d} \subseteq Live) =>
  chan[p][d].req = "null" /\ mail[p][d] = <<>> /\ (d \notin Live => chan[p][d].all_sent)

\* What flushed, drained and the barriers stand for
EndInv ==
  /\ \A p, d \in Live : chan[p][d].all_sent => done[p]
  /\ \A p \in Ranks : flushed[p] =>
       /\ done[p]
       /\ \A d \in Ranks : chan[p][d].all_sent /\ chan[p][d].delivered = chan[p][d].emitted
  /\ \A d \in Ranks : drained[d] => finished[d] = Ranks
  /\ \A p \in Live : mpi_stage[p] \in {"resetting", "dormant"} => flushed[p] /\ drained[p]

\* All PEs are at work in the same round, or none is; otherwise those that have set
\* up are one round ahead.
RoundInv == \A p, q \in Live :
  /\ AtWork(p) => AtWork(q) /\ mpi_round[p] = mpi_round[q]
  /\ ~AtWork(p) => mpi_round[q] = IF mpi_stage[p] = mpi_stage[q] THEN mpi_round[p]
                              ELSE IF mpi_stage[p] = "set" THEN mpi_round[p] - 1 ELSE mpi_round[p] + 1

\* The links, at work and between rounds
LinkInv == \A p, d \in Live : /\ AtWork(p) => Link(p, d)
                              /\ ~AtWork(p) => Quiet(p, d)

\* Setup leaves no trace of the round before.
FreshInv == \A p \in Live : mpi_stage[p] = "set" => Fresh(p)

\* The inductive invariant
IInv == TypeOK /\ CountsInv /\ ListInv /\ PostInv /\ DeadInv /\ EndInv /\ RoundInv /\ LinkInv /\ FreshInv

-----------------------------------------------------------------------------
(* Channels: what the operators of MpiPorter do to one *)

\* The two send buffers take turns.
LEMMA Levels == \A n \in Nat : /\ LevelOf(n) \in Level
                               /\ LevelOf(n+1) # LevelOf(n)
BY DEF LevelOf, Level

\* Cuts are numbers.
LEMMA CutAt == \A f \in Cuts : \A n \in Nat : f[n] \in Nat
BY DEF Cuts

\* The fields of a channel.
LEMMA FieldTypes ==
  ASSUME NEW c \in Channel
  PROVE  /\ c.produced \in Nat /\ c.emitted \in Nat /\ c.delivered \in Nat
         /\ c.fill \in Nat /\ c.open \in BOOLEAN /\ c.all_sent \in BOOLEAN
         /\ c.req \in Request /\ c.bufs \in [Level -> Buffer]
         /\ \A k \in Level : /\ c.bufs[k] \in Buffer
                             /\ c.bufs[k].items \in Seq(Nat)
                             /\ Len(c.bufs[k].items) \in Nat
                             /\ \A i \in 1 .. Len(c.bufs[k].items) : c.bufs[k].items[i] \in Nat
         /\ c.bufs[LevelOf(c.produced)] \in Buffer
<1>1. /\ c.produced \in Nat /\ c.emitted \in Nat /\ c.delivered \in Nat
      /\ c.fill \in Nat /\ c.open \in BOOLEAN /\ c.all_sent \in BOOLEAN
      /\ c.req \in Request /\ c.bufs \in [Level -> Buffer]
  BY DEF Channel
<1>2. ASSUME NEW k \in Level
      PROVE  /\ c.bufs[k] \in Buffer
             /\ c.bufs[k].items \in Seq(Nat)
             /\ Len(c.bufs[k].items) \in Nat
             /\ \A i \in 1 .. Len(c.bufs[k].items) : c.bufs[k].items[i] \in Nat
  <2>1. c.bufs[k] \in Buffer
    BY <1>1
  <2>2. c.bufs[k].items \in Seq(Nat)
    BY <2>1 DEF Buffer
  <2>3. QED
    BY <2>1, <2>2, LenProperties, ElementOfSeq
<1>3. QED
  BY <1>1, <1>2, Levels

\* Its numbers, for the steps that only count.
LEMMA Numbers ==
  ASSUME NEW c \in Channel
  PROVE  /\ c.produced \in Nat /\ c.emitted \in Nat /\ c.delivered \in Nat
         /\ c.fill \in Nat
         /\ LevelOf(c.produced) \in Level
         /\ Len(c.bufs[LevelOf(c.produced)].items) \in Nat
BY FieldTypes, Levels

\* The order of the counters of a channel.
LEMMA Order ==
  ASSUME NEW c \in Channel, Counts(c)
  PROVE  /\ c.produced \in Nat /\ c.emitted \in Nat /\ c.delivered \in Nat
         /\ c.fill \in Nat
         /\ c.delivered <= c.emitted /\ c.emitted <= c.produced
         /\ c.produced <= c.delivered + 2
         /\ c.open => c.produced <= c.delivered + 1
         /\ c.req = "active" => c.emitted = c.delivered + 1
BY Numbers DEF Counts

\* Written() puts one item into the open buffer and leaves the other alone.
LEMMA WrittenIs ==
  ASSUME NEW c \in Channel, c.fill <= Len(c.bufs[LevelOf(c.produced)].items),
         NEW x \in Nat
  PROVE  LET w == Written(c, x)
             l == LevelOf(c.produced)
         IN /\ w \in Channel
            /\ w.fill = c.fill + 1 /\ w.open = c.open /\ w.req = c.req
            /\ w.produced = c.produced /\ w.emitted = c.emitted
            /\ w.delivered = c.delivered /\ w.all_sent = c.all_sent
            /\ \A k \in Level : k # l => w.bufs[k] = c.bufs[k]
            /\ \A k \in Level : w.bufs[k].start = c.bufs[k].start
<1> DEFINE l == LevelOf(c.produced)
           s == SubSeq(c.bufs[l].items, 1, c.fill)
           a == Append(s, x)
           w == Written(c, x)
<1>1. l \in Level /\ c.bufs[l] \in Buffer
  BY Levels DEF Channel
<1>2. /\ s \in Seq(Nat) /\ Len(s) = c.fill
      /\ \A i \in 1 .. c.fill : s[i] = c.bufs[l].items[i]
  <2>1. c.bufs[l].items \in Seq(Nat) /\ c.fill \in Nat
    BY <1>1 DEF Buffer, Channel
  <2>2. \A i \in 1 .. c.fill : c.bufs[l].items[i] \in Nat
    BY <2>1, ElementOfSeq
  <2>3. QED
    BY <2>1, <2>2, SubSeqProperties
<1>3. /\ a \in Seq(Nat) /\ Len(a) = c.fill + 1
      /\ \A i \in 1 .. c.fill : a[i] = c.bufs[l].items[i]
      /\ a[c.fill + 1] = x
  BY <1>2, AppendProperties
<1>4. w = [c EXCEPT !.bufs = [c.bufs EXCEPT ![l] = [c.bufs[l] EXCEPT !.items = a]],
                    !.fill = c.fill + 1]
  BY <1>1 DEF Written, Channel
<1> HIDE DEF l, a, w
<1>5. [c.bufs[l] EXCEPT !.items = a] \in Buffer
  BY <1>1, <1>3 DEF Buffer
<1>6. w \in Channel
  <2> DEFINE B == [c.bufs EXCEPT ![l] = [c.bufs[l] EXCEPT !.items = a]]
  <2>1. B \in [Level -> Buffer]
    BY <1>1, <1>5 DEF Channel
  <2>2. w = [c EXCEPT !.bufs = B, !.fill = c.fill + 1]
    BY <1>4
  <2> HIDE DEF B
  <2>3. c.fill + 1 \in Nat
    BY FieldTypes
  <2>4. QED
    BY <2>1, <2>2, <2>3 DEF Channel
<1>7. w.bufs = [c.bufs EXCEPT ![l] = [c.bufs[l] EXCEPT !.items = a]]
  BY <1>4 DEF Channel
<1>8. /\ w.bufs[l].items = a /\ w.bufs[l].start = c.bufs[l].start
      /\ \A k \in Level : k # l => w.bufs[k] = c.bufs[k]
  BY <1>1, <1>7 DEF Channel, Buffer
<1>9. /\ w.fill = c.fill + 1 /\ w.open = c.open /\ w.req = c.req
      /\ w.produced = c.produced /\ w.emitted = c.emitted
      /\ w.delivered = c.delivered /\ w.all_sent = c.all_sent
  BY <1>4 DEF Channel
<1>10. \A k \in Level : w.bufs[k].start = c.bufs[k].start
  BY <1>8
<1>11. QED
  BY <1>3, <1>6, <1>8, <1>9, <1>10 DEF l, w

\* ... after those that were there.
LEMMA WrittenItems ==
  ASSUME NEW c \in Channel, c.fill <= Len(c.bufs[LevelOf(c.produced)].items),
         NEW x \in Nat
  PROVE  LET w == Written(c, x)
             l == LevelOf(c.produced)
         IN /\ Len(w.bufs[l].items) = c.fill + 1
            /\ \A i \in 1 .. c.fill : w.bufs[l].items[i] = c.bufs[l].items[i]
            /\ w.bufs[l].items[c.fill + 1] = x
<1> DEFINE l == LevelOf(c.produced)
           s == SubSeq(c.bufs[l].items, 1, c.fill)
           a == Append(s, x)
           w == Written(c, x)
<1>1. l \in Level /\ c.bufs[l] \in Buffer
  BY Levels DEF Channel
<1>2. /\ s \in Seq(Nat) /\ Len(s) = c.fill
      /\ \A i \in 1 .. c.fill : s[i] = c.bufs[l].items[i]
  <2>1. c.bufs[l].items \in Seq(Nat) /\ c.fill \in Nat
    BY <1>1 DEF Buffer, Channel
  <2>2. \A i \in 1 .. c.fill : c.bufs[l].items[i] \in Nat
    BY <2>1, ElementOfSeq
  <2>3. QED
    BY <2>1, <2>2, SubSeqProperties
<1>3. /\ a \in Seq(Nat) /\ Len(a) = c.fill + 1
      /\ \A i \in 1 .. c.fill : a[i] = c.bufs[l].items[i]
      /\ a[c.fill + 1] = x
  BY <1>2, AppendProperties
<1>4. w = [c EXCEPT !.bufs = [c.bufs EXCEPT ![l] = [c.bufs[l] EXCEPT !.items = a]],
                    !.fill = c.fill + 1]
  BY <1>1 DEF Written, Channel
<1> HIDE DEF l, a, w
<1>5. [c.bufs[l] EXCEPT !.items = a] \in Buffer
  BY <1>1, <1>3 DEF Buffer
<1>6. w \in Channel
  <2> DEFINE B == [c.bufs EXCEPT ![l] = [c.bufs[l] EXCEPT !.items = a]]
  <2>1. B \in [Level -> Buffer]
    BY <1>1, <1>5 DEF Channel
  <2>2. w = [c EXCEPT !.bufs = B, !.fill = c.fill + 1]
    BY <1>4
  <2> HIDE DEF B
  <2>3. c.fill + 1 \in Nat
    BY FieldTypes
  <2>4. QED
    BY <2>1, <2>2, <2>3 DEF Channel
<1>7. w.bufs = [c.bufs EXCEPT ![l] = [c.bufs[l] EXCEPT !.items = a]]
  BY <1>4 DEF Channel
<1>8. /\ w.bufs[l].items = a /\ w.bufs[l].start = c.bufs[l].start
      /\ \A k \in Level : k # l => w.bufs[k] = c.bufs[k]
  BY <1>1, <1>7 DEF Channel, Buffer
<1>9. /\ w.fill = c.fill + 1 /\ w.open = c.open /\ w.req = c.req
      /\ w.produced = c.produced /\ w.emitted = c.emitted
      /\ w.delivered = c.delivered /\ w.all_sent = c.all_sent
  BY <1>4 DEF Channel
<1>10. \A k \in Level : w.bufs[k].start = c.bufs[k].start
  BY <1>8
<1>11. QED
  BY <1>3, <1>6, <1>8, <1>9, <1>10 DEF l, w

\* Closed() cuts the open buffer off behind its last item.
LEMMA ClosedIs ==
  ASSUME NEW c \in Channel, c.fill <= Len(c.bufs[LevelOf(c.produced)].items)
  PROVE  LET w == Closed(c)
             l == LevelOf(c.produced)
         IN /\ w \in Channel
            /\ w.fill = 0 /\ w.open = FALSE /\ w.req = c.req
            /\ w.produced = c.produced + 1 /\ w.emitted = c.emitted
            /\ w.delivered = c.delivered /\ w.all_sent = c.all_sent
            /\ Len(w.bufs[l].items) = c.fill
            /\ \A i \in 1 .. c.fill : w.bufs[l].items[i] = c.bufs[l].items[i]
            /\ \A k \in Level : k # l => w.bufs[k] = c.bufs[k]
<1> DEFINE l == LevelOf(c.produced)
           s == SubSeq(c.bufs[l].items, 1, c.fill)
           w == Closed(c)
<1>1. l \in Level /\ c.bufs[l] \in Buffer
  BY Levels DEF Channel
<1>2. /\ s \in Seq(Nat) /\ Len(s) = c.fill
      /\ \A i \in 1 .. c.fill : s[i] = c.bufs[l].items[i]
  <2>1. c.bufs[l].items \in Seq(Nat) /\ c.fill \in Nat
    BY <1>1 DEF Buffer, Channel
  <2>2. \A i \in 1 .. c.fill : c.bufs[l].items[i] \in Nat
    <3>1. \A i \in 1 .. Len(c.bufs[l].items) : c.bufs[l].items[i] \in Nat
      BY <1>1, FieldTypes
    <3>2. QED
      BY <2>1, <3>1, LenProperties DEF l
  <2>3. QED
    BY <2>1, <2>2, SubSeqProperties
<1>3. w = [c EXCEPT !.bufs = [c.bufs EXCEPT ![l] = [start |-> 0, items |-> s]],
                    !.open = FALSE, !.fill = 0, !.produced = c.produced + 1]
  BY <1>1 DEF Closed, Channel
<1> HIDE DEF l, s, w
<1>4. [start |-> 0, items |-> s] \in Buffer
  BY <1>2 DEF Buffer
<1>5. w \in Channel
  <2> DEFINE B == [c.bufs EXCEPT ![l] = [start |-> 0, items |-> s]]
  <2>1. B \in [Level -> Buffer]
    BY <1>1, <1>4 DEF Channel
  <2>2. w = [c EXCEPT !.bufs = B, !.open = FALSE, !.fill = 0,
                      !.produced = c.produced + 1]
    BY <1>3
  <2> HIDE DEF B
  <2>3. c.produced + 1 \in Nat
    BY FieldTypes
  <2>4. QED
    BY <2>1, <2>2, <2>3 DEF Channel
<1>6. w.bufs = [c.bufs EXCEPT ![l] = [start |-> 0, items |-> s]]
  BY <1>3 DEF Channel
<1>7. /\ w.bufs[l].items = s
      /\ \A k \in Level : k # l => w.bufs[k] = c.bufs[k]
  BY <1>1, <1>6 DEF Channel
<1>8. /\ w.fill = 0 /\ w.open = FALSE /\ w.req = c.req
      /\ w.produced = c.produced + 1 /\ w.emitted = c.emitted
      /\ w.delivered = c.delivered /\ w.all_sent = c.all_sent
  BY <1>3 DEF Channel
<1>9. QED
  BY <1>2, <1>5, <1>7, <1>8 DEF l, w

\* Tested() takes note of a completed send.
LEMMA TestedIs ==
  ASSUME NEW c \in Channel
  PROVE  LET t == Tested(c)
         IN /\ t \in Channel /\ t.bufs = c.bufs
            /\ t.fill = c.fill /\ t.open = c.open /\ t.produced = c.produced
            /\ t.emitted = c.emitted /\ t.all_sent = c.all_sent
            /\ c.req = "sent" => t.req = "null" /\ t.delivered = c.delivered + 1
            /\ c.req # "sent" => t = c
<1> DEFINE B == [Level -> Buffer]
           t == Tested(c)
<1>1. c \in [bufs : B, open : BOOLEAN, fill : Nat, produced : Nat,
             emitted : Nat, delivered : Nat, req : Request, all_sent : BOOLEAN]
  BY DEF Channel
<1> HIDE DEF B
<1>2. CASE c.req = "sent"
  <2>1. t = [c EXCEPT !.req = "null", !.delivered = c.delivered + 1]
    BY <1>1, <1>2 DEF Tested
  <2>2. t \in [bufs : B, open : BOOLEAN, fill : Nat, produced : Nat,
             emitted : Nat, delivered : Nat, req : Request, all_sent : BOOLEAN]
    <3>1. c.delivered + 1 \in Nat
      BY FieldTypes
    <3>2. QED
      BY <1>1, <2>1, <3>1 DEF Request
  <2>3. /\ t.bufs = c.bufs /\ t.fill = c.fill /\ t.open = c.open
        /\ t.produced = c.produced /\ t.emitted = c.emitted
        /\ t.all_sent = c.all_sent /\ t.req = "null"
        /\ t.delivered = c.delivered + 1
    BY <1>1, <2>1
  <2>4. t \in Channel
    BY <2>2 DEF B, Channel
  <2>5. QED
    BY <1>2, <2>3, <2>4 DEF t
<1>3. CASE c.req # "sent"
  BY <1>3 DEF Tested
<1>4. QED
  BY <1>2, <1>3

\* Emitted() gives the oldest closed buffer to MPI, or does nothing.
LEMMA EmittedIs ==
  ASSUME NEW c \in Channel, NEW end \in BOOLEAN, Emits(c)
  PROVE  LET t == Emitted(end, c)
             l == LevelOf(c.emitted)
         IN /\ t \in Channel
            /\ t.fill = c.fill /\ t.open = c.open /\ t.produced = c.produced
            /\ t.emitted = c.emitted + 1 /\ t.delivered = c.delivered
            /\ t.all_sent = Final(end, c) /\ t.req = "active"
            /\ \A k \in Level : t.bufs[k].items = c.bufs[k].items
            /\ t.bufs[l].start \in 0 .. 1
            /\ t.bufs[l].start = 1 => t.all_sent
<1> DEFINE l == LevelOf(c.emitted)
           v == IF Final(end, c) THEN 1 ELSE 0
           fin == Final(end, c)
           t == Emitted(end, c)
<1>1. l \in Level /\ c.bufs[l] \in Buffer
  BY Levels DEF Channel
<1>2. t = [c EXCEPT !.bufs = [c.bufs EXCEPT ![l] = [c.bufs[l] EXCEPT !.start = v]],
                    !.emitted = c.emitted + 1, !.req = "active", !.all_sent = fin]
  BY <1>1 DEF Emitted, Channel
<1>3. v \in 0 .. 1 /\ fin \in BOOLEAN /\ (v = 1 => fin)
  BY DEF Final
<1> HIDE DEF l, v, fin, t
<1>4. [c.bufs[l] EXCEPT !.start = v] \in Buffer
  BY <1>1, <1>3 DEF Buffer
<1>5. t \in Channel
  <2> DEFINE B == [c.bufs EXCEPT ![l] = [c.bufs[l] EXCEPT !.start = v]]
  <2>1. B \in [Level -> Buffer]
    BY <1>1, <1>4 DEF Channel
  <2>2. t = [c EXCEPT !.bufs = B, !.emitted = c.emitted + 1,
                      !.req = "active", !.all_sent = fin]
    BY <1>2
  <2> HIDE DEF B
  <2>3. c.emitted + 1 \in Nat
    BY FieldTypes
  <2>4. QED
    BY <1>3, <2>1, <2>2, <2>3 DEF Channel, Request
<1>6. t.bufs = [c.bufs EXCEPT ![l] = [c.bufs[l] EXCEPT !.start = v]]
  BY <1>2 DEF Channel
<1>7. /\ t.bufs[l].start = v
      /\ \A k \in Level : t.bufs[k].items = c.bufs[k].items
  BY <1>1, <1>6 DEF Channel, Buffer
<1>8. /\ t.fill = c.fill /\ t.open = c.open /\ t.produced = c.produced
      /\ t.emitted = c.emitted + 1 /\ t.delivered = c.delivered
      /\ t.all_sent = fin /\ t.req = "active"
  BY <1>2 DEF Channel
<1>9. QED
  BY <1>3, <1>5, <1>7, <1>8 DEF l, fin, t

\* TrySend() is Tested(), then Emitted(), then perhaps an open buffer.
LEMMA TrySendIs ==
  ASSUME NEW c \in Channel, NEW end \in BOOLEAN
  PROVE  LET e == Emitted(end, Tested(c))
             t == TrySend(end, c)
         IN /\ t \in Channel /\ t.bufs = e.bufs
            /\ t.fill = e.fill /\ t.produced = e.produced
            /\ t.emitted = e.emitted /\ t.delivered = e.delivered
            /\ t.req = e.req /\ t.all_sent = e.all_sent
            /\ t.open = (e.open \/ Opens(end, e, Final(end, Tested(c))))
<1> DEFINE h == Tested(c)
           e == Emitted(end, h)
           o == e.open \/ Opens(end, e, Final(end, h))
           t == TrySend(end, c)
<1>1. e \in Channel
  <2>1. h \in Channel
    BY TestedIs
  <2> HIDE DEF h
  <2>2. CASE Emits(h)
    BY <2>1, <2>2, EmittedIs
  <2>3. CASE ~Emits(h)
    BY <2>1, <2>3 DEF Emitted
  <2>4. QED
    BY <2>2, <2>3
<1>2. t = [e EXCEPT !.open = o]
  BY <1>1 DEF TrySend, Channel
<1>3. o \in BOOLEAN
  BY <1>1 DEF Opens, Channel
<1> HIDE DEF h, e, o, t
<1>4. t \in Channel /\ t.bufs = e.bufs
      /\ t.fill = e.fill /\ t.produced = e.produced
      /\ t.emitted = e.emitted /\ t.delivered = e.delivered
      /\ t.req = e.req /\ t.all_sent = e.all_sent /\ t.open = o
  BY <1>1, <1>2, <1>3 DEF Channel
<1>5. QED
  BY <1>4 DEF t, e, o, h

\* The operators keep the counters in order: porter_push(),
LEMMA WrittenCounts ==
  ASSUME NEW c \in Channel, Counts(c), c.open, NEW x \in Nat
  PROVE  Written(c, x) \in Channel /\ Counts(Written(c, x)) /\ Written(c, x).open
<1> DEFINE w == Written(c, x)
           l == LevelOf(c.produced)
<1>0. /\ c.produced \in Nat /\ c.emitted \in Nat /\ c.delivered \in Nat
      /\ c.fill \in Nat
  BY Numbers
<1>1. c.fill <= Len(c.bufs[l].items)
  BY DEF Counts
<1>2. /\ w \in Channel
      /\ w.fill = c.fill + 1 /\ w.open = c.open /\ w.req = c.req
      /\ w.produced = c.produced /\ w.emitted = c.emitted
      /\ w.delivered = c.delivered
  BY <1>1, WrittenIs
<1>a. Len(w.bufs[l].items) = c.fill + 1
  BY <1>1, WrittenItems
<1> HIDE DEF w
<1>3. Counts(w)
  <2>1. w.bufs[LevelOf(w.produced)].items = w.bufs[l].items
    BY <1>2
  <2> HIDE DEF l
  <2>2. QED
    BY <1>2, <1>a, <2>1, <1>0 DEF Counts
<1>4. QED
  BY <1>2, <1>3 DEF w

\* porter_close_buffer(),
LEMMA ClosedCounts ==
  ASSUME NEW c \in Channel, Counts(c), c.open
  PROVE  Closed(c) \in Channel /\ Counts(Closed(c)) /\ ~Closed(c).open
<1> DEFINE w == Closed(c)
<1>0. /\ c.produced \in Nat /\ c.emitted \in Nat /\ c.delivered \in Nat
      /\ c.fill \in Nat
  BY Numbers
<1>1. c.fill <= Len(c.bufs[LevelOf(c.produced)].items)
  BY DEF Counts
<1>2. /\ w \in Channel
      /\ w.fill = 0 /\ w.open = FALSE /\ w.req = c.req
      /\ w.produced = c.produced + 1 /\ w.emitted = c.emitted
      /\ w.delivered = c.delivered
  BY <1>1, ClosedIs
<1> HIDE DEF w
<1>3. Len(w.bufs[LevelOf(w.produced)].items) \in Nat
  BY <1>2, Numbers
<1>4. Counts(w)
  BY <1>2, <1>3, <1>0 DEF Counts
<1>5. QED
  BY <1>2, <1>4 DEF w

\* mpiport_progress(),
LEMMA TestedCounts ==
  ASSUME NEW c \in Channel, Counts(c)
  PROVE  Tested(c) \in Channel /\ Counts(Tested(c)) /\ Tested(c).open = c.open
<1> DEFINE t == Tested(c)
<1>0. /\ c.produced \in Nat /\ c.emitted \in Nat /\ c.delivered \in Nat
      /\ c.fill \in Nat
  BY Numbers
<1>1. /\ t \in Channel /\ t.bufs = c.bufs
      /\ t.fill = c.fill /\ t.open = c.open /\ t.produced = c.produced
      /\ t.emitted = c.emitted /\ t.all_sent = c.all_sent
      /\ c.req = "sent" => t.req = "null" /\ t.delivered = c.delivered + 1
      /\ c.req # "sent" => t = c
  BY TestedIs
<1> HIDE DEF t
<1>2. CASE c.req = "sent"
  <2>1. Counts(t)
    BY <1>1, <1>2, <1>0 DEF Counts
  <2>2. QED
    BY <1>1, <2>1 DEF t
<1>3. CASE c.req # "sent"
  BY <1>1, <1>3 DEF t
<1>4. QED
  BY <1>2, <1>3

\* mpiport_send(),
LEMMA EmittedCounts ==
  ASSUME NEW c \in Channel, Counts(c), NEW end \in BOOLEAN
  PROVE  /\ Emitted(end, c) \in Channel /\ Counts(Emitted(end, c))
         /\ Emitted(end, c).open = c.open
<1> DEFINE t == Emitted(end, c)
<1>0. /\ c.produced \in Nat /\ c.emitted \in Nat /\ c.delivered \in Nat
      /\ c.fill \in Nat
  BY Numbers
<1>1. CASE Emits(c)
  <2>1. /\ t \in Channel
        /\ t.fill = c.fill /\ t.open = c.open /\ t.produced = c.produced
        /\ t.emitted = c.emitted + 1 /\ t.delivered = c.delivered
        /\ t.req = "active"
        /\ \A k \in Level : t.bufs[k].items = c.bufs[k].items
    BY <1>1, EmittedIs
  <2> HIDE DEF t
  <2>2. t.bufs[LevelOf(t.produced)].items = c.bufs[LevelOf(c.produced)].items
    BY <2>1, <1>0, Levels
  <2>3. Counts(t)
    BY <1>1, <2>1, <2>2, <1>0 DEF Counts, Emits, ready
  <2>4. QED
    BY <2>1, <2>3 DEF t
<1>2. CASE ~Emits(c)
  BY <1>2 DEF Emitted
<1>3. QED
  BY <1>1, <1>2

\* and porter_try_send().
LEMMA TrySendCounts ==
  ASSUME NEW c \in Channel, Counts(c), ~c.open, NEW end \in BOOLEAN
  PROVE  TrySend(end, c) \in Channel /\ Counts(TrySend(end, c))
<1> DEFINE e == Emitted(end, Tested(c))
           t == TrySend(end, c)
<1>0. /\ c.produced \in Nat /\ c.emitted \in Nat /\ c.delivered \in Nat
      /\ c.fill \in Nat
  BY Numbers
<1>1. e \in Channel /\ Counts(e) /\ e.open = c.open
  BY TestedCounts, EmittedCounts
<1>2. /\ t \in Channel /\ t.bufs = e.bufs
      /\ t.fill = e.fill /\ t.produced = e.produced
      /\ t.emitted = e.emitted /\ t.delivered = e.delivered /\ t.req = e.req
      /\ t.open = (e.open \/ Opens(end, e, Final(end, Tested(c))))
  BY TrySendIs
<1>3. t.open => e.produced <= e.delivered + 1
  BY <1>1, <1>2 DEF Opens
<1>4. e.fill = 0
  BY <1>1 DEF Counts
<1> HIDE DEF e, t
<1>5. Counts(t)
  BY <1>1, <1>2, <1>3, <1>4, <1>0 DEF Counts
<1>6. QED
  BY <1>2, <1>5 DEF t

\* A channel moves on without MPI having read anything.
Follows(c, t) ==
  /\ ReadOf(t) = ReadOf(c)
  /\ c.all_sent /\ c.req # "active" => t.all_sent /\ t.req # "active"

\* The number of buffers that were read, among the counters.
LEMMA ReadType == ASSUME NEW c \in Channel, Counts(c)
                  PROVE  /\ c.delivered <= ReadOf(c) /\ ReadOf(c) <= c.emitted
                         /\ c.emitted <= c.produced /\ ReadOf(c) \in Nat
BY Numbers DEF ReadOf, Counts, Request

\* The cuts of a link still fit when an item is written,
LEMMA WrittenHolds ==
  ASSUME NEW c \in Channel, Counts(c), c.open, ~c.all_sent, NEW np \in Nat,
         NEW f \in Cuts, Holds(c, f, np)
  PROVE  /\ Holds(Written(c, np + 1), f, np + 1)
         /\ Follows(c, Written(c, np + 1))
         /\ ~Written(c, np + 1).all_sent
<1> DEFINE w == Written(c, np + 1)
           l == LevelOf(c.produced)
<1>0. /\ c.produced \in Nat /\ c.emitted \in Nat /\ c.delivered \in Nat
      /\ c.fill \in Nat
      /\ c.delivered <= c.emitted /\ c.emitted <= c.produced
      /\ c.produced <= c.delivered + 2
      /\ c.open => c.produced <= c.delivered + 1
      /\ c.req = "active" => c.emitted = c.delivered + 1
  BY Order
<1>1. c.fill <= Len(c.bufs[l].items) /\ np + 1 \in Nat
  BY DEF Counts
<1>2. /\ w \in Channel
      /\ w.fill = c.fill + 1 /\ w.open = c.open /\ w.req = c.req
      /\ w.produced = c.produced /\ w.emitted = c.emitted
      /\ w.delivered = c.delivered /\ w.all_sent = c.all_sent
      /\ \A k \in Level : k # l => w.bufs[k] = c.bufs[k]
      /\ \A k \in Level : w.bufs[k].start = c.bufs[k].start
  BY <1>1, WrittenIs
<1>a. /\ \A i \in 1 .. c.fill : w.bufs[l].items[i] = c.bufs[l].items[i]
      /\ w.bufs[l].items[c.fill + 1] = np + 1
  BY <1>1, WrittenItems
<1> HIDE DEF w
<1>3. /\ ReadOf(w) = ReadOf(c) /\ c.delivered <= ReadOf(c) /\ ReadOf(c) <= c.emitted /\ ReadOf(c) \in Nat /\ Follows(c, w)
  BY <1>2, ReadType DEF ReadOf, Follows
<1>4. \A i, j \in 0 .. w.produced : i <= j => f[i] <= f[j]
  BY <1>2 DEF Holds
<1>5. np + 1 = f[w.produced] + w.fill
  <2>1. f[c.produced] \in Nat /\ np = f[c.produced] + c.fill
    BY <1>0, CutAt DEF Holds
  <2>2. QED
    BY <1>2, <1>0, <2>1
<1>6. \A i \in 1 .. w.fill : w.bufs[LevelOf(w.produced)].items[i] = f[w.produced] + i
  <2> SUFFICES ASSUME NEW i \in 1 .. c.fill + 1
               PROVE  w.bufs[l].items[i] = f[c.produced] + i
    BY <1>2
  <2>1. CASE i = c.fill + 1
    BY <1>a, <1>2, <1>5, <2>1, <1>0
  <2>2. CASE i \in 1 .. c.fill
    BY <1>a, <2>2 DEF Holds
  <2>3. QED
    BY <2>1, <2>2, <1>0
<1>7. ASSUME NEW n \in ReadOf(w) .. w.produced-1
      PROVE  IsRun(w.bufs[LevelOf(n)].items, f, n)
  <2>1. n \in Nat /\ n + 1 = c.produced
    <3>1. n \in ReadOf(c) .. c.produced-1
      BY <1>2, <1>3
    <3>2. QED
      BY <1>3, <3>1, <1>0
  <2>2. LevelOf(n) \in Level /\ LevelOf(n) # l
    BY <2>1, Levels
  <2>3. IsRun(c.bufs[LevelOf(n)].items, f, n)
    BY <1>2, <1>3 DEF Holds
  <2>4. QED
    BY <1>2, <2>2, <2>3
<1>8. w.req = "active" =>
       /\ w.bufs[LevelOf(w.emitted-1)].start \in 0 .. 1
       /\ w.bufs[LevelOf(w.emitted-1)].start = 1 => w.all_sent
  <2> SUFFICES ASSUME c.req = "active"
               PROVE  /\ w.bufs[LevelOf(c.emitted-1)].start \in 0 .. 1
                      /\ w.bufs[LevelOf(c.emitted-1)].start = 1 => c.all_sent
    BY <1>2
  <2>1. c.emitted-1 \in Nat
    BY <1>0
  <2>2. w.bufs[LevelOf(c.emitted-1)].start = c.bufs[LevelOf(c.emitted-1)].start
    BY <1>2, <2>1, Levels
  <2>3. QED
    BY <2>2 DEF Holds
<1>9. ~w.all_sent
  BY <1>2
<1>10. QED
  BY <1>3, <1>4, <1>5, <1>6, <1>7, <1>8, <1>9 DEF Holds, w

\* f, and np after the buffer that is closed
Until(f, c, np) == [f EXCEPT ![c.produced + 1] = np]

\* fit with one cut more when a buffer is closed,
LEMMA ClosedHolds ==
  ASSUME NEW c \in Channel, Counts(c), c.open, NEW np \in Nat,
         NEW f \in Cuts, Holds(c, f, np)
  PROVE  /\ Until(f, c, np) \in Cuts
         /\ \A i \in 0 .. c.produced : Until(f, c, np)[i] = f[i]
         /\ Holds(Closed(c), Until(f, c, np), np)
         /\ Follows(c, Closed(c))
         /\ ~Closed(c).all_sent
<1> DEFINE w == Closed(c)
           l == LevelOf(c.produced)
           g == Until(f, c, np)
<1>0. /\ c.produced \in Nat /\ c.emitted \in Nat /\ c.delivered \in Nat
      /\ c.fill \in Nat
      /\ c.delivered <= c.emitted /\ c.emitted <= c.produced
      /\ c.produced <= c.delivered + 2
      /\ c.open => c.produced <= c.delivered + 1
      /\ c.req = "active" => c.emitted = c.delivered + 1
  BY Order
<1>1. c.fill <= Len(c.bufs[l].items) /\ ~c.all_sent
  BY DEF Counts, Holds
<1>2. /\ w \in Channel
      /\ w.fill = 0 /\ w.open = FALSE /\ w.req = c.req
      /\ w.produced = c.produced + 1 /\ w.emitted = c.emitted
      /\ w.delivered = c.delivered /\ w.all_sent = c.all_sent
      /\ \A i \in 1 .. c.fill : w.bufs[l].items[i] = c.bufs[l].items[i]
      /\ \A k \in Level : k # l => w.bufs[k] = c.bufs[k]
  BY <1>1, ClosedIs
<1>3. /\ g \in Cuts /\ g[c.produced + 1] = np
      /\ \A i \in 0 .. c.produced : g[i] = f[i]
  <2>1. c.produced \in Nat /\ c.produced + 1 \in Nat
    BY <1>0
  <2>2. \A i \in 0 .. c.produced : i \in Nat /\ i # c.produced + 1
    BY <2>1
  <2>3. QED
    BY <2>1, <2>2 DEF Until, Cuts
<1>a. Len(w.bufs[l].items) = c.fill
  BY <1>1, ClosedIs
<1> HIDE DEF w, g
<1>4. ReadOf(w) = ReadOf(c) /\ c.delivered <= ReadOf(c) /\ ReadOf(c) <= c.emitted /\ ReadOf(c) \in Nat /\ Follows(c, w)
  BY <1>2, ReadType DEF ReadOf, Follows
<1>5. /\ np = f[c.produced] + c.fill /\ c.produced \in Nat /\ c.fill \in Nat
      /\ f[c.produced] \in Nat
  BY <1>0, CutAt DEF Holds
<1>6. \A i, j \in 0 .. w.produced : i <= j => g[i] <= g[j]
  <2> SUFFICES ASSUME NEW i \in 0 .. c.produced + 1, NEW j \in 0 .. c.produced + 1, i <= j
               PROVE  g[i] <= g[j]
    BY <1>2
  <2>1. \A k \in 0 .. c.produced : f[k] \in Nat /\ f[k] <= np
    <3> TAKE k \in 0 .. c.produced
    <3>1. f[k] <= f[c.produced] /\ f[k] \in Nat /\ f[c.produced] \in Nat
      BY <1>5, CutAt DEF Holds
    <3>2. QED
      BY <1>5, <3>1
  <2>2. CASE j = c.produced + 1
    BY <1>3, <1>5, <2>1, <2>2
  <2>3. CASE j # c.produced + 1
    <3>1. i \in 0 .. c.produced /\ j \in 0 .. c.produced
      BY <1>5, <2>3
    <3>2. QED
      BY <1>3, <3>1 DEF Holds
  <2>4. QED
    BY <2>2, <2>3
<1>7. np = g[w.produced] + w.fill
  BY <1>2, <1>3
<1>8. \A i \in 1 .. w.fill : w.bufs[LevelOf(w.produced)].items[i] = g[w.produced] + i
  BY <1>2
<1>9. ASSUME NEW n \in ReadOf(w) .. w.produced-1
      PROVE  IsRun(w.bufs[LevelOf(n)].items, g, n)
  <2>1. n \in ReadOf(c) .. c.produced /\ n \in Nat
    BY <1>2, <1>4, <1>5, <1>0
  <2>2. CASE n = c.produced
    <3>1. g[n] = f[n] /\ g[n+1] = np
      BY <1>3, <1>5, <2>2
    <3>2. np - f[c.produced] = c.fill
      BY <1>5
    <3>3. \A i \in 1 .. c.fill : w.bufs[l].items[i] = f[c.produced] + i
      BY <1>2 DEF Holds
    <3>4. QED
      BY <1>2, <1>a, <2>2, <3>1, <3>2, <3>3 DEF IsRun
  <2>3. CASE n # c.produced
    <3>0. c.delivered <= n /\ n <= c.produced /\ n \in Nat
      BY <1>4, <2>1, <1>0
    <3>1. n + 1 = c.produced
      BY <2>3, <3>0, <1>0
    <3>2. LevelOf(n) \in Level /\ LevelOf(n) # l
      BY <2>1, <3>1, Levels
    <3>3. IsRun(c.bufs[LevelOf(n)].items, f, n)
      BY <2>1, <2>3, <1>5, <1>0 DEF Holds
    <3>4. g[n] = f[n] /\ g[n+1] = f[n+1]
      BY <1>3, <2>1, <3>1
    <3>5. QED
      BY <1>2, <3>2, <3>3, <3>4 DEF IsRun
  <2>4. QED
    BY <2>2, <2>3
<1>10. w.req = "active" =>
        /\ w.bufs[LevelOf(w.emitted-1)].start \in 0 .. 1
        /\ w.bufs[LevelOf(w.emitted-1)].start = 1 => w.all_sent
  <2> SUFFICES ASSUME c.req = "active"
               PROVE  /\ w.bufs[LevelOf(c.emitted-1)].start \in 0 .. 1
                      /\ w.bufs[LevelOf(c.emitted-1)].start = 1 => c.all_sent
    BY <1>2
  <2>1. c.emitted-1 \in Nat /\ c.emitted = c.produced
    BY <1>0
  <2>2. LevelOf(c.emitted-1) \in Level /\ LevelOf(c.emitted-1) # l
    <3> DEFINE n == c.emitted-1
    <3>1. n \in Nat /\ n + 1 = c.produced
      BY <2>1, <1>0
    <3> HIDE DEF n
    <3>2. LevelOf(n) \in Level /\ LevelOf(n) # l
      BY <3>1, Levels
    <3>3. QED
      BY <3>2 DEF n
  <2>3. QED
    BY <1>2, <2>2 DEF Holds
<1>11. ~w.all_sent
  BY <1>1, <1>2
<1>12. QED
  BY <1>3, <1>4, <1>6, <1>7, <1>8, <1>9, <1>10, <1>11 DEF Holds, w, g

\* and as they are when a send is tested,
LEMMA TestedHolds ==
  ASSUME NEW c \in Channel, Counts(c), NEW np \in Nat, NEW f \in Cuts
  PROVE  /\ Holds(c, f, np) => Holds(Tested(c), f, np)
         /\ Follows(c, Tested(c))
         /\ Tested(c).all_sent = c.all_sent
<1> DEFINE t == Tested(c)
<1>1. /\ t \in Channel /\ t.bufs = c.bufs
      /\ t.fill = c.fill /\ t.open = c.open /\ t.produced = c.produced
      /\ t.emitted = c.emitted /\ t.all_sent = c.all_sent
      /\ c.req = "sent" => t.req = "null" /\ t.delivered = c.delivered + 1
      /\ c.req # "sent" => t = c
  BY TestedIs
<1> HIDE DEF t
<1>2. t.req = "active" <=> c.req = "active"
  BY <1>1
<1>3. ReadOf(t) = ReadOf(c)
  BY <1>1, <1>2 DEF ReadOf
<1>4. Holds(c, f, np) => Holds(t, f, np)
  BY <1>1, <1>2, <1>3 DEF Holds
<1>5. Follows(c, t)
  BY <1>1, <1>2, <1>3 DEF Follows
<1>6. QED
  BY <1>1, <1>4, <1>5 DEF t

\* when a buffer is given to MPI
LEMMA EmittedHolds ==
  ASSUME NEW c \in Channel, Counts(c), ~c.open, ~c.all_sent, NEW end \in BOOLEAN,
         NEW np \in Nat, NEW f \in Cuts, Holds(c, f, np)
  PROVE  /\ Holds(Emitted(end, c), f, np)
         /\ Follows(c, Emitted(end, c))
         /\ Emitted(end, c).all_sent => Final(end, c)
<1>1. CASE Emits(c)
  <2> DEFINE t == Emitted(end, c)
             fin == Final(end, c)
  <2>0. /\ c.produced \in Nat /\ c.emitted \in Nat /\ c.delivered \in Nat
        /\ c.delivered <= c.emitted /\ c.emitted <= c.produced
        /\ c.req # "active"
    BY <1>1, Order DEF Emits, ready
  <2>1. /\ t \in Channel
        /\ t.fill = c.fill /\ t.open = c.open /\ t.produced = c.produced
        /\ t.emitted = c.emitted + 1 /\ t.delivered = c.delivered
        /\ t.all_sent = fin /\ t.req = "active"
        /\ \A k \in Level : t.bufs[k].items = c.bufs[k].items
        /\ t.bufs[LevelOf(c.emitted)].start \in 0 .. 1
        /\ t.bufs[LevelOf(c.emitted)].start = 1 => t.all_sent
    BY <1>1, EmittedIs
  <2>2. fin => c.emitted = c.produced - 1
    BY DEF Final
  <2> HIDE DEF t, fin
  <2>3. ReadOf(t) = c.emitted /\ ReadOf(c) = c.emitted
    BY <2>0, <2>1 DEF ReadOf
  <2>4. \A n \in Nat : t.bufs[LevelOf(n)].items = c.bufs[LevelOf(n)].items
    BY <2>1, Levels
  <2>5. /\ \A i, j \in 0 .. t.produced : i <= j => f[i] <= f[j]
        /\ np = f[t.produced] + t.fill
        /\ \A i \in 1 .. t.fill : t.bufs[LevelOf(t.produced)].items[i] = f[t.produced] + i
    BY <2>0, <2>1, <2>4 DEF Holds
  <2>6. \A n \in ReadOf(t) .. t.produced-1 : IsRun(t.bufs[LevelOf(n)].items, f, n)
    <3>1. \A n \in c.emitted .. c.produced-1 : n \in Nat /\ IsRun(c.bufs[LevelOf(n)].items, f, n)
      BY <2>0, <2>3 DEF Holds
    <3>2. QED
      BY <2>1, <2>3, <2>4, <3>1
  <2>7. t.all_sent => ~t.open /\ t.emitted = t.produced
    BY <2>0, <2>1, <2>2
  <2>8. t.emitted - 1 = c.emitted
    BY <2>0, <2>1
  <2>9. Holds(t, f, np)
    BY <2>1, <2>5, <2>6, <2>7, <2>8 DEF Holds
  <2>10. Follows(c, t)
    BY <2>3 DEF Follows
  <2>11. QED
    BY <2>1, <2>9, <2>10 DEF t, fin
<1>2. CASE ~Emits(c)
  BY <1>2 DEF Emitted, Follows
<1>3. QED
  BY <1>1, <1>2

\* A channel that moves on twice moves on.
LEMMA FollowsTrans ==
  ASSUME NEW a, NEW b, NEW c, Follows(a, b), Follows(b, c)
  PROVE  Follows(a, c)
BY DEF Follows

\* and in porter_try_send().
LEMMA TrySendHolds ==
  ASSUME NEW c \in Channel, Counts(c), ~c.open, ~c.all_sent, NEW end \in BOOLEAN,
         NEW np \in Nat, NEW f \in Cuts, Holds(c, f, np)
  PROVE  /\ Holds(TrySend(end, c), f, np)
         /\ Follows(c, TrySend(end, c))
         /\ TrySend(end, c).all_sent => end
<1> DEFINE h == Tested(c)
           e == Emitted(end, h)
           t == TrySend(end, c)
           fin == Final(end, h)
<1>1. h \in Channel /\ Counts(h) /\ h.open = c.open /\ h.all_sent = c.all_sent
  BY TestedCounts, TestedHolds
<1>2. Holds(h, f, np) /\ Follows(c, h)
  BY TestedHolds
<1>3. e \in Channel /\ Counts(e) /\ e.open = h.open
  <2> HIDE DEF h
  <2>1. QED
    BY <1>1, EmittedCounts
<1>4. Holds(e, f, np) /\ Follows(h, e) /\ (e.all_sent => fin)
  <2> HIDE DEF h
  <2>1. QED
    BY <1>1, <1>2, EmittedHolds
<1>5. /\ t.bufs = e.bufs /\ t.fill = e.fill /\ t.produced = e.produced
      /\ t.emitted = e.emitted /\ t.req = e.req /\ t.all_sent = e.all_sent
      /\ t.open => e.open \/ Opens(end, e, fin)
  BY TrySendIs
<1>6. (fin => end) /\ (Opens(end, e, fin) /\ fin => ~end)
  BY DEF Final, Opens
<1> HIDE DEF h, e, t, fin
<1>7. t.all_sent => ~t.open
  BY <1>1, <1>3, <1>4, <1>5, <1>6
<1>8. ReadOf(t) = ReadOf(e) /\ Follows(e, t)
  BY <1>5 DEF ReadOf, Follows
<1>9. Holds(t, f, np)
  BY <1>4, <1>5, <1>7, <1>8 DEF Holds
<1>10. Follows(c, t)
  BY <1>2, <1>4, <1>8, FollowsTrans
<1>11. t.all_sent => end
  BY <1>4, <1>5, <1>6
<1>12. QED
  BY <1>9, <1>10, <1>11 DEF t

-----------------------------------------------------------------------------
(* Links: what a step of the sender does *)

\* What the sender does leaves the messages on their way alone,
LEMMA MailedFollows ==
  ASSUME NEW c \in Channel, Counts(c), NEW t, Follows(c, t),
         NEW f, NEW g,
         \A i \in 0 .. ReadOf(c) : g[i] = f[i],
         NEW m \in Seq(Buffer), Mailed(c, m, f)
  PROVE  Mailed(t, m, g)
<1>1. ReadOf(t) = ReadOf(c) /\ ReadOf(c) \in Nat /\ Len(m) \in Nat /\ Len(m) <= ReadOf(c)
  BY ReadType, LenProperties DEF Follows, Mailed
<1>2. ASSUME NEW i \in 1 .. Len(m)
      PROVE  /\ IsRun(m[i].items, g, ReadOf(c) - Len(m) + i - 1)
             /\ m[i].start \in 0 .. 1
             /\ m[i].start = 1 => i = Len(m) /\ t.all_sent /\ t.req # "active"
  <2> DEFINE n == ReadOf(c) - Len(m) + i - 1
  <2>1. IsRun(m[i].items, f, n)
    BY DEF Mailed
  <2>2. n \in 0 .. ReadOf(c) /\ n+1 \in 0 .. ReadOf(c)
    BY <1>1
  <2> HIDE DEF n
  <2>3. IsRun(m[i].items, g, n)
    BY <2>1, <2>2 DEF IsRun
  <2>4. QED
    BY <2>3 DEF n, Mailed, Follows
<1>3. QED
  BY <1>1, <1>2 DEF Mailed

\* and what the receiver has.
LEMMA LandsFollows ==
  ASSUME NEW c \in Channel, Counts(c), NEW t, Follows(c, t),
         NEW f, NEW g,
         \A i \in 0 .. ReadOf(c) : g[i] = f[i],
         NEW m, NEW k \in Nat, k <= ReadOf(c), NEW b, NEW gs, NEW A, NEW L, NEW F,
         Lands(c, m, f, k, b, gs, A, L, F)
  PROVE  Lands(t, m, g, k, b, gs, A, L, F)
<1>1. ReadOf(c) \in Nat
  BY ReadType
<1>2. g[k] = f[k]
  BY <1>1
<1>3. Over(c, m) => Over(t, m)
  BY DEF Over, Follows
<1>4. k >= 1 => g[k-1] = f[k-1] /\ (IsRun(b.items, f, k-1) => IsRun(b.items, g, k-1))
  <2> SUFFICES ASSUME k >= 1 PROVE g[k-1] = f[k-1] /\ (IsRun(b.items, f, k-1) => IsRun(b.items, g, k-1))
    OBVIOUS
  <2>1. k-1 \in 0 .. ReadOf(c) /\ (k-1)+1 = k
    BY <1>1
  <2>2. g[k-1] = f[k-1]
    BY <2>1
  <2>3. QED
    BY <1>2, <2>1, <2>2 DEF IsRun
<1>5. QED
  BY <1>2, <1>3, <1>4 DEF Lands

\* A buffer that has arrived was read before.
LEMMA BehindRead ==
  ASSUME NEW c \in Channel, Counts(c), NEW m \in Seq(Buffer), Len(m) <= ReadOf(c)
  PROVE  ReadOf(c) - Len(m) \in Nat /\ ReadOf(c) - Len(m) <= ReadOf(c)
<1>1. ReadOf(c) \in Nat /\ Len(m) \in Nat
  BY ReadType, LenProperties
<1>2. QED
  BY <1>1

\* The cuts of what was read are among those of the link.
LEMMA ReadBounds ==
  ASSUME NEW c \in Channel, Counts(c)
  PROVE  \A i \in 0 .. ReadOf(c) : i \in 0 .. c.produced
<1>1. ReadOf(c) \in Nat /\ ReadOf(c) <= c.produced /\ c.produced \in Nat
  BY ReadType, Order
<1>2. QED
  BY <1>1

\* What one channel's step does to a link
LEMMA WireFollows ==
  ASSUME NEW c \in Channel, Counts(c), NEW t, Follows(c, t), NEW np,
         NEW f \in Cuts, NEW g \in Cuts,
         \A i \in 0 .. ReadOf(c) : g[i] = f[i],
         NEW m \in Seq(Buffer), NEW b, NEW gs, NEW A, NEW L, NEW F,
         Mailed(c, m, f), Lands(c, m, f, ReadOf(c) - Len(m), b, gs, A, L, F),
         Holds(t, g, np)
  PROVE  Wire(t, np, m, b, gs, A, L, F)
<1>1. Mailed(t, m, g)
  BY MailedFollows
<1>2. ReadOf(t) = ReadOf(c) /\ ReadOf(c) \in Nat /\ Len(m) \in Nat /\ Len(m) <= ReadOf(c)
  BY ReadType, LenProperties DEF Follows, Mailed
<1>3. Lands(t, m, g, ReadOf(t) - Len(m), b, gs, A, L, F)
  <2> DEFINE k == ReadOf(c) - Len(m)
  <2>1. k \in Nat /\ k <= ReadOf(c)
    BY BehindRead DEF Mailed
  <2>2. Lands(c, m, f, k, b, gs, A, L, F)
    OBVIOUS
  <2> HIDE DEF k
  <2>3. Lands(t, m, g, k, b, gs, A, L, F)
    BY <2>1, <2>2, LandsFollows
  <2>4. QED
    BY <1>2, <2>3 DEF k
<1>4. QED
  BY <1>1, <1>3 DEF Wire

\* porter_try_send() on a link that is not in the endgame.
LEMMA WireRetry ==
  ASSUME NEW c \in Channel, Counts(c), ~c.open, ~c.all_sent, NEW end \in BOOLEAN,
         NEW np \in Nat, NEW m \in Seq(Buffer), NEW b, NEW gs, NEW A, NEW L, NEW F,
         Wire(c, np, m, b, gs, A, L, F)
  PROVE  /\ Wire(TrySend(end, c), np, m, b, gs, A, L, F)
         /\ TrySend(end, c).all_sent => end
<1>1. PICK f \in Cuts : /\ Holds(c, f, np) /\ Mailed(c, m, f)
                                /\ Lands(c, m, f, ReadOf(c) - Len(m), b, gs, A, L, F)
  BY DEF Wire
<1> DEFINE t == TrySend(end, c)
<1>2. Holds(t, f, np) /\ Follows(c, t) /\ (t.all_sent => end)
  BY <1>1, TrySendHolds
<1> HIDE DEF t
<1>3. Wire(t, np, m, b, gs, A, L, F)
  BY <1>1, <1>2, WireFollows
<1>4. QED
  BY <1>2, <1>3 DEF t

\* A link on which an item is written
LEMMA WireWritten ==
  ASSUME NEW c \in Channel, Counts(c), c.open,
         NEW np \in Nat, NEW m \in Seq(Buffer), NEW b, NEW gs, NEW A, NEW L, NEW F,
         Wire(c, np, m, b, gs, A, L, F)
  PROVE  /\ Wire(Written(c, np+1), np+1, m, b, gs, A, L, F)
         /\ ~Written(c, np+1).all_sent
<1>1. PICK f \in Cuts : /\ Holds(c, f, np) /\ Mailed(c, m, f)
                                /\ Lands(c, m, f, ReadOf(c) - Len(m), b, gs, A, L, F)
  BY DEF Wire
<1> DEFINE t == Written(c, np+1)
<1>2. ~c.all_sent
  BY <1>1 DEF Holds
<1>3. Holds(t, f, np+1) /\ Follows(c, t) /\ ~t.all_sent
  BY <1>1, <1>2, WrittenHolds
<1> HIDE DEF t
<1>4. Wire(t, np+1, m, b, gs, A, L, F)
  BY <1>1, <1>3, WireFollows
<1>5. QED
  BY <1>3, <1>4 DEF t

\* A link of which the open buffer is closed
LEMMA WireClosed ==
  ASSUME NEW c \in Channel, Counts(c), c.open,
         NEW np \in Nat, NEW m \in Seq(Buffer), NEW b, NEW gs, NEW A, NEW L, NEW F,
         Wire(c, np, m, b, gs, A, L, F)
  PROVE  /\ Wire(Closed(c), np, m, b, gs, A, L, F)
         /\ ~Closed(c).all_sent
<1>1. PICK f \in Cuts : /\ Holds(c, f, np) /\ Mailed(c, m, f)
                                /\ Lands(c, m, f, ReadOf(c) - Len(m), b, gs, A, L, F)
  BY DEF Wire
<1> DEFINE t == Closed(c)
           g == Until(f, c, np)
<1>2. /\ Holds(t, g, np) /\ Follows(c, t) /\ ~t.all_sent
      /\ g \in Cuts /\ \A i \in 0 .. c.produced : g[i] = f[i]
  BY <1>1, ClosedHolds
<1> HIDE DEF t, g
<1>3. \A i \in 0 .. ReadOf(c) : g[i] = f[i]
  <2>1. \A i \in 0 .. ReadOf(c) : i \in 0 .. c.produced
    BY ReadBounds
  <2>2. QED
    BY <1>2, <2>1
<1>4. Wire(t, np, m, b, gs, A, L, F)
  BY <1>1, <1>2, <1>3, WireFollows
<1>5. QED
  BY <1>2, <1>4 DEF t

\* A link of which the send is tested
LEMMA WireTested ==
  ASSUME NEW c \in Channel, Counts(c),
         NEW np \in Nat, NEW m \in Seq(Buffer), NEW b, NEW gs, NEW A, NEW L, NEW F,
         Wire(c, np, m, b, gs, A, L, F)
  PROVE  Wire(Tested(c), np, m, b, gs, A, L, F)
<1>1. PICK f \in Cuts : /\ Holds(c, f, np) /\ Mailed(c, m, f)
                                /\ Lands(c, m, f, ReadOf(c) - Len(m), b, gs, A, L, F)
  BY DEF Wire
<1> DEFINE t == Tested(c)
<1>2. Holds(t, f, np) /\ Follows(c, t)
  BY <1>1, TestedHolds
<1> HIDE DEF t
<1>3. Wire(t, np, m, b, gs, A, L, F)
  BY <1>1, <1>2, WireFollows
<1>4. QED
  BY <1>3 DEF t

-----------------------------------------------------------------------------
(* The two things that a client does to a channel *)

\* What Push does to a channel with room
PushOn(c, item) == LET w == Written(c, item)
                   IN IF w.fill = MpiBufItems THEN TrySend(FALSE, Closed(w)) ELSE w

\* What Advance does to a channel
FlushOn(c) == Tested(IF c.all_sent THEN c
                     ELSE TrySend(TRUE, IF c.open THEN Closed(c) ELSE c))

\* Push keeps the counters of a channel in order,
LEMMA PushOnCounts ==
  ASSUME NEW c \in Channel, Counts(c), c.open, NEW x \in Nat
  PROVE  PushOn(c, x) \in Channel /\ Counts(PushOn(c, x))
<1> DEFINE w == Written(c, x)
<1>1. w \in Channel /\ Counts(w) /\ w.open
  BY WrittenCounts
<1> HIDE DEF w
<1>2. Closed(w) \in Channel /\ Counts(Closed(w)) /\ ~Closed(w).open
  BY <1>1, ClosedCounts
<1>3. TrySend(FALSE, Closed(w)) \in Channel /\ Counts(TrySend(FALSE, Closed(w)))
  BY <1>2, TrySendCounts
<1>4. QED
  BY <1>1, <1>3 DEF PushOn, w

\* and so does Advance.
LEMMA FlushOnCounts ==
  ASSUME NEW c \in Channel, Counts(c)
  PROVE  FlushOn(c) \in Channel /\ Counts(FlushOn(c))
<1> DEFINE w == IF c.open THEN Closed(c) ELSE c
           h == IF c.all_sent THEN c ELSE TrySend(TRUE, w)
<1>1. w \in Channel /\ Counts(w) /\ ~w.open
  BY ClosedCounts
<1> HIDE DEF w
<1>2. TrySend(TRUE, w) \in Channel /\ Counts(TrySend(TRUE, w))
  BY <1>1, TrySendCounts
<1>3. h \in Channel /\ Counts(h)
  BY <1>2
<1> HIDE DEF h
<1>4. Tested(h) \in Channel /\ Counts(Tested(h))
  BY <1>3, TestedCounts
<1>5. QED
  BY <1>4 DEF FlushOn, h, w

\* A link after a push
LEMMA WirePush ==
  ASSUME NEW c \in Channel, Counts(c), c.open,
         NEW np \in Nat, NEW m \in Seq(Buffer), NEW b, NEW gs, NEW A, NEW L, NEW F,
         Wire(c, np, m, b, gs, A, L, F)
  PROVE  /\ Wire(PushOn(c, np+1), np+1, m, b, gs, A, L, F)
         /\ ~PushOn(c, np+1).all_sent
<1> DEFINE w == Written(c, np+1)
<1>0. np+1 \in Nat
  OBVIOUS
<1>1. w \in Channel /\ Counts(w) /\ w.open
  BY <1>0, WrittenCounts
<1>2. Wire(w, np+1, m, b, gs, A, L, F) /\ ~w.all_sent
  BY WireWritten
<1> HIDE DEF w
<1> DEFINE x == Closed(w)
<1>3. x \in Channel /\ Counts(x) /\ ~x.open
  BY <1>1, ClosedCounts
<1>4. Wire(x, np+1, m, b, gs, A, L, F) /\ ~x.all_sent
  BY <1>0, <1>1, <1>2, WireClosed
<1> HIDE DEF x
<1>5. Wire(TrySend(FALSE, x), np+1, m, b, gs, A, L, F) /\ ~TrySend(FALSE, x).all_sent
  BY <1>0, <1>3, <1>4, WireRetry
<1>6. QED
  BY <1>2, <1>5 DEF PushOn, w, x

\* A link after porter_try_flush() and the test of its send
LEMMA WireFlush ==
  ASSUME NEW c \in Channel, Counts(c),
         NEW np \in Nat, NEW m \in Seq(Buffer), NEW b, NEW gs, NEW A, NEW L, NEW F,
         Wire(c, np, m, b, gs, A, L, F)
  PROVE  Wire(FlushOn(c), np, m, b, gs, A, L, F)
<1> DEFINE w == IF c.open THEN Closed(c) ELSE c
           h == IF c.all_sent THEN c ELSE TrySend(TRUE, w)
<1>1. w \in Channel /\ Counts(w) /\ ~w.open
  BY ClosedCounts
<1>2. Wire(w, np, m, b, gs, A, L, F) /\ (~c.all_sent => ~w.all_sent)
  BY WireClosed
<1> HIDE DEF w
<1>3. ~c.all_sent => Wire(TrySend(TRUE, w), np, m, b, gs, A, L, F)
  BY <1>1, <1>2, WireRetry
<1>4. TrySend(TRUE, w) \in Channel /\ Counts(TrySend(TRUE, w))
  BY <1>1, TrySendCounts
<1>5. h \in Channel /\ Counts(h) /\ Wire(h, np, m, b, gs, A, L, F)
  BY <1>3, <1>4
<1> HIDE DEF h
<1>6. Wire(Tested(h), np, m, b, gs, A, L, F)
  BY <1>5, WireTested
<1>7. QED
  BY <1>6 DEF FlushOn, h, w

-----------------------------------------------------------------------------
(* Links: MPI *)

\* MPI has read the buffer.
Sent(c) == [c EXCEPT !.req = "sent"]

\* Read changes the request and nothing else.
LEMMA SentIs ==
  ASSUME NEW c \in Channel, Counts(c), c.req = "active"
  PROVE  /\ Sent(c) \in Channel /\ Counts(Sent(c))
         /\ Sent(c).req = "sent" /\ Sent(c).bufs = c.bufs /\ Sent(c).open = c.open
         /\ Sent(c).fill = c.fill /\ Sent(c).produced = c.produced
         /\ Sent(c).emitted = c.emitted /\ Sent(c).delivered = c.delivered
         /\ Sent(c).all_sent = c.all_sent
<1> DEFINE t == Sent(c)
<1>1. /\ t.req = "sent" /\ t.bufs = c.bufs /\ t.open = c.open
      /\ t.fill = c.fill /\ t.produced = c.produced
      /\ t.emitted = c.emitted /\ t.delivered = c.delivered
      /\ t.all_sent = c.all_sent
  BY DEF Sent, Channel
<1>2. t \in Channel
  BY DEF Sent, Channel, Request
<1> HIDE DEF t
<1>3. Counts(t)
  BY <1>1 DEF Counts
<1>4. QED
  BY <1>1, <1>2, <1>3 DEF t

\* The buffer that MPI reads
Active(c) == c.bufs[LevelOf(c.emitted - 1)]

\* The buffer that MPI reads is the next to be read.
LEMMA ActiveType ==
  ASSUME NEW c \in Channel, Counts(c), c.req = "active"
  PROVE  /\ Active(c) \in Buffer
         /\ ReadOf(c) = c.emitted - 1 /\ ReadOf(c) \in Nat /\ ReadOf(c) < c.produced
<1>1. ReadOf(c) = c.emitted - 1 /\ ReadOf(c) \in Nat /\ ReadOf(c) < c.produced
  BY Order DEF ReadOf
<1>2. LevelOf(ReadOf(c)) \in Level
  BY <1>1, Levels
<1>3. QED
  BY <1>1, <1>2, FieldTypes DEF Active

\* The message that is read joins those on their way, as the last.
LEMMA MailedRead ==
  ASSUME NEW c \in Channel, Counts(c), c.req = "active", NEW f,
         NEW m \in Seq(Buffer), Mailed(c, m, f),
         IsRun(Active(c).items, f, ReadOf(c)), Active(c).start \in 0 .. 1,
         Active(c).start = 1 => c.all_sent
  PROVE  /\ Mailed(Sent(c), Append(m, Active(c)), f)
         /\ ReadOf(Sent(c)) - Len(Append(m, Active(c))) = ReadOf(c) - Len(m)
<1> DEFINE t == Sent(c)
           x == Active(c)
           a == Append(m, x)
<1>1. /\ ReadOf(c) \in Nat /\ ReadOf(t) = ReadOf(c) + 1 /\ t.req = "sent"
      /\ t.all_sent = c.all_sent
  BY ActiveType, SentIs, Order DEF ReadOf
<1>2. /\ x \in Buffer /\ a \in Seq(Buffer) /\ Len(a) = Len(m) + 1 /\ Len(m) \in Nat
      /\ \A i \in 1 .. Len(m) : a[i] = m[i]
      /\ a[Len(m) + 1] = x
  BY ActiveType, AppendProperties, LenProperties
<1>3. Len(m) <= ReadOf(c)
  BY DEF Mailed
<1> HIDE DEF t, x, a
<1>4. ASSUME NEW i \in 1 .. Len(a)
      PROVE  /\ IsRun(a[i].items, f, ReadOf(t) - Len(a) + i - 1)
             /\ a[i].start \in 0 .. 1
             /\ a[i].start = 1 => i = Len(a) /\ t.all_sent /\ t.req # "active"
  <2>1. ReadOf(t) - Len(a) + i - 1 = ReadOf(c) - Len(m) + i - 1
    BY <1>1, <1>2
  <2>2. CASE i \in 1 .. Len(m)
    <3>1. IsRun(m[i].items, f, ReadOf(c) - Len(m) + i - 1) /\ m[i].start \in 0 .. 1 /\ m[i].start # 1
      BY <2>2 DEF Mailed
    <3>2. QED
      BY <1>2, <2>1, <2>2, <3>1
  <2>3. CASE i = Len(m) + 1
    <3>1. ReadOf(c) - Len(m) + i - 1 = ReadOf(c)
      BY <1>1, <1>2, <2>3
    <3>2. a[i] = x /\ i = Len(a)
      BY <1>2, <2>3
    <3>3. QED
      BY <1>1, <2>1, <3>1, <3>2 DEF x
  <2>4. QED
    BY <1>2, <2>2, <2>3
<1>5. Len(a) <= ReadOf(t) /\ ReadOf(t) - Len(a) = ReadOf(c) - Len(m)
  BY <1>1, <1>2, <1>3
<1>6. Mailed(t, a, f)
  BY <1>4, <1>5 DEF Mailed
<1>7. QED
  BY <1>5, <1>6 DEF t, a, x

\* A link of which MPI reads a buffer; it is not finished.
LEMMA WireRead ==
  ASSUME NEW c \in Channel, Counts(c), c.req = "active", NEW np \in Nat,
         NEW m \in Seq(Buffer), NEW b, NEW gs, NEW A, NEW L, NEW F,
         Wire(c, np, m, b, gs, A, L, F)
  PROVE  Wire(Sent(c), np, Append(m, Active(c)), b, gs, A, L, F) /\ F = {}
<1>1. PICK f \in Cuts : /\ Holds(c, f, np) /\ Mailed(c, m, f)
                                /\ Lands(c, m, f, ReadOf(c) - Len(m), b, gs, A, L, F)
  BY DEF Wire
<1>2. /\ Active(c).start \in 0 .. 1
      /\ Active(c).start = 1 => c.all_sent
  BY <1>1 DEF Holds, Active
<1>3. IsRun(Active(c).items, f, ReadOf(c))
  <2>1. ReadOf(c) \in ReadOf(c) .. c.produced-1 /\ ReadOf(c) = c.emitted - 1
    BY ActiveType, Numbers
  <2>2. IsRun(c.bufs[LevelOf(ReadOf(c))].items, f, ReadOf(c))
    BY <1>1, <2>1 DEF Holds
  <2>3. QED
    BY <2>1, <2>2 DEF Active
<1> DEFINE t == Sent(c)
           a == Append(m, Active(c))
<1>4. /\ Mailed(t, a, f)
      /\ ReadOf(t) - Len(a) = ReadOf(c) - Len(m)
  BY <1>1, <1>2, <1>3, MailedRead
<1>5. Holds(t, f, np)
  <2>1. /\ t.req = "sent" /\ t.bufs = c.bufs /\ t.open = c.open
        /\ t.fill = c.fill /\ t.produced = c.produced
        /\ t.emitted = c.emitted /\ t.all_sent = c.all_sent
    BY SentIs
  <2>2. \A n \in ReadOf(t) .. t.produced-1 : n \in ReadOf(c) .. c.produced-1
    BY <2>1, ActiveType, Numbers DEF ReadOf
  <2> HIDE DEF t
  <2>3. QED
    BY <1>1, <2>1, <2>2 DEF Holds
<1>6. Lands(t, a, f, ReadOf(c) - Len(m), b, gs, A, L, F) /\ F = {}
  <2>1. ~Over(c, m)
    BY DEF Over
  <2>2. QED
    BY <1>1, <2>1 DEF Lands
<1> HIDE DEF t, a
<1>7. Wire(t, np, a, b, gs, A, L, F)
  BY <1>4, <1>5, <1>6 DEF Wire
<1>8. QED
  BY <1>6, <1>7 DEF t, a

-----------------------------------------------------------------------------
(* MPI puts a message into the receive buffer. *)

\* The message that arrives is the oldest on its way.
LEMMA MailedMatch ==
  ASSUME NEW c \in Channel, Counts(c), NEW f,
         NEW m \in Seq(Buffer), m # <<>>, Mailed(c, m, f)
  PROVE  /\ Mailed(c, Tail(m), f)
         /\ IsRun(Head(m).items, f, ReadOf(c) - Len(m))
         /\ Head(m).start \in 0 .. 1
         /\ Head(m).start = 1 => Over(c, Tail(m))
         /\ ReadOf(c) - Len(Tail(m)) = ReadOf(c) - Len(m) + 1
<1> DEFINE s == Tail(m)
<1>1. ReadOf(c) \in Nat /\ Len(m) <= ReadOf(c)
  BY ReadType DEF Mailed
<1>2. /\ s \in Seq(Buffer) /\ Len(s) = Len(m) - 1 /\ Len(m) \in Nat /\ Len(m) >= 1
      /\ \A i \in 1 .. Len(s) : s[i] = m[i+1]
      /\ Head(m) = m[1]
      /\ Len(s) = 0 => s = <<>>
  <2>1. /\ s \in Seq(Buffer) /\ Len(s) = Len(m) - 1
        /\ \A i \in 1 .. Len(s) : s[i] = m[i+1]
    BY HeadTailProperties
  <2>2. Len(m) \in Nat /\ Len(m) # 0
    BY EmptySeq, LenProperties
  <2>3. Len(s) = 0 => s = <<>>
    BY <2>1, EmptySeq
  <2>4. Head(m) = m[1]
    OBVIOUS
  <2>5. QED
    BY <2>1, <2>2, <2>3, <2>4
<1>3. /\ IsRun(m[1].items, f, ReadOf(c) - Len(m) + 1 - 1)
      /\ m[1].start \in 0 .. 1
      /\ m[1].start = 1 => 1 = Len(m) /\ c.all_sent /\ c.req # "active"
  <2>1. 1 \in 1 .. Len(m)
    BY <1>2
  <2>2. QED
    BY <2>1 DEF Mailed
<1>4. ReadOf(c) - Len(m) + 1 - 1 = ReadOf(c) - Len(m)
  BY <1>1, <1>2
<1>5. Head(m).start = 1 => Over(c, s)
  BY <1>2, <1>3 DEF Over
<1> HIDE DEF s
<1>6. ASSUME NEW i \in 1 .. Len(s)
      PROVE  /\ IsRun(s[i].items, f, ReadOf(c) - Len(s) + i - 1)
             /\ s[i].start \in 0 .. 1
             /\ s[i].start = 1 => i = Len(s) /\ c.all_sent /\ c.req # "active"
  <2>1. /\ i+1 \in 1 .. Len(m)
        /\ ReadOf(c) - Len(m) + (i+1) - 1 = ReadOf(c) - Len(s) + i - 1
        /\ i+1 = Len(m) => i = Len(s)
    BY <1>1, <1>2
  <2>2. /\ IsRun(m[i+1].items, f, ReadOf(c) - Len(m) + (i+1) - 1)
        /\ m[i+1].start \in 0 .. 1
        /\ m[i+1].start = 1 => i+1 = Len(m) /\ c.all_sent /\ c.req # "active"
    BY <2>1 DEF Mailed
  <2>3. QED
    BY <1>2, <2>1, <2>2
<1>7. Len(s) <= ReadOf(c) /\ ReadOf(c) - Len(s) = ReadOf(c) - Len(m) + 1
  BY <1>1, <1>2
<1>8. Mailed(c, s, f)
  BY <1>6, <1>7 DEF Mailed
<1>9. QED
  BY <1>2, <1>3, <1>4, <1>5, <1>7, <1>8 DEF s

\* A link whose oldest message meets a receive
LEMMA WireMatch ==
  ASSUME NEW c \in Channel, Counts(c), NEW np \in Nat,
         NEW m \in Seq(Buffer), m # <<>>, NEW b, NEW gs, NEW A,
         Wire(c, np, m, b, gs, {}, {}, {})
  PROVE  Wire(c, np, Tail(m), Head(m), gs, A, {}, {}) \/ A = {}
<1>1. PICK f \in Cuts : /\ Holds(c, f, np) /\ Mailed(c, m, f)
                                /\ Lands(c, m, f, ReadOf(c) - Len(m), b, gs, {}, {}, {})
  BY DEF Wire
<1> DEFINE k == ReadOf(c) - Len(m)
           s == Tail(m)
           h == Head(m)
<1>2. /\ Mailed(c, s, f) /\ IsRun(h.items, f, k) /\ h.start \in 0 .. 1
      /\ h.start = 1 => Over(c, s)
      /\ ReadOf(c) - Len(s) = k + 1
  BY <1>1, MailedMatch
<1>3. k \in Nat /\ k + 1 >= 1 /\ (k + 1) - 1 = k
  BY <1>1, BehindRead DEF Mailed
<1>4. Len(gs) = f[k] /\ \A i \in 1 .. Len(gs) : gs[i] = i
  BY <1>1 DEF Lands
<1> HIDE DEF k, s, h
<1>5. A # {} => Lands(c, s, f, k + 1, h, gs, A, {}, {})
  BY <1>2, <1>3, <1>4 DEF Lands
<1>6. A # {} => Wire(c, np, s, h, gs, A, {}, {})
  BY <1>1, <1>2, <1>5 DEF Wire
<1>7. QED
  BY <1>6 DEF s, h

-----------------------------------------------------------------------------
(* The receiver borrows, uses up and returns the buffer. *)

\* The buffer as it is borrowed: mpiport_borrow() clears start.
Cleared(b, A) == IF A # {} /\ b.start = 1 THEN [b EXCEPT !.start = 0] ELSE b

\* A link whose message is reported, and listed if it is not empty; it is finished
\* if the message says so.
LEMMA WireBorrow ==
  ASSUME NEW c, NEW np, NEW m, NEW b \in Buffer, NEW gs, NEW A, NEW L, NEW F, NEW G,
         Wire(c, np, m, b, gs, A, {}, F),
         c \in Channel, Counts(c), m \in Seq(Buffer),
         L # {} <=> A # {} /\ b.items # <<>>,
         G # {} => F # {} \/ (A # {} /\ b.start = 1)
  PROVE  Wire(c, np, m, Cleared(b, A), gs, {}, L, G)
<1>1. PICK f \in Cuts : /\ Holds(c, f, np) /\ Mailed(c, m, f)
                                /\ Lands(c, m, f, ReadOf(c) - Len(m), b, gs, A, {}, F)
  BY DEF Wire
<1> DEFINE k == ReadOf(c) - Len(m)
           x == Cleared(b, A)
<1>2. k \in Nat
  BY <1>1, BehindRead DEF Mailed
<1>3. /\ x.items = b.items /\ b.items \in Seq(Nat)
      /\ A # {} /\ b.start \in 0 .. 1 => x.start = 0
  BY DEF Cleared, Buffer
<1>4. Len(b.items) \in Nat /\ (b.items = <<>> <=> Len(b.items) = 0)
  BY <1>3, EmptySeq, LenProperties
<1>5. Lands(c, m, f, k, b, gs, A, {}, F)
  BY <1>1
<1> HIDE DEF k, x
<1>6. G # {} => Over(c, m)
  BY <1>5 DEF Lands
<1>7. A # {} => /\ k >= 1 /\ IsRun(b.items, f, k-1) /\ Len(gs) = f[k-1] /\ x.start = 0
  BY <1>3, <1>5 DEF Lands
<1>8. A = {} => Len(gs) = f[k]
  BY <1>5 DEF Lands
<1>9. A # {} /\ b.items = <<>> => Len(gs) = f[k]
  <2> SUFFICES ASSUME A # {}, b.items = <<>> PROVE Len(gs) = f[k]
    OBVIOUS
  <2>1. f[k-1] \in Nat /\ f[k] \in Nat /\ k-1+1 = k
    BY <1>2, <1>7, CutAt
  <2>2. f[k] - f[k-1] = 0
    BY <1>4, <1>7, <2>1 DEF IsRun
  <2>3. QED
    BY <1>7, <2>1, <2>2
<1>11. L # {} => /\ k >= 1 /\ IsRun(x.items, f, k-1) /\ Len(gs) = f[k-1] + x.start
                 /\ x.start <= Len(x.items)
  <2> SUFFICES ASSUME L # {}
               PROVE  /\ k >= 1 /\ IsRun(x.items, f, k-1) /\ Len(gs) = f[k-1] + x.start
                      /\ x.start <= Len(x.items)
    OBVIOUS
  <2>1. A # {}
    OBVIOUS
  <2>2. k-1 \in Nat /\ f[k-1] \in Nat
    BY <1>2, <1>7, <2>1, CutAt
  <2>3. f[k-1] + x.start = f[k-1]
    BY <1>7, <2>1, <2>2
  <2>4. QED
    BY <1>3, <1>4, <1>7, <2>1, <2>3
<1>12. L = {} => Len(gs) = f[k]
  BY <1>8, <1>9
<1>13. \A i \in 1 .. Len(gs) : gs[i] = i
  BY <1>5 DEF Lands
<1>14. Lands(c, m, f, k, x, gs, {}, L, G)
  BY <1>6, <1>11, <1>12, <1>13 DEF Lands
<1>15. Wire(c, np, m, x, gs, {}, L, G)
  BY <1>1, <1>14 DEF Wire, k
<1>16. QED
  BY <1>15 DEF x

\* A link of which the next item is taken: it is the next of those pushed.
LEMMA WireTake ==
  ASSUME NEW c \in Channel, Counts(c), NEW np \in Nat, NEW m \in Seq(Buffer),
         NEW b \in Buffer, NEW gs \in Seq(Nat), NEW L, NEW F, L # {},
         b.start < Len(b.items), Wire(c, np, m, b, gs, {}, L, F)
  PROVE  /\ Wire(c, np, m, [b EXCEPT !.start = @ + 1],
                 Append(gs, b.items[b.start+1]), {}, L, F)
         /\ b.items[b.start+1] = Len(gs) + 1
         /\ Len(gs) < np
<1>1. PICK f \in Cuts : /\ Holds(c, f, np) /\ Mailed(c, m, f)
                        /\ Lands(c, m, f, ReadOf(c) - Len(m), b, gs, {}, L, F)
  BY DEF Wire
<1> DEFINE k == ReadOf(c) - Len(m)
           x == [b EXCEPT !.start = @ + 1]
           i0 == b.items[b.start+1]
           a == Append(gs, i0)
<1>2. k \in Nat /\ k <= ReadOf(c)
  BY <1>1, BehindRead DEF Mailed
<1>3. b.start \in Nat /\ b.items \in Seq(Nat) /\ Len(b.items) \in Nat
  BY LenProperties DEF Buffer
<1>4. Lands(c, m, f, k, b, gs, {}, L, F)
  BY <1>1
<1>5. b.start + 1 \in 1 .. Len(b.items) /\ b.start + 1 <= Len(b.items)
  BY <1>3
<1>6. x.items = b.items /\ x.start = b.start + 1
  BY DEF Buffer
<1> HIDE DEF k, x
<1>7. /\ k >= 1 /\ IsRun(b.items, f, k-1) /\ Len(gs) = f[k-1] + b.start
      /\ F # {} => Over(c, m)
      /\ \A i \in 1 .. Len(gs) : gs[i] = i
  BY <1>4 DEF Lands
<1>8. k-1 \in Nat /\ k-1+1 = k /\ f[k-1] \in Nat /\ f[k] \in Nat
  <2>1. k-1 \in Nat /\ k-1+1 = k
    BY <1>2, <1>7
  <2>2. QED
    BY <1>2, <2>1, CutAt
<1>9. i0 = f[k-1] + (b.start + 1)
  BY <1>5, <1>7 DEF IsRun
<1>10. i0 = Len(gs) + 1 /\ i0 \in Nat
  <2>1. Len(gs) = f[k-1] + b.start
    BY <1>7
  <2>2. b.start \in Nat /\ f[k-1] \in Nat
    BY <1>3, <1>8
  <2>3. QED
    BY <1>9, <2>1, <2>2
<1>11. /\ a \in Seq(Nat) /\ Len(a) = Len(gs) + 1
       /\ \A i \in 1 .. Len(gs) : a[i] = gs[i]
       /\ a[Len(gs)+1] = i0
  BY <1>10, AppendProperties
<1>12. Len(gs) \in Nat
  BY LenProperties
<1> HIDE DEF i0, a
<1>13. \A i \in 1 .. Len(a) : a[i] = i
  <2> SUFFICES ASSUME NEW i \in 1 .. Len(gs) + 1 PROVE a[i] = i
    BY <1>11
  <2>1. CASE i \in 1 .. Len(gs)
    BY <1>7, <1>11, <2>1
  <2>2. CASE i = Len(gs) + 1
    BY <1>10, <1>11, <2>2
  <2>3. QED
    BY <1>12, <2>1, <2>2
<1>14. Len(a) = f[k-1] + x.start
  BY <1>3, <1>6, <1>7, <1>8, <1>11
<1>15. Lands(c, m, f, k, x, a, {}, L, F)
  BY <1>5, <1>6, <1>7, <1>13, <1>14 DEF Lands
<1>16. Wire(c, np, m, x, a, {}, L, F)
  BY <1>1, <1>15 DEF Wire, k
<1>17. Len(gs) < np
  <2>1. f[k] - f[k-1] = Len(b.items)
    BY <1>7, <1>8 DEF IsRun
  <2>2. Len(gs) < f[k]
    BY <1>3, <1>7, <1>8, <2>1
  <2>3. c.produced \in Nat /\ k <= c.produced /\ c.fill \in Nat /\ f[c.produced] \in Nat
    <3>1. c.produced \in Nat /\ c.fill \in Nat /\ c.emitted \in Nat
      BY Order
    <3>2. ReadOf(c) <= c.emitted /\ c.emitted <= c.produced /\ ReadOf(c) \in Nat
      BY ReadType
    <3>3. k <= c.produced
      BY <1>2, <3>1, <3>2
    <3>4. QED
      BY <3>1, <3>3, CutAt
  <2>4. f[k] <= f[c.produced] /\ np = f[c.produced] + c.fill
    BY <1>1, <1>2, <2>3 DEF Holds
  <2>5. QED
    BY <1>8, <1>12, <2>2, <2>3, <2>4
<1>18. QED
  BY <1>10, <1>16, <1>17 DEF x, a, i0

\* A link whose buffer is returned when it is used up
LEMMA WireReturn ==
  ASSUME NEW c \in Channel, Counts(c), NEW np \in Nat, NEW m \in Seq(Buffer),
         NEW b \in Buffer, NEW gs, NEW L, NEW F, L # {},
         b.start >= Len(b.items), Wire(c, np, m, b, gs, {}, L, F)
  PROVE  Wire(c, np, m, b, gs, {}, {}, F)
<1>1. PICK f \in Cuts : /\ Holds(c, f, np) /\ Mailed(c, m, f)
                        /\ Lands(c, m, f, ReadOf(c) - Len(m), b, gs, {}, L, F)
  BY DEF Wire
<1> DEFINE k == ReadOf(c) - Len(m)
<1>2. k \in Nat
  BY <1>1, BehindRead DEF Mailed
<1>3. b.start \in Nat /\ b.items \in Seq(Nat) /\ Len(b.items) \in Nat
  BY LenProperties DEF Buffer
<1>4. Lands(c, m, f, k, b, gs, {}, L, F)
  BY <1>1
<1> HIDE DEF k
<1>5. /\ k >= 1 /\ IsRun(b.items, f, k-1) /\ Len(gs) = f[k-1] + b.start
      /\ b.start <= Len(b.items)
      /\ F # {} => Over(c, m)
      /\ \A i \in 1 .. Len(gs) : gs[i] = i
  BY <1>4 DEF Lands
<1>6. k-1 \in Nat /\ k-1+1 = k /\ f[k-1] \in Nat /\ f[k] \in Nat
  <2>1. k-1 \in Nat /\ k-1+1 = k
    BY <1>2, <1>5
  <2>2. QED
    BY <1>2, <2>1, CutAt
<1>7. Len(gs) = f[k]
  <2>1. f[k] - f[k-1] = Len(b.items)
    BY <1>5, <1>6 DEF IsRun
  <2>2. QED
    BY <1>3, <1>5, <1>6, <2>1
<1>8. Lands(c, m, f, k, b, gs, {}, {}, F)
  BY <1>5, <1>7 DEF Lands
<1>9. QED
  BY <1>1, <1>8 DEF Wire, k

\* A finished link on which nothing is left has delivered all items.
LEMMA WireOver ==
  ASSUME NEW c \in Channel, Counts(c), NEW np \in Nat, NEW m \in Seq(Buffer),
         NEW b, NEW gs, NEW F, F # {}, Wire(c, np, m, b, gs, {}, {}, F)
  PROVE  Len(gs) = np
<1>1. PICK f \in Cuts : /\ Holds(c, f, np) /\ Mailed(c, m, f)
                        /\ Lands(c, m, f, ReadOf(c) - Len(m), b, gs, {}, {}, F)
  BY DEF Wire
<1>2. Over(c, m) /\ Len(gs) = f[ReadOf(c) - Len(m)]
  BY <1>1 DEF Lands
<1>3. ~c.open /\ c.emitted = c.produced /\ ReadOf(c) = c.produced
  BY <1>1, <1>2 DEF Over, Holds, ReadOf
<1>4. Len(m) = 0 /\ c.produced \in Nat
  BY <1>2, Order DEF Over
<1>5. ReadOf(c) - Len(m) = c.produced
  BY <1>3, <1>4
<1>6. c.fill = 0
  BY <1>3 DEF Counts
<1>7. np = f[c.produced] + 0 /\ f[c.produced] \in Nat
  BY <1>1, <1>4, <1>6, CutAt DEF Holds
<1>8. QED
  BY <1>2, <1>5, <1>7

\* The links of a new round
LEMMA NewChannelIs ==
  ASSUME NEW d \in Ranks
  PROVE  LET c == NewChannel(d)
         IN /\ c \in Channel /\ Counts(c)
            /\ c.open /\ c.fill = 0 /\ c.produced = 0 /\ c.emitted = 0
            /\ c.delivered = 0 /\ c.req = "null" /\ (c.all_sent <=> d \notin Live)
            /\ \A k \in Level : c.bufs[k] = EmptyBuf
<1> DEFINE c == NewChannel(d)
<1>1. EmptyBuf \in Buffer
  BY EmptySeq DEF EmptyBuf, Buffer
<1>2. /\ c.open = TRUE /\ c.fill = 0 /\ c.produced = 0 /\ c.emitted = 0
      /\ c.delivered = 0 /\ c.req = "null" /\ c.all_sent = (d \notin Live)
      /\ c.bufs = [l \in Level |-> EmptyBuf]
  BY DEF NewChannel
<1>3. c \in Channel
  <2> DEFINE B == [l \in Level |-> EmptyBuf]
  <2>1. B \in [Level -> Buffer]
    BY <1>1
  <2>2. c = [bufs |-> B, open |-> TRUE, fill |-> 0,
             produced |-> 0, emitted |-> 0, delivered |-> 0, req |-> "null",
             all_sent |-> d \notin Live]
    BY DEF NewChannel
  <2> HIDE DEF B
  <2>3. QED
    BY <2>1, <2>2 DEF Channel, Request
<1> HIDE DEF c
<1>4. Len(c.bufs[LevelOf(c.produced)].items) \in Nat
  BY <1>3, Numbers
<1>5. Counts(c)
  BY <1>2, <1>4 DEF Counts
<1>6. \A k \in Level : c.bufs[k] = EmptyBuf
  BY <1>2
<1>7. QED
  BY <1>2, <1>3, <1>5, <1>6 DEF c

\* A link on which nothing has happened
LEMMA WireNew ==
  ASSUME NEW d \in Live, NEW b
  PROVE  Wire(NewChannel(d), 0, <<>>, b, <<>>, {}, {}, {})
<1> DEFINE c == NewChannel(d)
           f == [n \in Nat |-> 0]
<1>1. d \in Ranks
  BY GroupAssumption
<1>2. /\ c.open /\ c.fill = 0 /\ c.produced = 0 /\ c.emitted = 0
      /\ c.req = "null" /\ ~c.all_sent
  BY <1>1, NewChannelIs
<1>3. f \in Cuts /\ \A n \in Nat : f[n] = 0
  BY DEF Cuts
<1> HIDE DEF c, f
<1>4. ReadOf(c) = 0 /\ Len(<<>>) = 0 /\ ReadOf(c) - Len(<<>>) = 0 /\ f[0] = 0
  <2>1. ReadOf(c) = 0
    BY <1>2 DEF ReadOf
  <2>2. Len(<<>>) = 0
    OBVIOUS
  <2>3. ReadOf(c) - Len(<<>>) = 0
    <3>1. 0 - 0 = 0
      OBVIOUS
    <3>2. QED
      BY <2>1, <2>2, <3>1, Zenon
  <2>4. f[0] = 0
    BY <1>3
  <2>5. QED
    BY <2>1, <2>2, <2>3, <2>4
<1>5. Holds(c, f, 0)
  <2>1. \A i, j \in 0 .. c.produced : i <= j => f[i] <= f[j]
    BY <1>2, <1>3
  <2>2. 0 = f[c.produced] + c.fill
    BY <1>2, <1>4
  <2>3. 1 .. c.fill = {} /\ ReadOf(c) .. c.produced-1 = {}
    BY <1>2, <1>4
  <2>4. QED
    BY <1>2, <2>1, <2>2, <2>3 DEF Holds
<1>6. Mailed(c, <<>>, f)
  BY <1>4 DEF Mailed
<1>7. Lands(c, <<>>, f, ReadOf(c) - Len(<<>>), b, <<>>, {}, {}, {})
  BY <1>4 DEF Lands
<1>8. QED
  BY <1>3, <1>5, <1>6, <1>7 DEF Wire, c

-----------------------------------------------------------------------------
(* Lists *)

\* What SetToSeqs() returns: every element, once.
LEMMA ListsOf ==
  ASSUME NEW S, IsFiniteSet(S), NEW l \in SetToSeqs(S)
  PROVE  /\ l \in Seq(S)
         /\ \A i, j \in 1 .. Len(l) : l[i] = l[j] => i = j
         /\ Listed(l) = S
         /\ l = <<>> <=> S = {}
<1> DEFINE n == Cardinality(S)
<1>1. n \in Nat /\ IsFiniteSet(1 .. n) /\ Cardinality(1 .. n) = n
  <2>1. n \in Nat
    BY FS_CardinalityType
  <2> HIDE DEF n
  <2>2. QED
    BY <2>1, FS_Interval
<1>2. l \in [1 .. n -> S] /\ \A i, j \in 1 .. n : i # j => l[i] # l[j]
  BY DEF SetToSeqs
<1> HIDE DEF n
<1>3. l \in Seq(S) /\ Len(l) = n
  BY <1>1, <1>2
<1>4. l \in Injection(1 .. n, S)
  BY <1>2 DEF Injection, IsInjective
<1>5. l \in Surjection(1 .. n, S)
  <2>1. Cardinality(1 .. n) = Cardinality(S)
    BY <1>1 DEF n
  <2>2. QED
    BY <1>4, <2>1, FS_Injection
<1>6. Listed(l) = S
  BY <1>2, <1>3, <1>5 DEF Surjection, Listed
<1>7. l = <<>> <=> S = {}
  <2>1. l = <<>> <=> n = 0
    BY <1>3, EmptySeq
  <2>2. n = 0 <=> S = {}
    BY FS_EmptySet DEF n
  <2>3. QED
    BY <2>1, <2>2
<1>8. QED
  BY <1>2, <1>3, <1>6, <1>7

\* The tail of a list without repetitions has all but the head.
LEMMA TailOfList ==
  ASSUME NEW S, NEW l \in Seq(S), l # <<>>,
         \A i, j \in 1 .. Len(l) : l[i] = l[j] => i = j
  PROVE  /\ Tail(l) \in Seq(S)
         /\ \A i, j \in 1 .. Len(Tail(l)) : Tail(l)[i] = Tail(l)[j] => i = j
         /\ Head(l) \in S /\ Head(l) \in Listed(l)
         /\ Listed(Tail(l)) = Listed(l) \ {Head(l)}
<1> DEFINE t == Tail(l)
<1>1. /\ t \in Seq(S) /\ Len(t) = Len(l) - 1 /\ \A i \in 1 .. Len(t) : t[i] = l[i+1]
      /\ Head(l) \in S
  BY HeadTailProperties
<1>2. Len(l) \in Nat /\ Len(l) # 0
  BY EmptySeq, LenProperties
<1>3. Head(l) = l[1]
  OBVIOUS
<1> HIDE DEF t
<1>4. 1 \in 1 .. Len(l) /\ Head(l) \in Listed(l)
  BY <1>2, <1>3 DEF Listed
<1>5. \A i \in 1 .. Len(t) : i+1 \in 1 .. Len(l) /\ i+1 # 1
  BY <1>1, <1>2
<1>6. \A i, j \in 1 .. Len(t) : t[i] = t[j] => i = j
  <2> SUFFICES ASSUME NEW i \in 1 .. Len(t), NEW j \in 1 .. Len(t), t[i] = t[j]
               PROVE  i = j
    OBVIOUS
  <2>1. i+1 = j+1
    BY <1>1, <1>5
  <2>2. QED
    BY <2>1
<1>7. Listed(t) \subseteq Listed(l) \ {Head(l)}
  <2> SUFFICES ASSUME NEW i \in 1 .. Len(t) PROVE t[i] \in Listed(l) \ {Head(l)}
    BY DEF Listed
  <2>1. t[i] = l[i+1] /\ l[i+1] # l[1]
    BY <1>1, <1>4, <1>5
  <2>2. QED
    BY <1>3, <1>5, <2>1 DEF Listed
<1>8. Listed(l) \ {Head(l)} \subseteq Listed(t)
  <2> SUFFICES ASSUME NEW i \in 1 .. Len(l), l[i] # l[1] PROVE l[i] \in Listed(t)
    BY <1>3 DEF Listed
  <2>1. i # 1
    OBVIOUS
  <2>2. i-1 \in 1 .. Len(t) /\ (i-1)+1 = i
    BY <1>1, <1>2, <2>1
  <2>3. t[i-1] = l[i]
    BY <1>1, <2>2
  <2>4. QED
    BY <2>2, <2>3 DEF Listed
<1>9. QED
  BY <1>1, <1>4, <1>6, <1>7, <1>8 DEF t

-----------------------------------------------------------------------------
(* The steps of the sender *)

\* The link from q to e is as it was.
SameLink(q, e) ==
  /\ chan'[q][e] = chan[q][e] /\ mpi_pushed'[q][e] = mpi_pushed[q][e]
  /\ mail'[q][e] = mail[q][e] /\ inbuf'[e][q] = inbuf[e][q]
  /\ mpi_got'[e][q] = mpi_got[e][q] /\ posts'[e][q] = posts[e][q]
  /\ arrived'[e] \cap {q} = arrived[e] \cap {q}
  /\ Listed(pending'[e]) \cap {q} = Listed(pending[e]) \cap {q}
  /\ finished'[e] \cap {q} = finished[e] \cap {q}

\* What does not change a link keeps it.
LEMMA SameLinkStep ==
  ASSUME NEW q, NEW e, Link(q, e), SameLink(q, e)
  PROVE  Link(q, e)'
BY DEF Link, SameLink

\* A rank that stands for a PE is a rank.
LEMMA LiveRank == \A p \in Live : p \in Ranks
BY GroupAssumption

\* A step of the clients or of MPI while the group is at work
LEMMA WorkStep ==
  ASSUME IInv, NEW p \in Live, AtWork(p), mpi_stage' = mpi_stage, mpi_round' = mpi_round,
         \A q, e \in Live : Link(q, e) => Link(q, e)',
         TypeOK', CountsInv', ListInv', PostInv', DeadInv', EndInv'
  PROVE  IInv'
<1>1. \A q \in Live : AtWork(q) /\ AtWork(q)'
  BY DEF IInv, RoundInv, AtWork
<1>2. LinkInv'
  BY <1>1 DEF IInv, LinkInv
<1>3. RoundInv'
  BY <1>1 DEF IInv, RoundInv
<1>4. FreshInv'
  BY <1>1 DEF FreshInv, AtWork
<1>5. QED
  BY <1>2, <1>3, <1>4 DEF IInv

\* The parts of the state of which a step of the sender leaves all alone
ReceiverKept == UNCHANGED <<mail, receiver, cycle, mpi_got>>

\* A step of the sender keeps what IInv says of the receivers.
LEMMA ReceiverParts ==
  ASSUME TypeOK, ListInv, PostInv, ReceiverKept,
         chan' \in [Ranks -> [Ranks -> Channel]], mpi_pushed' \in [Ranks -> [Ranks -> Nat]],
         mpi_endgame' \in [Ranks -> BOOLEAN], flushed' \in [Ranks -> BOOLEAN],
         done' \in [Ranks -> BOOLEAN]
  PROVE  TypeOK' /\ ListInv' /\ PostInv' /\ mpi_stage' = mpi_stage /\ mpi_round' = mpi_round
<1>1. TypeOK'
  BY DEF TypeOK, ReceiverKept, receiver, cycle
<1>2. ListInv'
  BY DEF ListInv, ReceiverKept, receiver
<1>3. PostInv'
  BY DEF PostInv, ReceiverKept, receiver
<1>4. QED
  BY <1>1, <1>2, <1>3 DEF ReceiverKept, cycle

\* One entry of a table of tables is replaced.
LEMMA OneEntry ==
  ASSUME NEW S, NEW T, NEW V, NEW a \in [S -> [T -> V]], NEW i \in S, NEW j \in T, NEW v \in V
  PROVE  LET b == [a EXCEPT ![i][j] = v]
         IN /\ b \in [S -> [T -> V]]
            /\ b[i][j] = v
            /\ \A k \in S, l \in T : k # i \/ l # j => b[k][l] = a[k][l]
OBVIOUS

-----------------------------------------------------------------------------
(* Push *)

\* c is what becomes of the channel from p to d, np what was pushed on it.
ChannelStep(p, d, c, np) ==
  /\ chan' = [chan EXCEPT ![p][d] = c]
  /\ mpi_pushed' = [mpi_pushed EXCEPT ![p][d] = np]
  /\ UNCHANGED <<mail, receiver, sender, cycle, mpi_got>>

\* A client that has not finished may change one channel, if the link still holds.
LEMMA ChannelStepInv ==
  ASSUME IInv, NEW p \in Live, NEW d \in Live, AtWork(p), ~done[p],
         NEW c \in Channel, Counts(c), ~c.all_sent, NEW np \in Nat,
         ChannelStep(p, d, c, np),
         Wire(c, np, mail[p][d], inbuf[d][p], mpi_got[d][p], arrived[d] \cap {p},
              Listed(pending[d]) \cap {p}, finished[d] \cap {p})
  PROVE  IInv'
<1>1. p \in Ranks /\ d \in Ranks /\ TypeOK
  BY LiveRank DEF IInv
<1>2. /\ chan' \in [Ranks -> [Ranks -> Channel]]
      /\ chan'[p][d] = c
      /\ \A q, e \in Ranks : q # p \/ e # d => chan'[q][e] = chan[q][e]
  <2> DEFINE V == Channel
  <2>1. chan \in [Ranks -> [Ranks -> V]] /\ c \in V
    BY <1>1 DEF TypeOK
  <2> HIDE DEF V
  <2>2. QED
    BY <1>1, <2>1, OneEntry DEF ChannelStep, V
<1>3. /\ mpi_pushed' \in [Ranks -> [Ranks -> Nat]]
      /\ mpi_pushed'[p][d] = np
      /\ \A q, e \in Ranks : q # p \/ e # d => mpi_pushed'[q][e] = mpi_pushed[q][e]
  <2> DEFINE V == Nat
  <2>1. mpi_pushed \in [Ranks -> [Ranks -> V]] /\ np \in V
    BY <1>1 DEF TypeOK
  <2> HIDE DEF V
  <2>2. QED
    BY <1>1, <2>1, OneEntry DEF ChannelStep, V
<1>4. /\ UNCHANGED <<mail, receiver, cycle, mpi_got>> /\ UNCHANGED sender
  BY DEF ChannelStep
<1>5. TypeOK' /\ ListInv' /\ PostInv' /\ mpi_stage' = mpi_stage /\ mpi_round' = mpi_round
  BY <1>1, <1>2, <1>3, <1>4, ReceiverParts DEF IInv, ReceiverKept, TypeOK, sender
<1>6. CountsInv'
  BY <1>1, <1>2 DEF IInv, CountsInv
<1>7. DeadInv'
  BY <1>2, <1>4 DEF IInv, DeadInv
<1>8. EndInv'
  <2>1. ~flushed[p]
    BY <1>1 DEF IInv, EndInv
  <2>2. \A q, e \in Live : chan'[q][e].all_sent => done'[q]
    BY <1>2, <1>4, LiveRank DEF IInv, EndInv, sender
  <2>3. \A q \in Ranks : flushed'[q] =>
           /\ done'[q]
           /\ \A e \in Ranks : chan'[q][e].all_sent /\ chan'[q][e].delivered = chan'[q][e].emitted
    BY <1>2, <1>4, <2>1 DEF IInv, EndInv, sender
  <2>4. QED
    BY <1>4, <2>2, <2>3 DEF IInv, EndInv, sender, receiver, cycle
<1>9. ASSUME NEW q \in Live, NEW e \in Live, Link(q, e)
      PROVE  Link(q, e)'
  <2>0. q \in Ranks /\ e \in Ranks
    BY LiveRank
  <2>1. CASE q = p /\ e = d
    <3>1. /\ chan'[p][d] = c /\ mpi_pushed'[p][d] = np
          /\ mail'[p][d] = mail[p][d] /\ inbuf'[d][p] = inbuf[d][p]
          /\ mpi_got'[d][p] = mpi_got[d][p] /\ posts'[d][p] = posts[d][p]
          /\ arrived'[d] = arrived[d] /\ pending'[d] = pending[d]
          /\ finished'[d] = finished[d]
      BY <1>2, <1>3, <1>4 DEF receiver
    <3>2. QED
      BY <1>9, <2>1, <3>1 DEF Link
  <2>2. CASE q # p \/ e # d
    <3>1. SameLink(q, e)
      BY <1>2, <1>3, <1>4, <2>0, <2>2 DEF SameLink, receiver
    <3>2. QED
      BY <1>9, <3>1, SameLinkStep
  <2>3. QED
    BY <2>1, <2>2
<1>10. QED
  BY <1>5, <1>6, <1>7, <1>8, <1>9, WorkStep

\* What IInv says of a link at work
LEMMA LinkFacts ==
  ASSUME IInv, NEW p \in Live, NEW d \in Live, AtWork(p)
  PROVE  /\ chan[p][d] \in Channel /\ Counts(chan[p][d])
         /\ mpi_pushed[p][d] \in Nat /\ mail[p][d] \in Seq(Buffer)
         /\ inbuf[d][p] \in Buffer /\ mpi_got[d][p] \in Seq(Nat)
         /\ Link(p, d)
         /\ chan[p][d].all_sent => done[p]
<1>1. p \in Ranks /\ d \in Ranks
  BY LiveRank
<1>2. /\ chan[p][d] \in Channel /\ mpi_pushed[p][d] \in Nat /\ mail[p][d] \in Seq(Buffer)
      /\ inbuf[d][p] \in Buffer /\ mpi_got[d][p] \in Seq(Nat)
  BY <1>1 DEF IInv, TypeOK
<1>3. Counts(chan[p][d]) /\ Link(p, d) /\ (chan[p][d].all_sent => done[p])
  BY <1>1 DEF IInv, CountsInv, LinkInv, EndInv
<1>4. QED
  BY <1>2, <1>3

\* porter_push() with room
LEMMA PushRoomStep ==
  ASSUME IInv, NEW p \in Ranks, NEW d \in Ranks, PushRoom(p, d)
  PROVE  IInv'
<1>1. p \in Live /\ d \in Live /\ AtWork(p) /\ ~done[p] /\ chan[p][d].open
  BY DEF PushRoom, MayPushMpi, AtWork
<1> DEFINE c == chan[p][d]
           np == mpi_pushed[p][d]
<1>2. /\ c \in Channel /\ Counts(c) /\ np \in Nat /\ mail[p][d] \in Seq(Buffer)
      /\ Link(p, d)
  BY <1>1, LinkFacts
<1>3. ChannelStep(p, d, PushOn(c, np+1), np+1)
  <2>1. [mpi_pushed EXCEPT ![p][d] = @ + 1] = [mpi_pushed EXCEPT ![p][d] = np + 1]
    BY DEF IInv, TypeOK
  <2>2. chan' = [chan EXCEPT ![p][d] = PushOn(c, np+1)]
    BY DEF PushRoom, PushOn
  <2>3. QED
    BY <2>1, <2>2 DEF PushRoom, ChannelStep
<1>4. np + 1 \in Nat /\ c.open
  BY <1>1, <1>2
<1> HIDE DEF c, np
<1>5. PushOn(c, np+1) \in Channel /\ Counts(PushOn(c, np+1))
  BY <1>2, <1>4, PushOnCounts
<1>6. /\ Wire(PushOn(c, np+1), np+1, mail[p][d], inbuf[d][p], mpi_got[d][p],
              arrived[d] \cap {p}, Listed(pending[d]) \cap {p}, finished[d] \cap {p})
      /\ ~PushOn(c, np+1).all_sent
  <2>1. Wire(c, np, mail[p][d], inbuf[d][p], mpi_got[d][p],
              arrived[d] \cap {p}, Listed(pending[d]) \cap {p}, finished[d] \cap {p})
    BY <1>2 DEF Link, c, np
  <2>2. QED
    BY <1>2, <1>4, <2>1, WirePush
<1> DEFINE x == PushOn(c, np+1)
           n == np + 1
<1>7. x \in Channel /\ Counts(x) /\ ~x.all_sent /\ n \in Nat /\ ChannelStep(p, d, x, n)
      /\ Wire(x, n, mail[p][d], inbuf[d][p], mpi_got[d][p],
              arrived[d] \cap {p}, Listed(pending[d]) \cap {p}, finished[d] \cap {p})
  BY <1>3, <1>4, <1>5, <1>6
<1> HIDE DEF x, n
<1>8. QED
  BY <1>1, <1>7, ChannelStepInv

\* porter_push() without room
LEMMA PushNoRoomStep ==
  ASSUME IInv, NEW p \in Ranks, NEW d \in Ranks, PushNoRoom(p, d)
  PROVE  IInv'
<1>1. p \in Live /\ d \in Live /\ AtWork(p) /\ ~done[p] /\ ~chan[p][d].open
  BY DEF PushNoRoom, MayPushMpi, AtWork
<1> DEFINE c == chan[p][d]
           np == mpi_pushed[p][d]
           x == TrySend(FALSE, c)
<1>2. /\ c \in Channel /\ Counts(c) /\ np \in Nat /\ mail[p][d] \in Seq(Buffer)
      /\ Link(p, d) /\ ~c.all_sent /\ ~c.open
  BY <1>1, LinkFacts
<1>3. ChannelStep(p, d, x, np)
  <2>1. mpi_pushed = [mpi_pushed EXCEPT ![p][d] = np]
    BY DEF IInv, TypeOK
  <2>2. QED
    BY <2>1 DEF PushNoRoom, ChannelStep
<1>4. Wire(c, np, mail[p][d], inbuf[d][p], mpi_got[d][p],
              arrived[d] \cap {p}, Listed(pending[d]) \cap {p}, finished[d] \cap {p})
  BY <1>2 DEF Link
<1> HIDE DEF c, np
<1>5. x \in Channel /\ Counts(x)
  BY <1>2, TrySendCounts
<1>6. /\ Wire(x, np, mail[p][d], inbuf[d][p], mpi_got[d][p],
              arrived[d] \cap {p}, Listed(pending[d]) \cap {p}, finished[d] \cap {p})
      /\ ~x.all_sent
  BY <1>2, <1>4, WireRetry
<1> HIDE DEF x
<1>7. QED
  BY <1>1, <1>2, <1>3, <1>5, <1>6, ChannelStepInv

\* porter_advance(TRUE)
LEMMA AdvanceStep ==
  ASSUME IInv, NEW p \in Ranks, Advance(p)
  PROVE  IInv'
<1> DEFINE C == [d \in Ranks |-> FlushOn(chan[p][d])]
<1>1. /\ p \in Live /\ AtWork(p) /\ ~flushed[p]
      /\ UNCHANGED <<mail, receiver, cycle, mpi_pushed, mpi_got>>
  BY DEF Advance, AtWork
<1>2. /\ chan' = [chan EXCEPT ![p] = C]
      /\ flushed' = [flushed EXCEPT ![p] = AllDelivered(C)]
      /\ done' = [done EXCEPT ![p] = TRUE]
      /\ mpi_endgame' = [mpi_endgame EXCEPT ![p] = TRUE]
  BY DEF Advance, FlushOn
<1>3. /\ TypeOK /\ \A d \in Ranks : chan[p][d] \in Channel /\ Counts(chan[p][d])
  BY DEF IInv, TypeOK, CountsInv
<1>4. \A d \in Ranks : FlushOn(chan[p][d]) \in Channel /\ Counts(FlushOn(chan[p][d]))
  BY <1>3, FlushOnCounts
<1>5. C \in [Ranks -> Channel] /\ \A d \in Ranks : C[d] = FlushOn(chan[p][d])
  BY <1>4
<1> HIDE DEF C
<1>6. /\ chan' \in [Ranks -> [Ranks -> Channel]]
      /\ chan'[p] = C
      /\ \A q \in Ranks : q # p => chan'[q] = chan[q]
  BY <1>2, <1>3, <1>5 DEF TypeOK
<1>7. /\ flushed' \in [Ranks -> BOOLEAN] /\ done' \in [Ranks -> BOOLEAN]
      /\ mpi_endgame' \in [Ranks -> BOOLEAN]
      /\ done'[p] /\ (flushed'[p] => AllDelivered(C))
      /\ \A q \in Ranks : q # p => done'[q] = done[q] /\ flushed'[q] = flushed[q]
  BY <1>2, <1>3 DEF TypeOK, AllDelivered
<1>8. TypeOK' /\ ListInv' /\ PostInv' /\ mpi_stage' = mpi_stage /\ mpi_round' = mpi_round
  <2>1. mpi_pushed' \in [Ranks -> [Ranks -> Nat]]
    BY <1>1, <1>3 DEF TypeOK
  <2>2. QED
    BY <1>1, <1>3, <1>6, <1>7, <2>1, ReceiverParts DEF IInv, ReceiverKept
<1>9. CountsInv'
  <2> SUFFICES ASSUME NEW q \in Ranks, NEW e \in Ranks PROVE Counts(chan'[q][e])
    BY DEF CountsInv
  <2>1. CASE q = p
    BY <1>4, <1>5, <1>6, <2>1
  <2>2. CASE q # p
    BY <1>6, <2>2 DEF IInv, CountsInv
  <2>3. QED
    BY <2>1, <2>2
<1>10. ASSUME NEW e \in Ranks, e \notin Live
       PROVE  C[e] = chan[p][e]
  <2>1. chan[p][e].req = "null" /\ chan[p][e].all_sent
    BY <1>1, <1>10 DEF IInv, DeadInv
  <2>2. QED
    BY <1>5, <2>1 DEF FlushOn, Tested
<1>11. DeadInv'
  <2> SUFFICES ASSUME NEW q \in Ranks, NEW e \in Ranks, ~({q, e} \subseteq Live)
               PROVE  /\ chan'[q][e].req = "null" /\ mail'[q][e] = <<>>
                      /\ e \notin Live => chan'[q][e].all_sent
    BY DEF DeadInv
  <2>1. chan'[q][e] = chan[q][e]
    BY <1>1, <1>6, <1>10
  <2>2. QED
    BY <1>1, <2>1 DEF IInv, DeadInv
<1>12. EndInv'
  <2>1. \A q, e \in Live : chan'[q][e].all_sent => done'[q]
    BY <1>6, <1>7, LiveRank DEF IInv, EndInv
  <2>2. \A q \in Ranks : flushed'[q] =>
           /\ done'[q]
           /\ \A e \in Ranks : chan'[q][e].all_sent /\ chan'[q][e].delivered = chan'[q][e].emitted
    BY <1>6, <1>7 DEF IInv, EndInv, AllDelivered
  <2>3. \A q \in Ranks : drained'[q] => finished'[q] = Ranks
    BY <1>1 DEF IInv, EndInv, receiver
  <2>4. \A q \in Live : mpi_stage'[q] \in {"resetting", "dormant"} => flushed'[q] /\ drained'[q]
    <3>1. mpi_stage[p] \notin {"resetting", "dormant"}
      BY DEF Advance
    <3>2. QED
      BY <1>1, <1>7, <3>1, LiveRank DEF IInv, EndInv, receiver, cycle
  <2>5. QED
    BY <2>1, <2>2, <2>3, <2>4 DEF EndInv
<1>13. ASSUME NEW q \in Live, NEW e \in Live, Link(q, e)
       PROVE  Link(q, e)'
  <2>0. q \in Ranks /\ e \in Ranks
    BY LiveRank
  <2>1. CASE q = p
    <3> DEFINE c == chan[p][e]
               x == FlushOn(c)
    <3>1. /\ c \in Channel /\ Counts(c) /\ mpi_pushed[p][e] \in Nat /\ mail[p][e] \in Seq(Buffer)
      BY <1>1, LinkFacts
    <3>2. /\ chan'[p][e] = x /\ mpi_pushed'[p][e] = mpi_pushed[p][e]
          /\ mail'[p][e] = mail[p][e] /\ inbuf'[e][p] = inbuf[e][p]
          /\ mpi_got'[e][p] = mpi_got[e][p] /\ posts'[e][p] = posts[e][p]
          /\ arrived'[e] = arrived[e] /\ pending'[e] = pending[e]
          /\ finished'[e] = finished[e]
      BY <1>1, <1>5, <1>6, <2>0 DEF receiver
    <3>3. Wire(c, mpi_pushed[p][e], mail[p][e], inbuf[e][p], mpi_got[e][p],
               arrived[e] \cap {p}, Listed(pending[e]) \cap {p}, finished[e] \cap {p})
      BY <1>13, <2>1 DEF Link
    <3> HIDE DEF c
    <3>4. Wire(x, mpi_pushed[p][e], mail[p][e], inbuf[e][p], mpi_got[e][p],
               arrived[e] \cap {p}, Listed(pending[e]) \cap {p}, finished[e] \cap {p})
      BY <3>1, <3>3, WireFlush
    <3> HIDE DEF x
    <3>5. QED
      BY <1>13, <2>1, <3>2, <3>4 DEF Link
  <2>2. CASE q # p
    <3>1. SameLink(q, e)
      BY <1>1, <1>6, <2>0, <2>2 DEF SameLink, receiver
    <3>2. QED
      BY <1>13, <3>1, SameLinkStep
  <2>3. QED
    BY <2>1, <2>2
<1>14. QED
  BY <1>1, <1>8, <1>9, <1>11, <1>12, <1>13, WorkStep

-----------------------------------------------------------------------------
(* MPI *)

\* MPI works on nothing unless both PEs are at work.
LEMMA InUse ==
  ASSUME IInv, NEW p \in Ranks, NEW d \in Ranks,
         chan[p][d].req = "active" \/ mail[p][d] # <<>>
  PROVE  p \in Live /\ d \in Live /\ AtWork(p)
<1>1. p \in Live /\ d \in Live
  BY DEF IInv, DeadInv
<1>2. QED
  BY <1>1 DEF IInv, LinkInv, Quiet

\* MPI reads a buffer
LEMMA ReadStep ==
  ASSUME IInv, NEW p \in Ranks, NEW d \in Ranks, Read(p, d)
  PROVE  IInv'
<1> DEFINE c == chan[p][d]
           m == mail[p][d]
           x == Sent(c)
           a == Append(m, Active(c))
<1>1. /\ p \in Live /\ d \in Live /\ AtWork(p) /\ c.req = "active"
      /\ UNCHANGED <<receiver, sender, cycle, mpi_pushed, mpi_got>>
  BY InUse DEF Read
<1>2. /\ c \in Channel /\ Counts(c) /\ mpi_pushed[p][d] \in Nat /\ m \in Seq(Buffer)
      /\ Link(p, d)
  BY <1>1, LinkFacts
<1>3. chan' = [chan EXCEPT ![p][d] = x] /\ mail' = [mail EXCEPT ![p][d] = a]
  <2>1. [chan EXCEPT ![p][d].req = "sent"] = [chan EXCEPT ![p][d] = x]
    BY DEF Sent
  <2>2. [mail EXCEPT ![p][d] = Append(@, Active(c))] = [mail EXCEPT ![p][d] = a]
    BY DEF IInv, TypeOK
  <2>3. QED
    BY <2>1, <2>2 DEF Read, Active
<1>4. Wire(c, mpi_pushed[p][d], m, inbuf[d][p], mpi_got[d][p],
           arrived[d] \cap {p}, Listed(pending[d]) \cap {p}, finished[d] \cap {p})
  BY <1>2 DEF Link
<1> HIDE DEF c, m
<1>5. /\ x \in Channel /\ Counts(x) /\ x.all_sent = c.all_sent
      /\ x.emitted = c.emitted /\ x.delivered = c.delivered
  BY <1>1, <1>2, SentIs
<1>6. Wire(x, mpi_pushed[p][d], a, inbuf[d][p], mpi_got[d][p],
           arrived[d] \cap {p}, Listed(pending[d]) \cap {p}, finished[d] \cap {p})
  BY <1>1, <1>2, <1>4, WireRead
<1>7. a \in Seq(Buffer)
  BY <1>1, <1>2, ActiveType, AppendProperties
<1> HIDE DEF x, a
<1>8. /\ chan' \in [Ranks -> [Ranks -> Channel]]
      /\ chan'[p][d] = x
      /\ \A q, e \in Ranks : q # p \/ e # d => chan'[q][e] = chan[q][e]
  <2> DEFINE V == Channel
  <2>1. chan \in [Ranks -> [Ranks -> V]] /\ x \in V
    BY <1>5 DEF IInv, TypeOK
  <2> HIDE DEF V
  <2>2. QED
    BY <1>3, <2>1, OneEntry DEF V
<1>9. /\ mail' \in [Ranks -> [Ranks -> Seq(Buffer)]]
      /\ mail'[p][d] = a
      /\ \A q, e \in Ranks : q # p \/ e # d => mail'[q][e] = mail[q][e]
  <2> DEFINE V == Seq(Buffer)
  <2>1. mail \in [Ranks -> [Ranks -> V]] /\ a \in V
    BY <1>7 DEF IInv, TypeOK
  <2> HIDE DEF V
  <2>2. QED
    BY <1>3, <2>1, OneEntry DEF V
<1>10. TypeOK'
  BY <1>1, <1>8, <1>9 DEF IInv, TypeOK, receiver, sender, cycle
<1>11. CountsInv'
  BY <1>5, <1>8 DEF IInv, CountsInv
<1>12. ListInv' /\ PostInv'
  BY <1>1 DEF IInv, ListInv, PostInv, receiver
<1>13. DeadInv'
  <2> SUFFICES ASSUME NEW q \in Ranks, NEW e \in Ranks, ~({q, e} \subseteq Live)
               PROVE  /\ chan'[q][e].req = "null" /\ mail'[q][e] = <<>>
                      /\ e \notin Live => chan'[q][e].all_sent
    BY DEF DeadInv
  <2>1. q # p \/ e # d
    BY <1>1
  <2>2. chan'[q][e] = chan[q][e] /\ mail'[q][e] = mail[q][e]
    BY <1>8, <1>9, <2>1
  <2>3. QED
    BY <2>2 DEF IInv, DeadInv
<1>14. EndInv'
  <2>1. \A q, e \in Ranks : /\ chan'[q][e].all_sent = chan[q][e].all_sent
                            /\ chan'[q][e].emitted = chan[q][e].emitted
                            /\ chan'[q][e].delivered = chan[q][e].delivered
    BY <1>5, <1>8 DEF c
  <2>2. QED
    BY <1>1, <2>1, LiveRank DEF IInv, EndInv, receiver, sender, cycle
<1>15. ASSUME NEW q \in Live, NEW e \in Live, Link(q, e)
       PROVE  Link(q, e)'
  <2>0. q \in Ranks /\ e \in Ranks
    BY LiveRank
  <2>1. CASE q = p /\ e = d
    <3>1. /\ mpi_pushed'[p][d] = mpi_pushed[p][d] /\ inbuf'[d][p] = inbuf[d][p]
          /\ mpi_got'[d][p] = mpi_got[d][p] /\ posts'[d][p] = posts[d][p]
          /\ arrived'[d] = arrived[d] /\ pending'[d] = pending[d]
          /\ finished'[d] = finished[d]
      BY <1>1 DEF receiver
    <3>2. QED
      BY <1>6, <1>8, <1>9, <1>15, <2>1, <3>1 DEF Link
  <2>2. CASE q # p \/ e # d
    <3>1. SameLink(q, e)
      BY <1>1, <1>8, <1>9, <2>0, <2>2 DEF SameLink, receiver
    <3>2. QED
      BY <1>15, <3>1, SameLinkStep
  <2>3. QED
    BY <2>1, <2>2
<1>16. mpi_stage' = mpi_stage /\ mpi_round' = mpi_round
  BY <1>1 DEF cycle
<1>17. QED
  BY <1>1, <1>10, <1>11, <1>12, <1>13, <1>14, <1>15, <1>16, WorkStep

\* and puts the message into the buffer of a receive.
LEMMA MatchStep ==
  ASSUME IInv, NEW p \in Ranks, NEW d \in Ranks, Match(p, d)
  PROVE  IInv'
<1> DEFINE c == chan[p][d]
           m == mail[p][d]
           h == Head(m)
           s == Tail(m)
<1>1. /\ p \in Live /\ d \in Live /\ AtWork(p)
      /\ m # <<>> /\ posts[d][p] # <<>>
      /\ UNCHANGED <<chan, pending, taken, finished, drained, sender, cycle,
                     mpi_pushed, mpi_got>>
  BY InUse DEF Match
<1>2. /\ c \in Channel /\ Counts(c) /\ mpi_pushed[p][d] \in Nat /\ m \in Seq(Buffer)
      /\ Link(p, d)
  BY <1>1, LinkFacts
<1>3. posts[d][p] = <<"live">>
  BY <1>1 DEF IInv, PostInv
<1>4. /\ inbuf' = [inbuf EXCEPT ![d][p] = h]
      /\ mail' = [mail EXCEPT ![p][d] = s]
      /\ posts' = [posts EXCEPT ![d][p] = <<>>]
      /\ arrived' = [arrived EXCEPT ![d] = arrived[d] \cup {p}]
  <2>1. Head(posts[d][p]) = "live" /\ Tail(posts[d][p]) = <<>>
    BY <1>3
  <2>2. mail' = [mail EXCEPT ![p][d] = Tail(@)] /\ inbuf' = [inbuf EXCEPT ![d][p] = h]
    BY DEF Match
  <2>3. posts' = [posts EXCEPT ![d][p] = Tail(@)]
    BY DEF Match
  <2>4. arrived' = [arrived EXCEPT ![d] = IF Head(posts[d][p]) = "live"
                                       THEN @ \cup {p} ELSE @]
    BY DEF Match
  <2>5. QED
    BY <2>1, <2>2, <2>3, <2>4 DEF IInv, TypeOK
<1>5. /\ Posted(posts[d][p], arrived[d] \cap {p}, Listed(pending[d]) \cap {p},
                finished[d] \cap {p})
      /\ Wire(c, mpi_pushed[p][d], m, inbuf[d][p], mpi_got[d][p],
           arrived[d] \cap {p}, Listed(pending[d]) \cap {p}, finished[d] \cap {p})
  BY <1>2 DEF Link
<1>6. /\ arrived[d] \cap {p} = {} /\ Listed(pending[d]) \cap {p} = {}
      /\ finished[d] \cap {p} = {}
  BY <1>1, <1>5 DEF Posted
<1>7. h \in Buffer /\ s \in Seq(Buffer)
  BY <1>1, <1>2, HeadTailProperties
<1> HIDE DEF c, m
<1>8. Wire(c, mpi_pushed[p][d], s, h, mpi_got[d][p], {p}, {}, {})
  <2>1. Wire(c, mpi_pushed[p][d], m, inbuf[d][p], mpi_got[d][p], {}, {}, {})
    BY <1>5, <1>6
  <2>2. QED
    BY <1>1, <1>2, <2>1, WireMatch
<1> HIDE DEF h, s
<1>9. /\ mail' \in [Ranks -> [Ranks -> Seq(Buffer)]]
      /\ mail'[p][d] = s
      /\ \A q, e \in Ranks : q # p \/ e # d => mail'[q][e] = mail[q][e]
  <2> DEFINE V == Seq(Buffer)
  <2>1. mail \in [Ranks -> [Ranks -> V]] /\ s \in V
    BY <1>7 DEF IInv, TypeOK
  <2> HIDE DEF V
  <2>2. QED
    BY <1>4, <2>1, OneEntry DEF V
<1>10. /\ inbuf' \in [Ranks -> [Ranks -> Buffer]]
       /\ inbuf'[d][p] = h
       /\ \A e, q \in Ranks : e # d \/ q # p => inbuf'[e][q] = inbuf[e][q]
  <2> DEFINE V == Buffer
  <2>1. inbuf \in [Ranks -> [Ranks -> V]] /\ h \in V
    BY <1>7 DEF IInv, TypeOK
  <2> HIDE DEF V
  <2>2. QED
    BY <1>4, <2>1, OneEntry DEF V
<1>11. /\ posts' \in [Ranks -> [Ranks -> Seq({"live", "lost"})]]
       /\ posts'[d][p] = <<>>
       /\ \A e, q \in Ranks : e # d \/ q # p => posts'[e][q] = posts[e][q]
  <2> DEFINE V == Seq({"live", "lost"})
  <2>1. posts \in [Ranks -> [Ranks -> V]] /\ <<>> \in V
    BY EmptySeq DEF IInv, TypeOK
  <2> HIDE DEF V
  <2>2. QED
    BY <1>4, <2>1, OneEntry DEF V
<1>12. /\ arrived' \in [Ranks -> SUBSET Live]
       /\ arrived'[d] = arrived[d] \cup {p}
       /\ \A e \in Ranks : e # d => arrived'[e] = arrived[e]
  BY <1>1, <1>4 DEF IInv, TypeOK
<1>13. TypeOK'
  BY <1>1, <1>9, <1>10, <1>11, <1>12 DEF IInv, TypeOK, sender, cycle
<1>14. CountsInv' /\ ListInv'
  BY <1>1 DEF IInv, CountsInv, ListInv
<1>15. PostInv'
  BY <1>11 DEF IInv, PostInv
<1>16. DeadInv'
  <2> SUFFICES ASSUME NEW q \in Ranks, NEW e \in Ranks, ~({q, e} \subseteq Live)
               PROVE  /\ chan'[q][e].req = "null" /\ mail'[q][e] = <<>>
                      /\ e \notin Live => chan'[q][e].all_sent
    BY DEF DeadInv
  <2>1. q # p \/ e # d
    BY <1>1
  <2>2. chan'[q][e] = chan[q][e] /\ mail'[q][e] = mail[q][e]
    BY <1>1, <1>9, <2>1
  <2>3. QED
    BY <2>2 DEF IInv, DeadInv
<1>17. EndInv'
  BY <1>1 DEF IInv, EndInv, sender, cycle
<1>18. ASSUME NEW q \in Live, NEW e \in Live, Link(q, e)
       PROVE  Link(q, e)'
  <2>0. q \in Ranks /\ e \in Ranks
    BY LiveRank
  <2>1. CASE q = p /\ e = d
    <3>1. /\ chan'[p][d] = c /\ mpi_pushed'[p][d] = mpi_pushed[p][d] /\ mpi_got'[d][p] = mpi_got[d][p]
          /\ arrived'[d] \cap {p} = {p} /\ Listed(pending'[d]) \cap {p} = {}
          /\ finished'[d] \cap {p} = {}
      BY <1>1, <1>6, <1>12 DEF c
    <3>2. Posted(<<>>, {p}, {}, {})
      BY DEF Posted
    <3>3. QED
      BY <1>8, <1>9, <1>10, <1>11, <2>1, <3>1, <3>2 DEF Link
  <2>2. CASE q # p \/ e # d
    <3>1. arrived'[e] \cap {q} = arrived[e] \cap {q}
      BY <1>12, <2>0, <2>2
    <3>2. SameLink(q, e)
      BY <1>1, <1>9, <1>10, <1>11, <2>0, <2>2, <3>1 DEF SameLink
    <3>3. QED
      BY <1>18, <3>2, SameLinkStep
  <2>3. QED
    BY <2>1, <2>2
<1>19. mpi_stage' = mpi_stage /\ mpi_round' = mpi_round
  BY <1>1 DEF cycle
<1>20. QED
  BY <1>1, <1>13, <1>14, <1>15, <1>16, <1>17, <1>18, <1>19, WorkStep

-----------------------------------------------------------------------------
(* The steps of the receiver *)

\* A step of the receiver d alone leaves the senders as they are.
LEMMA ReceiverEnd ==
  ASSUME IInv, NEW d \in Ranks, UNCHANGED <<chan, sender, cycle>>,
         \A e \in Ranks : drained'[e] => finished'[e] = Ranks,
         \A e \in Ranks : drained[e] => drained'[e]
  PROVE  EndInv' /\ CountsInv' /\ mpi_stage' = mpi_stage /\ mpi_round' = mpi_round
<1>1. /\ chan' = chan /\ flushed' = flushed /\ done' = done
      /\ mpi_stage' = mpi_stage /\ mpi_round' = mpi_round
  BY DEF sender, cycle
<1>2. \A p, e \in Live : chan'[p][e].all_sent => done'[p]
  BY <1>1 DEF IInv, EndInv
<1>3. \A p \in Ranks : flushed'[p] =>
       /\ done'[p]
       /\ \A e \in Ranks : chan'[p][e].all_sent /\ chan'[p][e].delivered = chan'[p][e].emitted
  BY <1>1 DEF IInv, EndInv
<1>4. \A p \in Live : mpi_stage'[p] \in {"resetting", "dormant"} => flushed'[p] /\ drained'[p]
  BY <1>1, LiveRank DEF IInv, EndInv
<1>5. EndInv'
  BY <1>2, <1>3, <1>4 DEF EndInv
<1>6. QED
  BY <1>1, <1>5 DEF IInv, CountsInv

\* A PE that may borrow, use or return a buffer is at work.
LEMMA IdleWorks == ASSUME NEW d, Idle(d) PROVE d \in Live /\ AtWork(d)
BY DEF Idle, AtWork

\* What is borrowed is the first of the list.
LEMMA TakenFacts ==
  ASSUME IInv, NEW d \in Ranks, Idle(d), taken[d] # NoRank
  PROVE  /\ d \in Live /\ AtWork(d)
         /\ taken[d] \in Live /\ taken[d] \in Ranks /\ AtWork(taken[d])
         /\ pending[d] \in Seq(Live) /\ pending[d] # <<>>
         /\ taken[d] = Head(pending[d]) /\ taken[d] \in Listed(pending[d])
         /\ Link(taken[d], d)
         /\ Listed(pending[d]) \cap {taken[d]} = {taken[d]}
         /\ arrived[d] \cap {taken[d]} = {}
         /\ posts[d][taken[d]] = <<>>
<1>1. d \in Live /\ AtWork(d)
  BY IdleWorks
<1>2. /\ taken[d] \in Live /\ pending[d] \in Seq(Live)
      /\ pending[d] # <<>> /\ taken[d] = Head(pending[d])
  BY DEF IInv, TypeOK, ListInv
<1>3. taken[d] \in Ranks /\ AtWork(taken[d])
  BY <1>1, <1>2, LiveRank DEF IInv, RoundInv
<1>4. taken[d] \in Listed(pending[d])
  <2>1. \A i, j \in 1 .. Len(pending[d]) : pending[d][i] = pending[d][j] => i = j
    BY DEF IInv, ListInv
  <2>2. QED
    BY <1>2, <2>1, TailOfList
<1>5. Link(taken[d], d)
  BY <1>1, <1>2, <1>3, LinkFacts
<1>6. Listed(pending[d]) \cap {taken[d]} = {taken[d]}
  BY <1>4
<1>7. Posted(posts[d][taken[d]], arrived[d] \cap {taken[d]},
             Listed(pending[d]) \cap {taken[d]}, finished[d] \cap {taken[d]})
  BY <1>5 DEF Link
<1>8. arrived[d] \cap {taken[d]} = {} /\ posts[d][taken[d]] = <<>>
  BY <1>6, <1>7 DEF Posted
<1>9. QED
  BY <1>1, <1>2, <1>3, <1>4, <1>5, <1>6, <1>8

\* What Take does, and that it takes the next item of the link
LEMMA TakeFacts ==
  ASSUME IInv, NEW d \in Ranks, TakeMpi(d)
  PROVE  LET p == taken[d]
             b == inbuf[d][p]
             x == [b EXCEPT !.start = @ + 1]
             a == Append(mpi_got[d][p], b.items[b.start+1])
         IN /\ p \in Live /\ p \in Ranks /\ d \in Live /\ AtWork(p)
            /\ inbuf' = [inbuf EXCEPT ![d][p] = x] /\ x \in Buffer
            /\ mpi_got' = [mpi_got EXCEPT ![d][p] = a] /\ a \in Seq(Nat)
            /\ b.items[b.start+1] = Len(mpi_got[d][p]) + 1
            /\ Len(mpi_got[d][p]) < mpi_pushed[p][d]
            /\ Wire(chan[p][d], mpi_pushed[p][d], mail[p][d], x, a, {},
                    {p}, finished[d] \cap {p})
            /\ Link(p, d) /\ Listed(pending[d]) \cap {p} = {p} /\ arrived[d] \cap {p} = {}
<1> DEFINE p == taken[d]
           b == inbuf[d][p]
           x == [b EXCEPT !.start = @ + 1]
           i0 == b.items[b.start+1]
           gs == mpi_got[d][p]
           a == Append(gs, i0)
           c == chan[p][d]
<1>1. Idle(d) /\ p # NoRank /\ b.start < Len(b.items)
  BY DEF TakeMpi
<1>2. /\ d \in Live /\ AtWork(p) /\ p \in Live /\ p \in Ranks /\ Link(p, d)
      /\ Listed(pending[d]) \cap {p} = {p} /\ arrived[d] \cap {p} = {}
  BY <1>1, TakenFacts
<1>3. /\ inbuf' = [inbuf EXCEPT ![d][p] = x]
      /\ mpi_got' = [mpi_got EXCEPT ![d][p] = a]
  <2>1. [inbuf EXCEPT ![d][p].start = @ + 1] = [inbuf EXCEPT ![d][p] = x]
    OBVIOUS
  <2>2. [mpi_got EXCEPT ![d][p] = Append(@, i0)] = [mpi_got EXCEPT ![d][p] = a]
    BY <1>2 DEF IInv, TypeOK
  <2>3. QED
    BY <2>1, <2>2 DEF TakeMpi
<1>4. /\ c \in Channel /\ Counts(c) /\ mpi_pushed[p][d] \in Nat /\ mail[p][d] \in Seq(Buffer)
      /\ b \in Buffer /\ gs \in Seq(Nat)
  BY <1>2, LinkFacts
<1>5. Wire(c, mpi_pushed[p][d], mail[p][d], b, gs, {}, {p}, finished[d] \cap {p})
  BY <1>2 DEF Link
<1> HIDE DEF p, b, gs, c
<1>6. /\ Wire(c, mpi_pushed[p][d], mail[p][d], x, a, {}, {p}, finished[d] \cap {p})
      /\ i0 = Len(gs) + 1 /\ Len(gs) < mpi_pushed[p][d]
  <2> DEFINE np == mpi_pushed[p][d]
             m == mail[p][d]
             L == {p}
             F == finished[d] \cap {p}
  <2>1. /\ c \in Channel /\ Counts(c) /\ np \in Nat /\ m \in Seq(Buffer)
        /\ b \in Buffer /\ gs \in Seq(Nat) /\ L # {} /\ b.start < Len(b.items)
        /\ Wire(c, np, m, b, gs, {}, L, F)
    BY <1>1, <1>4, <1>5 DEF b
  <2> HIDE DEF np, m, L, F
  <2>2. /\ Wire(c, np, m, x, a, {}, L, F)
        /\ i0 = Len(gs) + 1 /\ Len(gs) < np
    BY <2>1, WireTake
  <2>3. QED
    BY <2>2 DEF np, m, L, F
<1>7. Len(gs) \in Nat /\ b.start \in Nat /\ b.items \in Seq(Nat)
  BY <1>4, LenProperties DEF Buffer
<1>8. x \in Buffer
  <2>1. b.start + 1 \in Nat
    BY <1>7
  <2>2. QED
    BY <1>4, <2>1 DEF Buffer
<1>9. i0 \in Nat
  BY <1>6, <1>7
<1>10. a \in Seq(Nat)
  BY <1>4, <1>9, AppendProperties
<1>11. QED
  BY <1>2, <1>3, <1>6, <1>8, <1>10 DEF p, b, gs, c

\* The client takes an item.
LEMMA TakeStep ==
  ASSUME IInv, NEW d \in Ranks, TakeMpi(d)
  PROVE  IInv'
<1> DEFINE p == taken[d]
           x == [inbuf[d][p] EXCEPT !.start = @ + 1]
           a == Append(mpi_got[d][p], inbuf[d][p].items[inbuf[d][p].start+1])
<1>1. /\ p \in Live /\ p \in Ranks /\ d \in Live /\ AtWork(p)
      /\ inbuf' = [inbuf EXCEPT ![d][p] = x] /\ x \in Buffer
      /\ mpi_got' = [mpi_got EXCEPT ![d][p] = a] /\ a \in Seq(Nat)
      /\ Wire(chan[p][d], mpi_pushed[p][d], mail[p][d], x, a, {},
              {p}, finished[d] \cap {p})
      /\ Listed(pending[d]) \cap {p} = {p} /\ arrived[d] \cap {p} = {}
  BY TakeFacts
<1>2. UNCHANGED <<chan, mail, posts, arrived, pending, taken, finished, drained,
                 sender, cycle, mpi_pushed>>
  BY DEF TakeMpi
<1> HIDE DEF p, x, a
<1>3. /\ inbuf' \in [Ranks -> [Ranks -> Buffer]]
      /\ inbuf'[d][p] = x
      /\ \A e, q \in Ranks : e # d \/ q # p => inbuf'[e][q] = inbuf[e][q]
  <2> DEFINE V == Buffer
  <2>1. inbuf \in [Ranks -> [Ranks -> V]] /\ x \in V
    BY <1>1 DEF IInv, TypeOK
  <2> HIDE DEF V
  <2>2. QED
    BY <1>1, <2>1, OneEntry DEF V
<1>4. /\ mpi_got' \in [Ranks -> [Ranks -> Seq(Nat)]]
      /\ mpi_got'[d][p] = a
      /\ \A e, q \in Ranks : e # d \/ q # p => mpi_got'[e][q] = mpi_got[e][q]
  <2> DEFINE V == Seq(Nat)
  <2>1. mpi_got \in [Ranks -> [Ranks -> V]] /\ a \in V
    BY <1>1 DEF IInv, TypeOK
  <2> HIDE DEF V
  <2>2. QED
    BY <1>1, <2>1, OneEntry DEF V
<1>5. TypeOK'
  BY <1>2, <1>3, <1>4 DEF IInv, TypeOK, sender, cycle
<1>6. ListInv' /\ PostInv' /\ DeadInv'
  BY <1>2 DEF IInv, ListInv, PostInv, DeadInv
<1>7. EndInv' /\ CountsInv' /\ mpi_stage' = mpi_stage /\ mpi_round' = mpi_round
  BY <1>2, ReceiverEnd DEF IInv, EndInv
<1>8. ASSUME NEW q \in Live, NEW e \in Live, Link(q, e)
      PROVE  Link(q, e)'
  <2>0. q \in Ranks /\ e \in Ranks
    BY LiveRank
  <2>1. CASE q = p /\ e = d
    BY <1>1, <1>2, <1>3, <1>4, <1>8, <2>1 DEF Link
  <2>2. CASE q # p \/ e # d
    <3>1. SameLink(q, e)
      BY <1>2, <1>3, <1>4, <2>0, <2>2 DEF SameLink
    <3>2. QED
      BY <1>8, <3>1, SameLinkStep
  <2>3. QED
    BY <2>1, <2>2
<1>9. QED
  BY <1>1, <1>5, <1>6, <1>7, <1>8, WorkStep

\* mpiport_return(): of a buffer that is used up, or of one that is not
LEMMA ReturnStep ==
  ASSUME IInv, NEW d \in Ranks, ReturnMpi(d)
  PROVE  IInv'
<1> DEFINE p == taken[d]
           b == inbuf[d][p]
           used == b.start >= Len(b.items)
           t == Tail(pending[d])
           r == IF p \notin finished[d] THEN <<"live">> ELSE <<>>
<1>1. /\ p \in Live /\ p \in Ranks /\ d \in Live /\ AtWork(p) /\ Link(p, d)
      /\ pending[d] \in Seq(Live) /\ pending[d] # <<>> /\ p = Head(pending[d])
      /\ Listed(pending[d]) \cap {p} = {p} /\ arrived[d] \cap {p} = {}
      /\ posts[d][p] = <<>>
  BY TakenFacts DEF ReturnMpi
<1>2. /\ UNCHANGED <<chan, mail, arrived, inbuf, finished, drained, sender, cycle,
                 mpi_pushed, mpi_got>>
      /\ taken' = [taken EXCEPT ![d] = NoRank]
      /\ ~used => UNCHANGED <<pending, posts>>
  BY DEF ReturnMpi
<1>3. /\ taken' \in [Ranks -> Live \cup {NoRank}] /\ taken'[d] = NoRank
      /\ \A e \in Ranks : e # d => taken'[e] = taken[e]
  BY <1>2 DEF IInv, TypeOK
<1>4. CASE ~used
  <2>1. TypeOK'
    BY <1>2, <1>3, <1>4 DEF IInv, TypeOK, sender, cycle
  <2>2. ListInv'
    BY <1>2, <1>3, <1>4 DEF IInv, ListInv
  <2>3. PostInv' /\ DeadInv'
    BY <1>2, <1>4 DEF IInv, PostInv, DeadInv
  <2>4. EndInv' /\ CountsInv' /\ mpi_stage' = mpi_stage /\ mpi_round' = mpi_round
    BY <1>2, ReceiverEnd DEF IInv, EndInv
  <2>5. ASSUME NEW q \in Live, NEW e \in Live, Link(q, e)
        PROVE  Link(q, e)'
    <3>1. SameLink(q, e)
      BY <1>2, <1>4 DEF SameLink
    <3>2. QED
      BY <2>5, <3>1, SameLinkStep
  <2>6. QED
    BY <1>1, <2>1, <2>2, <2>3, <2>4, <2>5, WorkStep
<1>5. CASE used
  <2>1. /\ pending' = [pending EXCEPT ![d] = t]
        /\ posts' = [posts EXCEPT ![d][p] = r]
    <3>1. Append(posts[d][p], "live") = <<"live">>
      BY <1>1
    <3>2. posts' = [posts EXCEPT ![d][p] = IF Posts(d, p) THEN Append(@, "live") ELSE @]
      BY <1>5 DEF ReturnMpi
    <3>3. pending' = [pending EXCEPT ![d] = Tail(@)]
      BY <1>5 DEF ReturnMpi
    <3>4. [posts EXCEPT ![d][p] = IF Posts(d, p) THEN Append(@, "live") ELSE @]
          = [posts EXCEPT ![d][p] = IF Posts(d, p) THEN Append(posts[d][p], "live")
                                    ELSE posts[d][p]]
      BY <1>1 DEF IInv, TypeOK
    <3>5. (IF Posts(d, p) THEN Append(posts[d][p], "live") ELSE posts[d][p]) = r
      BY <1>1, <3>1 DEF Posts
    <3>6. QED
      BY <3>2, <3>3, <3>4, <3>5 DEF IInv, TypeOK
  <2>2. \A i, j \in 1 .. Len(pending[d]) : pending[d][i] = pending[d][j] => i = j
    BY DEF IInv, ListInv
  <2>3. /\ t \in Seq(Live) /\ Listed(t) = Listed(pending[d]) \ {p}
        /\ \A i, j \in 1 .. Len(t) : t[i] = t[j] => i = j
    BY <1>1, <2>2, TailOfList
  <2>4. r \in Seq({"live", "lost"}) /\ r \in {<<>>, <<"live">>} /\ (r # <<>> => p \notin finished[d])
    <3>1. <<"live">> \in Seq({"live", "lost"}) /\ <<>> \in Seq({"live", "lost"})
      OBVIOUS
    <3>2. CASE p \in finished[d]
      BY <3>1, <3>2
    <3>3. CASE p \notin finished[d]
      BY <3>1, <3>3
    <3>4. QED
      BY <3>2, <3>3
  <2>5. /\ chan[p][d] \in Channel /\ Counts(chan[p][d]) /\ mpi_pushed[p][d] \in Nat
        /\ mail[p][d] \in Seq(Buffer) /\ b \in Buffer
    BY <1>1, LinkFacts
  <2>6. /\ Wire(chan[p][d], mpi_pushed[p][d], mail[p][d], b, mpi_got[d][p], {}, {p},
                finished[d] \cap {p})
        /\ {p} # {}
    BY <1>1 DEF Link
  <2>7. b.start >= Len(b.items)
    BY <1>5
  <2> HIDE DEF p, b, t, r
  <2>8. Wire(chan[p][d], mpi_pushed[p][d], mail[p][d], b, mpi_got[d][p], {}, {},
             finished[d] \cap {p})
    BY <2>5, <2>6, <2>7, WireReturn
  <2>9. /\ pending' \in [Ranks -> Seq(Live)] /\ pending'[d] = t
        /\ \A e \in Ranks : e # d => pending'[e] = pending[e]
    BY <2>1, <2>3 DEF IInv, TypeOK
  <2>10. /\ posts' \in [Ranks -> [Ranks -> Seq({"live", "lost"})]]
         /\ posts'[d][p] = r
         /\ \A e, q \in Ranks : e # d \/ q # p => posts'[e][q] = posts[e][q]
    <3> DEFINE V == Seq({"live", "lost"})
    <3>1. posts \in [Ranks -> [Ranks -> V]] /\ r \in V
      BY <2>4 DEF IInv, TypeOK
    <3> HIDE DEF V
    <3>2. QED
      BY <1>1, <2>1, <3>1, OneEntry DEF V
  <2>11. TypeOK'
    BY <1>2, <1>3, <2>9, <2>10 DEF IInv, TypeOK, sender, cycle
  <2>12. ListInv'
    <3> SUFFICES ASSUME NEW e \in Ranks
                 PROVE  /\ \A i, j \in 1 .. Len(pending'[e]) :
                             pending'[e][i] = pending'[e][j] => i = j
                        /\ taken'[e] # NoRank => pending'[e] # <<>> /\ taken'[e] = Head(pending'[e])
      BY DEF ListInv
    <3>1. CASE e = d
      BY <1>3, <2>3, <2>9, <3>1
    <3>2. CASE e # d
      <4>1. pending'[e] = pending[e] /\ taken'[e] = taken[e]
        BY <1>3, <2>9, <3>2
      <4>2. QED
        BY <4>1 DEF IInv, ListInv
    <3>3. QED
      BY <3>1, <3>2
  <2>13. PostInv'
    <3> SUFFICES ASSUME NEW q \in Ranks, NEW e \in Ranks
                 PROVE  /\ posts'[e][q] \in {<<>>, <<"live">>}
                        /\ posts'[e][q] # <<>> => q \in Live
      BY DEF PostInv
    <3>1. CASE e = d /\ q = p
      BY <1>1, <2>4, <2>10, <3>1
    <3>2. CASE e # d \/ q # p
      <4>1. posts'[e][q] = posts[e][q]
        BY <2>10, <3>2
      <4>2. QED
        BY <4>1 DEF IInv, PostInv
    <3>3. QED
      BY <3>1, <3>2
  <2>14. DeadInv'
    BY <1>2 DEF IInv, DeadInv
  <2>15. EndInv' /\ CountsInv' /\ mpi_stage' = mpi_stage /\ mpi_round' = mpi_round
    BY <1>2, ReceiverEnd DEF IInv, EndInv
  <2>16. ASSUME NEW q \in Live, NEW e \in Live, Link(q, e)
         PROVE  Link(q, e)'
    <3>0. q \in Ranks /\ e \in Ranks
      BY LiveRank
    <3>1. CASE q = p /\ e = d
      <4>1. /\ arrived'[d] \cap {p} = {} /\ Listed(pending'[d]) \cap {p} = {}
            /\ finished'[d] = finished[d] /\ inbuf'[d][p] = b
        BY <1>1, <1>2, <2>3, <2>9 DEF b
      <4>2. Posted(r, {}, {}, finished[d] \cap {p})
        BY <2>4 DEF Posted
      <4>3. QED
        BY <1>2, <2>8, <2>10, <3>1, <4>1, <4>2 DEF Link
    <3>2. CASE q # p \/ e # d
      <4>1. Listed(pending'[e]) \cap {q} = Listed(pending[e]) \cap {q}
        BY <2>3, <2>9, <3>0, <3>2
      <4>2. SameLink(q, e)
        BY <1>2, <2>10, <3>0, <3>2, <4>1 DEF SameLink
      <4>3. QED
        BY <2>16, <4>2, SameLinkStep
    <3>3. QED
      BY <3>1, <3>2
  <2>17. p \in Live /\ AtWork(p)
    BY <1>1
  <2>18. QED
    BY <2>11, <2>12, <2>13, <2>14, <2>15, <2>16, <2>17, WorkStep
<1>6. QED
  BY <1>4, <1>5

\* mpiport_borrow() while some buffers are still listed
LEMMA BorrowAgainStep ==
  ASSUME IInv, NEW d \in Ranks, Borrow(d), pending[d] # <<>>
  PROVE  IInv'
<1>1. d \in Live /\ AtWork(d)
  BY IdleWorks DEF Borrow
<1>2. /\ pending' = pending
      /\ UNCHANGED <<chan, mail, posts, arrived, finished, inbuf, sender, cycle,
                     mpi_pushed, mpi_got>>
      /\ taken' = [taken EXCEPT ![d] = Head(pending[d])]
      /\ drained' = [drained EXCEPT ![d] = @ \/ NothingMore(d, pending[d])]
  BY DEF Borrow, IInv, TypeOK
<1>3. drained' = drained
  <2>1. ~NothingMore(d, pending[d])
    BY DEF NothingMore
  <2>2. drained \in [Ranks -> BOOLEAN]
    BY DEF IInv, TypeOK
  <2>3. drained' = [drained EXCEPT ![d] = drained[d]]
    BY <1>2, <2>1, <2>2
  <2>4. QED
    BY <2>2, <2>3
<1>4. Head(pending[d]) \in Live
  BY HeadTailProperties DEF IInv, TypeOK
<1>5. /\ taken' \in [Ranks -> Live \cup {NoRank}] /\ taken'[d] = Head(pending[d])
      /\ \A e \in Ranks : e # d => taken'[e] = taken[e]
  BY <1>2, <1>4 DEF IInv, TypeOK
<1>6. TypeOK'
  BY <1>2, <1>3, <1>5 DEF IInv, TypeOK, sender, cycle
<1>7. ListInv'
  <2> SUFFICES ASSUME NEW e \in Ranks
               PROVE  /\ \A i, j \in 1 .. Len(pending[e]) :
                           pending[e][i] = pending[e][j] => i = j
                      /\ taken'[e] # NoRank => pending[e] # <<>> /\ taken'[e] = Head(pending[e])
    BY <1>2 DEF ListInv
  <2>1. QED
    BY <1>5 DEF IInv, ListInv
<1>8. PostInv' /\ DeadInv'
  BY <1>2 DEF IInv, PostInv, DeadInv
<1>9. EndInv' /\ CountsInv' /\ mpi_stage' = mpi_stage /\ mpi_round' = mpi_round
  BY <1>2, <1>3, ReceiverEnd DEF IInv, EndInv
<1>10. ASSUME NEW q \in Live, NEW e \in Live, Link(q, e)
       PROVE  Link(q, e)'
  <2>1. SameLink(q, e)
    BY <1>2 DEF SameLink
  <2>2. QED
    BY <1>10, <2>1, SameLinkStep
<1>11. QED
  BY <1>1, <1>6, <1>7, <1>8, <1>9, <1>10, WorkStep

\* A message of p is reported to d: the link as d then sees it.
LEMMA ReportedLink ==
  ASSUME IInv, NEW d \in Ranks, NEW p \in Live, Link(p, d), d \in Live, AtWork(p),
         pending[d] = <<>>, NEW list, Listed(list) = NonEmpty(d)
  PROVE  /\ Wire(chan[p][d], mpi_pushed[p][d], mail[p][d],
                 Cleared(inbuf[d][p], arrived[d] \cap {p}), mpi_got[d][p], {},
                 Listed(list) \cap {p}, (finished[d] \cup LastOf(d)) \cap {p})
         /\ Posted(posts[d][p], {}, Listed(list) \cap {p},
                   (finished[d] \cup LastOf(d)) \cap {p})
<1> DEFINE A == arrived[d] \cap {p}
           L == Listed(list) \cap {p}
           F == finished[d] \cap {p}
           G == (finished[d] \cup LastOf(d)) \cap {p}
           b == inbuf[d][p]
<1>1. /\ chan[p][d] \in Channel /\ Counts(chan[p][d])
      /\ mpi_pushed[p][d] \in Nat /\ mail[p][d] \in Seq(Buffer) /\ b \in Buffer
  BY LinkFacts
<1>2. Listed(pending[d]) = {}
  <2>1. Len(pending[d]) = 0
    BY DEF Listed
  <2>2. QED
    BY <2>1 DEF Listed
<1>3. /\ Wire(chan[p][d], mpi_pushed[p][d], mail[p][d], b, mpi_got[d][p], A, {}, F)
      /\ Posted(posts[d][p], A, {}, F)
  BY <1>2 DEF Link
<1>4. L # {} <=> A # {} /\ b.items # <<>>
  BY DEF NonEmpty
<1>5. G # {} => F # {} \/ (A # {} /\ b.start = 1)
  BY DEF LastOf
<1>6. Posted(posts[d][p], {}, L, G)
  BY <1>3, <1>4, <1>5 DEF Posted
<1> HIDE DEF A, L, F, G, b
<1>7. Wire(chan[p][d], mpi_pushed[p][d], mail[p][d], Cleared(b, A), mpi_got[d][p], {}, L, G)
  BY <1>1, <1>3, <1>4, <1>5, WireBorrow
<1>8. QED
  BY <1>6, <1>7 DEF A, L, F, G, b

\* What Borrow does when nothing is listed
LEMMA BorrowNewFacts ==
  ASSUME IInv, NEW d \in Ranks, Borrow(d), pending[d] = <<>>
  PROVE  \E list \in Seq(Live) :
           /\ \A i, j \in 1 .. Len(list) : list[i] = list[j] => i = j
           /\ Listed(list) = NonEmpty(d)
           /\ list = <<>> <=> NonEmpty(d) = {}
           /\ pending' = [pending EXCEPT ![d] = list]
           /\ arrived' = [arrived EXCEPT ![d] = {}]
           /\ finished' = [finished EXCEPT ![d] = finished[d] \cup LastOf(d)]
           /\ inbuf' = [inbuf EXCEPT ![d] =
                          [p \in Ranks |-> Cleared(inbuf[d][p], arrived[d] \cap {p})]]
           /\ taken' = [taken EXCEPT ![d] = IF list = <<>> THEN NoRank ELSE Head(list)]
           /\ drained' = [drained EXCEPT ![d] = drained[d] \/ NothingMore(d, list)]
<1>1. PICK list \in SetToSeqs(NonEmpty(d)) :
        /\ pending' = [pending EXCEPT ![d] = list]
        /\ arrived'  = [arrived EXCEPT ![d] = {}]
        /\ finished' = [finished EXCEPT ![d] = @ \cup LastOf(d)]
        /\ inbuf'    = [inbuf EXCEPT ![d] =
             [p \in Ranks |-> IF p \in LastOf(d) THEN [@[p] EXCEPT !.start = 0]
                             ELSE @[p]]]
        /\ taken' = [taken EXCEPT ![d] = IF list = <<>> THEN NoRank ELSE Head(list)]
        /\ drained' = [drained EXCEPT ![d] = @ \/ NothingMore(d, list)]
  BY DEF Borrow
<1>2. /\ TypeOK /\ arrived[d] \subseteq Live /\ arrived[d] \subseteq Ranks
  BY LiveRank DEF IInv, TypeOK
<1>3. NonEmpty(d) \subseteq Live /\ NonEmpty(d) \subseteq Ranks
  BY <1>2 DEF NonEmpty
<1>4. IsFiniteSet(NonEmpty(d))
  <2>1. IsFiniteSet(Ranks)
    BY GroupAssumption, FS_Interval DEF Ranks
  <2>2. QED
    BY <1>3, <2>1, FS_Subset
<1>5. /\ list \in Seq(NonEmpty(d))
      /\ \A i, j \in 1 .. Len(list) : list[i] = list[j] => i = j
      /\ Listed(list) = NonEmpty(d)
      /\ list = <<>> <=> NonEmpty(d) = {}
  BY <1>4, ListsOf
<1>6. list \in Seq(Live)
  BY <1>3, <1>5
<1>7. finished' = [finished EXCEPT ![d] = finished[d] \cup LastOf(d)]
  BY <1>1, <1>2 DEF TypeOK
<1>8. drained' = [drained EXCEPT ![d] = drained[d] \/ NothingMore(d, list)]
  BY <1>1, <1>2 DEF TypeOK
<1>9. inbuf' = [inbuf EXCEPT ![d] =
                  [p \in Ranks |-> Cleared(inbuf[d][p], arrived[d] \cap {p})]]
  <2>1. ASSUME NEW p \in Ranks
        PROVE  (IF p \in LastOf(d) THEN [inbuf[d][p] EXCEPT !.start = 0] ELSE inbuf[d][p])
               = Cleared(inbuf[d][p], arrived[d] \cap {p})
    <3>1. p \in LastOf(d) <=> arrived[d] \cap {p} # {} /\ inbuf[d][p].start = 1
      BY DEF LastOf
    <3>2. QED
      BY <3>1 DEF Cleared
  <2>2. inbuf' = [inbuf EXCEPT ![d] =
             [p \in Ranks |-> IF p \in LastOf(d) THEN [inbuf[d][p] EXCEPT !.start = 0]
                             ELSE inbuf[d][p]]]
    BY <1>1, <1>2 DEF TypeOK
  <2>3. QED
    BY <2>1, <2>2
<1>10. QED
  BY <1>1, <1>5, <1>6, <1>7, <1>8, <1>9

\* mpiport_borrow() with MPI_Testsome
LEMMA BorrowNewStep ==
  ASSUME IInv, NEW d \in Ranks, Borrow(d), pending[d] = <<>>
  PROVE  IInv'
<1>1. d \in Live /\ AtWork(d) /\ taken[d] = NoRank
      /\ UNCHANGED <<chan, mail, posts, sender, cycle, mpi_pushed, mpi_got>>
  BY IdleWorks DEF Borrow
<1>2. PICK list \in Seq(Live) :
           /\ \A i, j \in 1 .. Len(list) : list[i] = list[j] => i = j
           /\ Listed(list) = NonEmpty(d)
           /\ list = <<>> <=> NonEmpty(d) = {}
           /\ pending' = [pending EXCEPT ![d] = list]
           /\ arrived' = [arrived EXCEPT ![d] = {}]
           /\ finished' = [finished EXCEPT ![d] = finished[d] \cup LastOf(d)]
           /\ inbuf' = [inbuf EXCEPT ![d] =
                          [p \in Ranks |-> Cleared(inbuf[d][p], arrived[d] \cap {p})]]
           /\ taken' = [taken EXCEPT ![d] = IF list = <<>> THEN NoRank ELSE Head(list)]
           /\ drained' = [drained EXCEPT ![d] = drained[d] \/ NothingMore(d, list)]
  BY BorrowNewFacts
<1> DEFINE t == IF list = <<>> THEN NoRank ELSE Head(list)
           F == finished[d] \cup LastOf(d)
           I == [p \in Ranks |-> Cleared(inbuf[d][p], arrived[d] \cap {p})]
           D == drained[d] \/ NothingMore(d, list)
<1>3. t \in Live \cup {NoRank} /\ (t # NoRank => list # <<>> /\ t = Head(list))
  BY HeadTailProperties
<1>4. F \in SUBSET Ranks
  BY LiveRank DEF IInv, TypeOK, LastOf
<1>5. I \in [Ranks -> Buffer]
  <2>1. ASSUME NEW p \in Ranks PROVE Cleared(inbuf[d][p], arrived[d] \cap {p}) \in Buffer
    <3>1. inbuf[d][p] \in Buffer
      BY DEF IInv, TypeOK
    <3>2. QED
      BY <3>1 DEF Cleared, Buffer
  <2>2. QED
    BY <2>1
<1>6. /\ pending' \in [Ranks -> Seq(Live)] /\ pending'[d] = list
      /\ \A e \in Ranks : e # d => pending'[e] = pending[e]
  BY <1>2 DEF IInv, TypeOK
<1>7. /\ arrived' \in [Ranks -> SUBSET Live] /\ arrived'[d] = {}
      /\ \A e \in Ranks : e # d => arrived'[e] = arrived[e]
  BY <1>2 DEF IInv, TypeOK
<1>8. /\ finished' \in [Ranks -> SUBSET Ranks] /\ finished'[d] = F
      /\ \A e \in Ranks : e # d => finished'[e] = finished[e]
  BY <1>2, <1>4 DEF IInv, TypeOK
<1>9. /\ inbuf' \in [Ranks -> [Ranks -> Buffer]]
      /\ \A p \in Ranks : inbuf'[d][p] = Cleared(inbuf[d][p], arrived[d] \cap {p})
      /\ \A e \in Ranks : e # d => inbuf'[e] = inbuf[e]
  <2>1. inbuf' \in [Ranks -> [Ranks -> Buffer]] /\ inbuf'[d] = I
        /\ \A e \in Ranks : e # d => inbuf'[e] = inbuf[e]
    <3>1. inbuf \in [Ranks -> [Ranks -> Buffer]] /\ inbuf' = [inbuf EXCEPT ![d] = I]
      BY <1>2 DEF IInv, TypeOK
    <3> HIDE DEF I
    <3>2. QED
      BY <1>5, <3>1
  <2>2. QED
    BY <2>1
<1>10. /\ taken' \in [Ranks -> Live \cup {NoRank}] /\ taken'[d] = t
       /\ \A e \in Ranks : e # d => taken'[e] = taken[e]
  <2>1. taken \in [Ranks -> Live \cup {NoRank}] /\ taken' = [taken EXCEPT ![d] = t]
    BY <1>2 DEF IInv, TypeOK
  <2> HIDE DEF t
  <2>2. QED
    BY <1>3, <2>1
<1>11. /\ drained' \in [Ranks -> BOOLEAN]
       /\ drained'[d] => drained[d] \/ F = Ranks
       /\ drained[d] => drained'[d]
       /\ \A e \in Ranks : e # d => drained'[e] = drained[e]
  <2>1. drained \in [Ranks -> BOOLEAN] /\ drained' = [drained EXCEPT ![d] = D]
    BY <1>2 DEF IInv, TypeOK
  <2>2. D \in BOOLEAN
    OBVIOUS
  <2>3. D => drained[d] \/ F = Ranks
    BY <1>8 DEF NothingMore
  <2>4. drained[d] => D
    OBVIOUS
  <2> HIDE DEF D, F
  <2>5. drained' \in [Ranks -> BOOLEAN] /\ drained'[d] = D
        /\ \A e \in Ranks : e # d => drained'[e] = drained[e]
    BY <2>1, <2>2
  <2>6. QED
    BY <2>3, <2>4, <2>5
<1> HIDE DEF t, F, I, D
<1>12. TypeOK'
  BY <1>1, <1>6, <1>7, <1>8, <1>9, <1>10, <1>11 DEF IInv, TypeOK, sender, cycle
<1>13. ListInv'
  <2> SUFFICES ASSUME NEW e \in Ranks
               PROVE  /\ \A i, j \in 1 .. Len(pending'[e]) :
                           pending'[e][i] = pending'[e][j] => i = j
                      /\ taken'[e] # NoRank => pending'[e] # <<>> /\ taken'[e] = Head(pending'[e])
    BY DEF ListInv
  <2>1. CASE e = d
    BY <1>2, <1>3, <1>6, <1>10, <2>1
  <2>2. CASE e # d
    <3>1. pending'[e] = pending[e] /\ taken'[e] = taken[e]
      BY <1>6, <1>10, <2>2
    <3>2. QED
      BY <3>1 DEF IInv, ListInv
  <2>3. QED
    BY <2>1, <2>2
<1>14. PostInv' /\ DeadInv'
  BY <1>1 DEF IInv, PostInv, DeadInv
<1>15. EndInv' /\ CountsInv' /\ mpi_stage' = mpi_stage /\ mpi_round' = mpi_round
  <2>1. \A e \in Ranks : drained[e] => finished[e] = Ranks
    BY DEF IInv, EndInv
  <2>2. finished[d] = Ranks => F = Ranks
    BY <1>4 DEF F
  <2>3. \A e \in Ranks : drained'[e] => finished'[e] = Ranks
    BY <1>8, <1>11, <2>1, <2>2
  <2>4. \A e \in Ranks : drained[e] => drained'[e]
    BY <1>11
  <2>5. UNCHANGED <<chan, sender, cycle>>
    BY <1>1
  <2>6. QED
    BY <2>3, <2>4, <2>5, ReceiverEnd
<1>16. ASSUME NEW q \in Live, NEW e \in Live, Link(q, e)
       PROVE  Link(q, e)'
  <2>0. q \in Ranks /\ e \in Ranks
    BY LiveRank
  <2>1. CASE e = d
    <3>1. AtWork(q)
      BY <1>1 DEF IInv, RoundInv
    <3>2. /\ Wire(chan[q][d], mpi_pushed[q][d], mail[q][d],
                  Cleared(inbuf[d][q], arrived[d] \cap {q}), mpi_got[d][q], {},
                  Listed(list) \cap {q}, F \cap {q})
          /\ Posted(posts[d][q], {}, Listed(list) \cap {q}, F \cap {q})
      BY <1>1, <1>2, <1>16, <2>1, <3>1, ReportedLink DEF F
    <3>3. /\ chan'[q][d] = chan[q][d] /\ mpi_pushed'[q][d] = mpi_pushed[q][d]
          /\ mail'[q][d] = mail[q][d] /\ mpi_got'[d][q] = mpi_got[d][q]
          /\ posts'[d][q] = posts[d][q] /\ arrived'[d] \cap {q} = {}
      BY <1>1, <1>7
    <3>4. /\ inbuf'[d][q] = Cleared(inbuf[d][q], arrived[d] \cap {q})
          /\ pending'[d] = list /\ finished'[d] = F
      BY <1>6, <1>8, <1>9, <2>0
    <3>5. QED
      BY <2>1, <3>2, <3>3, <3>4 DEF Link
  <2>2. CASE e # d
    <3>1. SameLink(q, e)
      BY <1>1, <1>6, <1>7, <1>8, <1>9, <2>0, <2>2 DEF SameLink
    <3>2. QED
      BY <1>16, <3>1, SameLinkStep
  <2>3. QED
    BY <2>1, <2>2
<1>17. QED
  BY <1>1, <1>12, <1>13, <1>14, <1>15, <1>16, WorkStep

-----------------------------------------------------------------------------
(* Reset and setup *)

\* porter_reset() up to the barrier
LEMMA EnterResetStep ==
  ASSUME IInv, NEW p \in Ranks, EnterReset(p)
  PROVE  IInv'
<1>1. /\ p \in Live /\ AtWork(p) /\ flushed[p] /\ drained[p]
      /\ UNCHANGED <<chan, mail, receiver, sender, mpi_round, mpi_pushed, mpi_got>>
      /\ mpi_stage' = [mpi_stage EXCEPT ![p] = "resetting"]
  BY IdleWorks DEF EnterReset
<1>2. /\ mpi_stage' \in [Ranks -> Stage] /\ mpi_stage'[p] = "resetting"
      /\ \A q \in Ranks : q # p => mpi_stage'[q] = mpi_stage[q]
  BY <1>1 DEF IInv, TypeOK, Stage
<1>3. \A q \in Live : AtWork(q) /\ AtWork(q)'
  BY <1>1, <1>2, LiveRank DEF IInv, RoundInv, AtWork
<1>4. TypeOK'
  BY <1>1, <1>2 DEF IInv, TypeOK, receiver, sender
<1>5. CountsInv' /\ ListInv' /\ PostInv' /\ DeadInv'
  BY <1>1 DEF IInv, CountsInv, ListInv, PostInv, DeadInv, receiver
<1>6. EndInv'
  <2>1. \A q \in Live : mpi_stage'[q] \in {"resetting", "dormant"} => flushed[q] /\ drained[q]
    BY <1>1, <1>2, LiveRank DEF IInv, EndInv
  <2>2. QED
    BY <1>1, <2>1 DEF IInv, EndInv, receiver, sender
<1>7. RoundInv'
  BY <1>1, <1>3 DEF IInv, RoundInv
<1>8. LinkInv'
  <2>1. \A q, e \in Live : Link(q, e)
    BY <1>3 DEF IInv, LinkInv
  <2>2. \A q, e \in Live : Link(q, e)'
    BY <1>1, <2>1 DEF Link, receiver
  <2>3. QED
    BY <1>3, <2>2 DEF LinkInv
<1>9. FreshInv'
  BY <1>3 DEF FreshInv, AtWork
<1>10. QED
  BY <1>4, <1>5, <1>6, <1>7, <1>8, <1>9 DEF IInv

\* A link of which both ends are done is quiet.
LEMMA DoneIsQuiet ==
  ASSUME IInv, NEW p \in Live, NEW d \in Live, AtWork(p), flushed[p], drained[d]
  PROVE  Quiet(p, d)
<1>1. p \in Ranks /\ d \in Ranks
  BY LiveRank
<1>2. /\ Link(p, d) /\ Counts(chan[p][d]) /\ chan[p][d].delivered = chan[p][d].emitted
  BY <1>1, LinkFacts DEF IInv, EndInv
<1>3. finished[d] \cap {p} # {}
  BY <1>1 DEF IInv, EndInv
<1>4. posts[d][p] = <<>>
  BY <1>2, <1>3 DEF Link, Posted
<1>5. mail[p][d] = <<>>
  BY <1>2, <1>3 DEF Link, Wire, Lands, Over
<1>6. chan[p][d].req = "null"
  BY <1>2 DEF Counts
<1>7. QED
  BY <1>4, <1>5, <1>6 DEF Quiet

\* The barrier in mpiport_reset(): every link is quiet.
LEMMA ResetBarrierStep ==
  ASSUME IInv, ResetBarrier
  PROVE  IInv'
<1>1. /\ \A p \in Live : mpi_stage[p] = "resetting" /\ mpi_stage'[p] = "dormant"
      /\ UNCHANGED <<chan, mail, receiver, sender, mpi_round, mpi_pushed, mpi_got>>
      /\ mpi_stage' \in [Ranks -> Stage]
  BY LiveRank DEF ResetBarrier, AllRanksAt, Stage
<1>2. \A p \in Live : AtWork(p) /\ ~AtWork(p)' /\ flushed[p] /\ drained[p]
  BY <1>1 DEF AtWork, IInv, EndInv
<1>3. TypeOK'
  BY <1>1 DEF IInv, TypeOK, receiver, sender
<1>4. CountsInv' /\ ListInv' /\ PostInv' /\ DeadInv'
  BY <1>1 DEF IInv, CountsInv, ListInv, PostInv, DeadInv, receiver
<1>5. EndInv'
  BY <1>1, <1>2 DEF IInv, EndInv, receiver, sender
<1>6. RoundInv'
  BY <1>1, <1>2 DEF IInv, RoundInv
<1>7. LinkInv'
  <2>1. \A p, d \in Live : Quiet(p, d)
    BY <1>2, DoneIsQuiet
  <2>2. \A p, d \in Live : Quiet(p, d)'
    BY <1>1, <2>1 DEF Quiet, receiver
  <2>3. QED
    BY <1>2, <2>2 DEF LinkInv
<1>8. FreshInv'
  BY <1>1 DEF FreshInv
<1>9. QED
  BY <1>3, <1>4, <1>5, <1>6, <1>7, <1>8 DEF IInv

-----------------------------------------------------------------------------
(* Setup *)

\* PE p starts anew: what Setup makes of its part of the state
LEMMA SetupFacts ==
  ASSUME IInv, NEW p \in Ranks, Setup(p)
  PROVE  /\ Fresh(p)' /\ \A s \in Ranks : posts'[p][s] = <<>>
         /\ mpi_round'[p] = mpi_round[p] + 1 /\ mpi_stage'[p] = "set"
         /\ TypeOK'
<1>1. p \in Live /\ mpi_stage[p] = "dormant" /\ TypeOK /\ ~AtWork(p)
  BY DEF Setup, IInv, AtWork
<1>2. \A s \in Ranks : posts[p][s] = <<>>
  <2> SUFFICES ASSUME NEW s \in Ranks PROVE posts[p][s] = <<>>
    OBVIOUS
  <2>1. CASE s \in Live
    <3>1. ~AtWork(s)
      BY <1>1, <2>1 DEF IInv, RoundInv
    <3>2. QED
      BY <1>1, <2>1, <3>1 DEF IInv, LinkInv, Quiet
  <2>2. CASE s \notin Live
    BY <2>2 DEF IInv, PostInv
  <2>3. QED
    BY <2>1, <2>2
<1>3. \A s \in Ranks : [i \in DOMAIN posts[p][s] |-> "lost"] = <<>>
  <2> SUFFICES ASSUME NEW s \in Ranks PROVE [i \in DOMAIN posts[p][s] |-> "lost"] = <<>>
    OBVIOUS
  <2>1. DOMAIN posts[p][s] = {}
    BY <1>2
  <2> DEFINE u == [i \in DOMAIN posts[p][s] |-> "lost"]
  <2>2. u \in [1 .. 0 -> {"lost"}] /\ 1 .. 0 = {}
    BY <2>1
  <2>3. u \in Seq({"lost"}) /\ Len(u) = 0
    <3> HIDE DEF u
    <3>1. u \in Seq({"lost"})
      BY <2>2, SeqDef
    <3>2. Len(u) \in Nat /\ 1 .. Len(u) = {}
      BY <2>2, <3>1, LenProperties
    <3>3. QED
      BY <3>1, <3>2
  <2> HIDE DEF u
  <2>4. u = <<>>
    BY <2>3, EmptySeq
  <2>5. QED
    BY <2>4 DEF u
<1> DEFINE E == [s \in Ranks |-> <<>>]
           C == [d \in Ranks |-> NewChannel(d)]
           Z == [d \in Ranks |-> 0]
<1>4. posts' = [posts EXCEPT ![p] = E]
  <2>1. [s \in Ranks |-> [i \in DOMAIN posts[p][s] |-> "lost"]] = E
    BY <1>3
  <2>2. posts' = [posts EXCEPT ![p] = [s \in Ranks |-> [i \in DOMAIN posts[p][s] |-> "lost"]]]
    BY DEF Setup
  <2>3. QED
    BY <2>1, <2>2
<1>5. C \in [Ranks -> Channel]
  BY NewChannelIs
<1>6. /\ E \in [Ranks -> Seq({"live", "lost"})] /\ E \in [Ranks -> Seq(Nat)]
      /\ Z \in [Ranks -> Nat] /\ \A s \in Ranks : E[s] = <<>>
  BY EmptySeq
<1>7. /\ chan' = [chan EXCEPT ![p] = C] /\ mpi_pushed' = [mpi_pushed EXCEPT ![p] = Z]
      /\ mpi_got' = [mpi_got EXCEPT ![p] = E]
  BY DEF Setup
<1> HIDE DEF E, C, Z
<1>8. chan' \in [Ranks -> [Ranks -> Channel]] /\ chan'[p] = C
  BY <1>1, <1>5, <1>7 DEF TypeOK
<1>9. posts' \in [Ranks -> [Ranks -> Seq({"live", "lost"})]] /\ posts'[p] = E
  <2> DEFINE V == Seq({"live", "lost"})
  <2>1. posts \in [Ranks -> [Ranks -> V]] /\ E \in [Ranks -> V]
    BY <1>1, <1>6 DEF TypeOK
  <2> HIDE DEF V
  <2>2. posts' \in [Ranks -> [Ranks -> V]] /\ posts'[p] = E
    BY <1>4, <2>1
  <2>3. QED
    BY <2>2 DEF V
<1>10. mpi_got' \in [Ranks -> [Ranks -> Seq(Nat)]] /\ mpi_got'[p] = E
  <2> DEFINE V == Seq(Nat)
  <2>1. mpi_got \in [Ranks -> [Ranks -> V]] /\ E \in [Ranks -> V]
    BY <1>1, <1>6 DEF TypeOK
  <2> HIDE DEF V
  <2>2. mpi_got' \in [Ranks -> [Ranks -> V]] /\ mpi_got'[p] = E
    BY <1>7, <2>1
  <2>3. QED
    BY <2>2 DEF V
<1>11. mpi_pushed' \in [Ranks -> [Ranks -> Nat]] /\ mpi_pushed'[p] = Z
  BY <1>1, <1>6, <1>7 DEF TypeOK
<1>12. /\ arrived' \in [Ranks -> SUBSET Live] /\ arrived'[p] = {}
       /\ pending' \in [Ranks -> Seq(Live)] /\ pending'[p] = <<>>
       /\ taken' \in [Ranks -> Live \cup {NoRank}] /\ taken'[p] = NoRank
       /\ finished' \in [Ranks -> SUBSET Ranks] /\ finished'[p] = Ranks \ Live
  <2>1. arrived' \in [Ranks -> SUBSET Live] /\ arrived'[p] = {}
    BY <1>1 DEF Setup, TypeOK
  <2>2. pending' \in [Ranks -> Seq(Live)] /\ pending'[p] = <<>>
    <3> DEFINE V == Seq(Live)
    <3>1. pending \in [Ranks -> V] /\ <<>> \in V /\ pending' = [pending EXCEPT ![p] = <<>>]
      BY <1>1, EmptySeq DEF TypeOK, Setup
    <3> HIDE DEF V
    <3>2. pending' \in [Ranks -> V] /\ pending'[p] = <<>>
      BY <3>1
    <3>3. QED
      BY <3>2 DEF V
  <2>3. taken' \in [Ranks -> Live \cup {NoRank}] /\ taken'[p] = NoRank
    BY <1>1 DEF Setup, TypeOK
  <2>4. finished' \in [Ranks -> SUBSET Ranks] /\ finished'[p] = Ranks \ Live
    BY <1>1 DEF Setup, TypeOK
  <2>5. QED
    BY <2>1, <2>2, <2>3, <2>4
<1>13. /\ drained' \in [Ranks -> BOOLEAN] /\ ~drained'[p]
       /\ mpi_endgame' \in [Ranks -> BOOLEAN] /\ ~mpi_endgame'[p]
       /\ flushed' \in [Ranks -> BOOLEAN] /\ ~flushed'[p]
       /\ done' \in [Ranks -> BOOLEAN] /\ ~done'[p]
  BY <1>1 DEF Setup, TypeOK
<1>14. /\ mpi_stage' \in [Ranks -> Stage] /\ mpi_stage'[p] = "set"
       /\ mpi_round' \in [Ranks -> Nat] /\ mpi_round'[p] = mpi_round[p] + 1
  BY <1>1 DEF Setup, TypeOK, Stage
<1>15. mail' = mail /\ inbuf' = inbuf
  BY DEF Setup
<1>16. TypeOK'
  BY <1>1, <1>8, <1>9, <1>10, <1>11, <1>12, <1>13, <1>14, <1>15 DEF TypeOK
<1>17. Fresh(p)'
  BY <1>8, <1>10, <1>11, <1>12, <1>13 DEF Fresh, E, C, Z
<1>18. \A s \in Ranks : posts'[p][s] = <<>>
  BY <1>6, <1>9
<1>19. QED
  BY <1>14, <1>16, <1>17, <1>18

\* ... and that it leaves that of the others alone
LEMMA SetupOthers ==
  ASSUME IInv, NEW p \in Ranks, Setup(p), NEW q \in Ranks, q # p
  PROVE  /\ chan'[q] = chan[q] /\ posts'[q] = posts[q] /\ arrived'[q] = arrived[q]
         /\ pending'[q] = pending[q] /\ taken'[q] = taken[q]
         /\ finished'[q] = finished[q] /\ drained'[q] = drained[q]
         /\ mpi_endgame'[q] = mpi_endgame[q] /\ flushed'[q] = flushed[q] /\ done'[q] = done[q]
         /\ mpi_stage'[q] = mpi_stage[q] /\ mpi_round'[q] = mpi_round[q]
         /\ mpi_pushed'[q] = mpi_pushed[q] /\ mpi_got'[q] = mpi_got[q]
BY DEF Setup, IInv, TypeOK

\* mpiport_setup() up to the barrier
LEMMA SetupStep ==
  ASSUME IInv, NEW p \in Ranks, Setup(p)
  PROVE  IInv'
<1>1. p \in Live /\ mpi_stage[p] = "dormant" /\ mail' = mail /\ TypeOK
  BY DEF Setup, IInv
<1>2. /\ Fresh(p)' /\ \A s \in Ranks : posts'[p][s] = <<>>
      /\ mpi_round'[p] = mpi_round[p] + 1 /\ mpi_stage'[p] = "set" /\ TypeOK'
  BY SetupFacts
<1>3. \A q \in Live : mpi_stage[q] \in {"dormant", "set"} /\ ~AtWork(q) /\ ~AtWork(q)'
  <2> SUFFICES ASSUME NEW q \in Live
               PROVE  mpi_stage[q] \in {"dormant", "set"} /\ ~AtWork(q) /\ ~AtWork(q)'
    OBVIOUS
  <2>1. ~AtWork(q)
    BY <1>1 DEF IInv, RoundInv, AtWork
  <2>2. mpi_stage[q] \in {"dormant", "set"}
    BY <1>1, <2>1, LiveRank DEF AtWork, TypeOK, Stage
  <2>3. mpi_stage'[q] \in {"dormant", "set"}
    BY <1>2, <2>2, SetupOthers, LiveRank
  <2>4. QED
    BY <2>1, <2>2, <2>3 DEF AtWork
<1>4. \A d \in Ranks : chan'[p][d] = NewChannel(d)
  BY <1>2 DEF Fresh
<1>5. \A d \in Ranks : /\ Counts(chan'[p][d]) /\ chan'[p][d].req = "null"
                       /\ chan'[p][d].all_sent <=> d \notin Live
  BY <1>4, NewChannelIs
<1>6. \A q \in Ranks : q # p => chan'[q] = chan[q] /\ posts'[q] = posts[q]
  BY SetupOthers
<1>7. CountsInv'
  BY <1>5, <1>6 DEF IInv, CountsInv
<1>8. ListInv'
  <2> SUFFICES ASSUME NEW e \in Ranks
               PROVE  /\ \A i, j \in 1 .. Len(pending'[e]) :
                           pending'[e][i] = pending'[e][j] => i = j
                      /\ taken'[e] # NoRank => pending'[e] # <<>> /\ taken'[e] = Head(pending'[e])
    BY DEF ListInv
  <2>1. CASE e = p
    <3>1. pending'[e] = <<>> /\ taken'[e] = NoRank
      BY <1>2, <2>1 DEF Fresh
    <3>2. QED
      BY <3>1
  <2>2. CASE e # p
    <3>1. pending'[e] = pending[e] /\ taken'[e] = taken[e]
      BY <2>2, SetupOthers
    <3>2. QED
      BY <3>1 DEF IInv, ListInv
  <2>3. QED
    BY <2>1, <2>2
<1>9. PostInv'
  BY <1>2, <1>6 DEF IInv, PostInv
<1>10. DeadInv'
  <2> SUFFICES ASSUME NEW q \in Ranks, NEW e \in Ranks, ~({q, e} \subseteq Live)
               PROVE  /\ chan'[q][e].req = "null" /\ mail'[q][e] = <<>>
                      /\ e \notin Live => chan'[q][e].all_sent
    BY DEF DeadInv
  <2>1. mail'[q][e] = <<>>
    BY <1>1 DEF IInv, DeadInv
  <2>2. CASE q = p
    BY <1>5, <2>1, <2>2
  <2>3. CASE q # p
    BY <1>6, <2>1, <2>3 DEF IInv, DeadInv
  <2>4. QED
    BY <2>2, <2>3
<1>11. EndInv'
  <2>1. \A q, e \in Live : chan'[q][e].all_sent => done'[q]
    BY <1>5, SetupOthers, LiveRank DEF IInv, EndInv
  <2>2. ASSUME NEW q \in Ranks, flushed'[q]
        PROVE  /\ done'[q]
               /\ \A e \in Ranks : /\ chan'[q][e].all_sent
                                   /\ chan'[q][e].delivered = chan'[q][e].emitted
    <3>1. q # p
      BY <1>2, <2>2 DEF Fresh
    <3>2. chan'[q] = chan[q] /\ flushed'[q] = flushed[q] /\ done'[q] = done[q]
      BY <3>1, SetupOthers
    <3>3. QED
      BY <2>2, <3>2 DEF IInv, EndInv
  <2>3. ASSUME NEW q \in Ranks, drained'[q]
        PROVE  finished'[q] = Ranks
    <3>1. q # p
      BY <1>2, <2>3 DEF Fresh
    <3>2. drained'[q] = drained[q] /\ finished'[q] = finished[q]
      BY <3>1, SetupOthers
    <3>3. QED
      BY <2>3, <3>2 DEF IInv, EndInv
  <2>4. ASSUME NEW q \in Live, mpi_stage'[q] \in {"resetting", "dormant"}
        PROVE  flushed'[q] /\ drained'[q]
    <3>1. q # p /\ q \in Ranks
      BY <1>2, <2>4, LiveRank
    <3>2. drained'[q] = drained[q] /\ flushed'[q] = flushed[q] /\ mpi_stage'[q] = mpi_stage[q]
      BY <3>1, SetupOthers
    <3>3. QED
      BY <2>4, <3>2 DEF IInv, EndInv
  <2>5. QED
    BY <2>1, <2>2, <2>3, <2>4 DEF EndInv
<1>12. RoundInv'
  <2> SUFFICES ASSUME NEW q \in Live, NEW e \in Live
               PROVE  mpi_round'[e] = IF mpi_stage'[q] = mpi_stage'[e] THEN mpi_round'[q]
                                  ELSE IF mpi_stage'[q] = "set" THEN mpi_round'[q] - 1 ELSE mpi_round'[q] + 1
    BY <1>3 DEF RoundInv
  <2>1. /\ \A i, j \in Live : mpi_round[j] = IF mpi_stage[i] = mpi_stage[j] THEN mpi_round[i]
                                  ELSE IF mpi_stage[i] = "set" THEN mpi_round[i] - 1 ELSE mpi_round[i] + 1
        /\ mpi_round[p] \in Nat /\ mpi_round[q] \in Nat /\ mpi_round[e] \in Nat
    BY <1>1, <1>3, LiveRank DEF IInv, RoundInv, TypeOK
  <2>2. CASE q = p /\ e = p
    BY <2>2
  <2>3. CASE q = p /\ e # p
    <3>1. mpi_round'[e] = mpi_round[e] /\ mpi_stage'[e] = mpi_stage[e]
      BY <2>3, SetupOthers, LiveRank
    <3>2. QED
      BY <1>1, <1>2, <1>3, <2>1, <2>3, <3>1
  <2>4. CASE q # p /\ e = p
    <3>1. mpi_round'[q] = mpi_round[q] /\ mpi_stage'[q] = mpi_stage[q]
      BY <2>4, SetupOthers, LiveRank
    <3>2. QED
      BY <1>1, <1>2, <1>3, <2>1, <2>4, <3>1
  <2>5. CASE q # p /\ e # p
    <3>1. mpi_round'[q] = mpi_round[q] /\ mpi_stage'[q] = mpi_stage[q] /\ mpi_round'[e] = mpi_round[e] /\ mpi_stage'[e] = mpi_stage[e]
      BY <2>5, SetupOthers, LiveRank
    <3>2. QED
      BY <2>1, <3>1
  <2>6. QED
    BY <2>2, <2>3, <2>4, <2>5
<1>13. LinkInv'
  <2> SUFFICES ASSUME NEW q \in Live, NEW e \in Live PROVE Quiet(q, e)'
    BY <1>3 DEF LinkInv
  <2>1. Quiet(q, e) /\ q \in Ranks /\ e \in Ranks
    BY <1>3, LiveRank DEF IInv, LinkInv
  <2>2. posts'[e][q] = <<>>
    BY <1>2, <1>6, <2>1 DEF Quiet
  <2>3. chan'[q][e].req = "null"
    BY <1>5, <1>6, <2>1 DEF Quiet
  <2>4. QED
    BY <1>1, <2>1, <2>2, <2>3 DEF Quiet
<1>14. FreshInv'
  <2> SUFFICES ASSUME NEW q \in Live, mpi_stage'[q] = "set" PROVE Fresh(q)'
    BY DEF FreshInv
  <2>1. CASE q = p
    BY <1>2, <2>1
  <2>2. CASE q # p
    <3>1. q \in Ranks /\ mpi_stage'[q] = mpi_stage[q]
      BY <2>2, SetupOthers, LiveRank
    <3>2. Fresh(q)
      BY <3>1 DEF IInv, FreshInv
    <3>3. /\ chan'[q] = chan[q] /\ arrived'[q] = arrived[q]
          /\ pending'[q] = pending[q] /\ taken'[q] = taken[q]
          /\ finished'[q] = finished[q] /\ drained'[q] = drained[q]
          /\ mpi_endgame'[q] = mpi_endgame[q] /\ flushed'[q] = flushed[q] /\ done'[q] = done[q]
          /\ mpi_pushed'[q] = mpi_pushed[q] /\ mpi_got'[q] = mpi_got[q]
      BY <2>2, <3>1, SetupOthers
    <3>4. QED
      BY <3>2, <3>3 DEF Fresh
  <2>3. QED
    BY <2>1, <2>2
<1>15. QED
  BY <1>2, <1>7, <1>8, <1>9, <1>10, <1>11, <1>12, <1>13, <1>14 DEF IInv

\* The link of two PEs that have set up, when its receive has been posted
LEMMA NewLink ==
  ASSUME NEW p \in Live, NEW d \in Live, NEW b,
         NEW A, A = {}, NEW L, L = {}, NEW F, F = {}
  PROVE  /\ Wire(NewChannel(d), 0, <<>>, b, <<>>, A, L, F)
         /\ Posted(<<"live">>, A, L, F)
BY WireNew DEF Posted

\* The receives are posted after the barrier in mpiport_setup().
LEMMA SetupBarrierStep ==
  ASSUME IInv, SetupBarrier
  PROVE  IInv'
<1>1. /\ \A p \in Live : mpi_stage[p] = "set" /\ mpi_stage'[p] = "working"
      /\ UNCHANGED <<chan, mail, arrived, inbuf, pending, taken, finished, drained,
                     sender, mpi_round, mpi_pushed, mpi_got>>
      /\ mpi_stage' \in [Ranks -> Stage]
  BY LiveRank DEF SetupBarrier, AllRanksAt, Stage
<1>2. \A p \in Live : ~AtWork(p) /\ AtWork(p)' /\ Fresh(p)
  BY <1>1 DEF AtWork, IInv, FreshInv
<1>3. \A d, p \in Live : posts[d][p] = <<>> /\ mail[p][d] = <<>>
  BY <1>2 DEF IInv, LinkInv, Quiet
<1>4. /\ posts' = [d \in Ranks |-> [p \in Ranks |->
                   IF {p, d} \subseteq Live THEN Append(posts[d][p], "live")
                   ELSE posts[d][p]]]
  BY DEF SetupBarrier
<1>5. ASSUME NEW d \in Ranks, NEW p \in Ranks
      PROVE  posts'[d][p] = IF {p, d} \subseteq Live THEN <<"live">> ELSE posts[d][p]
  <2>1. posts'[d][p] = IF {p, d} \subseteq Live THEN Append(posts[d][p], "live")
                       ELSE posts[d][p]
    BY <1>4
  <2>2. CASE {p, d} \subseteq Live
    <3>1. posts[d][p] = <<>> /\ Append(<<>>, "live") = <<"live">>
      BY <1>3, <2>2
    <3>2. QED
      BY <2>1, <2>2, <3>1
  <2>3. CASE ~({p, d} \subseteq Live)
    BY <2>1, <2>3
  <2>4. QED
    BY <2>2, <2>3
<1>6. posts' \in [Ranks -> [Ranks -> Seq({"live", "lost"})]]
  <2> DEFINE V == Seq({"live", "lost"})
  <2>1. <<"live">> \in V /\ posts \in [Ranks -> [Ranks -> V]]
    BY DEF IInv, TypeOK
  <2> HIDE DEF V
  <2>2. \A d, p \in Ranks : posts'[d][p] \in V
    BY <1>5, <2>1
  <2>3. posts' = [d \in Ranks |-> [p \in Ranks |-> posts'[d][p]]]
    BY <1>4
  <2>4. posts' \in [Ranks -> [Ranks -> V]]
    BY <2>2, <2>3
  <2>5. QED
    BY <2>4 DEF V
<1>7. TypeOK'
  BY <1>1, <1>6 DEF IInv, TypeOK, sender
<1>8. CountsInv' /\ ListInv' /\ DeadInv'
  BY <1>1 DEF IInv, CountsInv, ListInv, DeadInv
<1>9. PostInv'
  BY <1>5 DEF IInv, PostInv
<1>10. EndInv'
  <2>1. \A p \in Live : mpi_stage'[p] \notin {"resetting", "dormant"}
    BY <1>1
  <2>2. QED
    BY <1>1, <2>1 DEF IInv, EndInv, sender
<1>11. RoundInv'
  BY <1>1, <1>2 DEF IInv, RoundInv
<1>12. LinkInv'
  <2> SUFFICES ASSUME NEW p \in Live, NEW d \in Live PROVE Link(p, d)'
    BY <1>2 DEF LinkInv
  <2>1. p \in Ranks /\ d \in Ranks
    BY LiveRank
  <2>2. /\ chan[p][d] = NewChannel(d) /\ mpi_pushed[p][d] = 0 /\ mpi_got[d][p] = <<>>
        /\ arrived[d] \cap {p} = {} /\ finished[d] \cap {p} = {} /\ pending[d] = <<>>
    BY <1>2, <2>1 DEF Fresh
  <2>3. Listed(<<>>) \cap {p} = {}
    BY DEF Listed
  <2>4. posts'[d][p] = <<"live">> /\ mail[p][d] = <<>>
    BY <1>3, <1>5, <2>1
  <2>5. /\ Wire(chan[p][d], mpi_pushed[p][d], mail[p][d], inbuf[d][p], mpi_got[d][p],
                arrived[d] \cap {p}, Listed(pending[d]) \cap {p}, finished[d] \cap {p})
        /\ Posted(posts'[d][p], arrived[d] \cap {p}, Listed(pending[d]) \cap {p},
                  finished[d] \cap {p})
    BY <2>2, <2>3, <2>4, NewLink
  <2>6. QED
    BY <1>1, <2>5 DEF Link
<1>13. FreshInv'
  BY <1>1 DEF FreshInv
<1>14. QED
  BY <1>7, <1>8, <1>9, <1>10, <1>11, <1>12, <1>13 DEF IInv

-----------------------------------------------------------------------------
\* The invariant holds initially,
LEMMA InitInv == InitMpi => IInv
<1> SUFFICES ASSUME InitMpi PROVE IInv
  OBVIOUS
<1>1. \A p, d \in Ranks : chan[p][d] = NewChannel(d)
  BY DEF InitMpi
<1>2. \A d \in Ranks : NewChannel(d) \in Channel /\ Counts(NewChannel(d))
                      /\ NewChannel(d).req = "null"
                      /\ (NewChannel(d).all_sent <=> d \notin Live)
  BY NewChannelIs
<1>3. TypeOK
  <2>1. chan \in [Ranks -> [Ranks -> Channel]]
    BY <1>2 DEF InitMpi
  <2>2. /\ mail \in [Ranks -> [Ranks -> Seq(Buffer)]]
        /\ pending \in [Ranks -> Seq(Live)]
        /\ mpi_got \in [Ranks -> [Ranks -> Seq(Nat)]]
    BY EmptySeq DEF InitMpi
  <2>3. posts \in [Ranks -> [Ranks -> Seq({"live", "lost"})]]
    <3>1. <<"live">> \in Seq({"live", "lost"}) /\ <<>> \in Seq({"live", "lost"})
      OBVIOUS
    <3> DEFINE V == Seq({"live", "lost"})
    <3> HIDE DEF V
    <3>2. posts \in [Ranks -> [Ranks -> V]]
      BY <3>1 DEF InitMpi, V
    <3>3. QED
      BY <3>2 DEF V
  <2>4. inbuf \in [Ranks -> [Ranks -> Buffer]]
    <3>1. EmptyBuf \in Buffer
      BY EmptySeq DEF EmptyBuf, Buffer
    <3>2. QED
      BY <3>1 DEF InitMpi
  <2>5. /\ arrived \in [Ranks -> SUBSET Live] /\ taken \in [Ranks -> Live \cup {NoRank}]
        /\ finished \in [Ranks -> SUBSET Ranks]
        /\ mpi_endgame \in [Ranks -> BOOLEAN] /\ flushed \in [Ranks -> BOOLEAN]
        /\ drained \in [Ranks -> BOOLEAN] /\ done \in [Ranks -> BOOLEAN]
        /\ mpi_stage \in [Ranks -> Stage] /\ mpi_round \in [Ranks -> Nat]
        /\ mpi_pushed \in [Ranks -> [Ranks -> Nat]]
    BY DEF InitMpi, Stage
  <2>6. QED
    BY <2>1, <2>2, <2>3, <2>4, <2>5 DEF TypeOK
<1>4. CountsInv
  BY <1>1, <1>2 DEF CountsInv
<1>5. ListInv
  BY DEF ListInv, InitMpi
<1>6. PostInv
  BY DEF PostInv, InitMpi
<1>7. DeadInv
  BY <1>1, <1>2 DEF DeadInv, InitMpi
<1>8. EndInv
  <2>1. \A p, d \in Live : ~chan[p][d].all_sent
    BY <1>1, <1>2, LiveRank
  <2>2. \A p \in Ranks : ~flushed[p] /\ ~drained[p] /\ mpi_stage[p] = "working"
    BY DEF InitMpi
  <2>3. QED
    BY <2>1, <2>2, LiveRank DEF EndInv
<1>9. \A p \in Live : AtWork(p) /\ mpi_stage[p] = "working" /\ mpi_round[p] = 1
  BY LiveRank DEF InitMpi, AtWork
<1>10. RoundInv /\ FreshInv
  BY <1>9 DEF RoundInv, FreshInv
<1>11. LinkInv
  <2> SUFFICES ASSUME NEW p \in Live, NEW d \in Live PROVE Link(p, d)
    BY <1>9 DEF LinkInv
  <2>1. p \in Ranks /\ d \in Ranks
    BY LiveRank
  <2>2. /\ chan[p][d] = NewChannel(d) /\ mpi_pushed[p][d] = 0 /\ mpi_got[d][p] = <<>>
        /\ arrived[d] \cap {p} = {} /\ finished[d] \cap {p} = {} /\ pending[d] = <<>>
        /\ posts[d][p] = <<"live">> /\ mail[p][d] = <<>>
    BY <2>1 DEF InitMpi
  <2>3. Listed(<<>>) \cap {p} = {}
    BY DEF Listed
  <2>4. QED
    BY <2>2, <2>3, NewLink DEF Link
<1>12. QED
  BY <1>3, <1>4, <1>5, <1>6, <1>7, <1>8, <1>10, <1>11 DEF IInv

\* when nothing happens
LEMMA StutterStep ==
  ASSUME IInv, UNCHANGED mpivars
  PROVE  IInv'
<1>1. /\ UNCHANGED <<chan, mail, posts, arrived, inbuf, pending, taken, finished, drained>>
      /\ UNCHANGED <<mpi_endgame, flushed, done, mpi_stage, mpi_round, mpi_pushed, mpi_got>>
  BY DEF mpivars, receiver, sender, cycle
<1>2. TypeOK' /\ CountsInv' /\ ListInv' /\ PostInv' /\ DeadInv' /\ EndInv' /\ RoundInv'
  BY <1>1 DEF IInv, TypeOK, CountsInv, ListInv, PostInv, DeadInv, EndInv, RoundInv, AtWork
<1>3. LinkInv'
  BY <1>1 DEF IInv, LinkInv, Link, Quiet, AtWork
<1>4. FreshInv'
  BY <1>1 DEF IInv, FreshInv, Fresh
<1>5. QED
  BY <1>2, <1>3, <1>4 DEF IInv

\* and after every step,
LEMMA NextInv == ASSUME IInv, [NextMpi]_mpivars PROVE IInv'
<1>1. ASSUME NEW p \in Ranks, NEW d \in Ranks,
             PushRoom(p, d) \/ PushNoRoom(p, d) \/ Network(p, d)
      PROVE  IInv'
  BY <1>1, PushRoomStep, PushNoRoomStep, ReadStep, MatchStep DEF Network
<1>2. ASSUME NEW p \in Ranks,
             Advance(p) \/ Borrow(p) \/ TakeMpi(p) \/ ReturnMpi(p) \/ Cycle(p)
      PROVE  IInv'
  BY <1>2, AdvanceStep, BorrowAgainStep, BorrowNewStep, TakeStep, ReturnStep,
     EnterResetStep, SetupStep DEF Cycle
<1>3. CASE ResetBarrier \/ SetupBarrier
  BY <1>3, ResetBarrierStep, SetupBarrierStep
<1>4. CASE FinishedMpi \/ UNCHANGED mpivars
  BY <1>4, StutterStep DEF FinishedMpi
<1>5. QED
  BY <1>1, <1>2, <1>3, <1>4 DEF NextMpi

\* hence always.
LEMMA IInvAlways == SpecMpi => []IInv
<1>1. IInv /\ [NextMpi]_mpivars => IInv'
  BY NextInv
<1>2. QED
  BY <1>1, InitInv, PTL DEF SpecMpi

\* It implies Requests.
LEMMA RequestsFollow == ASSUME IInv PROVE Requests
<1>1. BufferStable
  <2> SUFFICES ASSUME NEW p \in Ranks, NEW d \in Ranks, chan[p][d].req = "active"
               PROVE  /\ chan[p][d].emitted = chan[p][d].delivered + 1
                      /\ chan[p][d].open => LevelOf(chan[p][d].produced)
                                            # LevelOf(chan[p][d].emitted - 1)
    BY DEF BufferStable
  <2> DEFINE c == chan[p][d]
  <2>1. c \in Channel /\ Counts(c)
    BY DEF IInv, TypeOK, CountsInv
  <2> HIDE DEF c
  <2>2. c.produced \in Nat /\ c.emitted \in Nat /\ c.delivered \in Nat
    BY <2>1, Numbers
  <2>3. c.req = "active" => c.emitted = c.delivered + 1
    BY <2>1 DEF Counts
  <2>4. c.emitted <= c.produced /\ (c.open => c.produced <= c.delivered + 1)
    BY <2>1 DEF Counts
  <2>5. c.req = "active" /\ c.open => c.produced = c.emitted /\ c.emitted - 1 \in Nat
    BY <2>2, <2>3, <2>4
  <2>6. ASSUME c.req = "active", c.open
        PROVE  LevelOf(c.produced) # LevelOf(c.emitted - 1)
    <3>1. c.produced = (c.emitted - 1) + 1 /\ c.emitted - 1 \in Nat
      BY <2>2, <2>5, <2>6
    <3>2. QED
      BY <3>1, Levels
  <2>7. QED
    BY <2>3, <2>6 DEF c
<1>2. NothingPosted
  BY DEF IInv, LinkInv, Quiet, NothingPosted, RoundInv, AtWork
<1>3. QED
  BY <1>1, <1>2 DEF Requests

\* A send buffer is left alone, and no request is overwritten, while MPI may be
\* reading it; and between rounds MPI holds no receive, no message and no send of
\* the group.
THEOREM RequestsHold == SpecMpi => []Requests
BY IInvAlways, RequestsFollow, PTL

-----------------------------------------------------------------------------
(* The refinement *)

\* While one PE is at work all are in the same round.
LEMMA AllTogether ==
  ASSUME IInv, NEW p \in Live, AtWork(p)
  PROVE  LinksMpi!Together
BY DEF IInv, RoundInv, LinksMpi!Together

\* A step that changes nothing the clients see.
LEMMA LinksStill ==
  ASSUME UNCHANGED <<mpi_pushed, mpi_got, done, drained, mpi_round>>
  PROVE  UNCHANGED LinksMpi!vars
BY DEF LinksMpi!vars

\* The initial states are those of the links.
LEMMA LinksInit == InitMpi => LinksMpi!Init
BY DEF InitMpi, LinksMpi!Init

\* porter_push() with room sends an item.
LEMMA PushSends ==
  ASSUME IInv, NEW p \in Ranks, NEW d \in Ranks, PushRoom(p, d)
  PROVE  LinksMpi!Next
<1>1. p \in Live /\ d \in Live /\ AtWork(p) /\ ~done[p]
  BY DEF PushRoom, MayPushMpi, AtWork
<1>2. LinksMpi!Send(p, d)
  BY <1>1 DEF PushRoom, LinksMpi!Send, receiver, sender, cycle
<1>3. QED
  BY <1>1, <1>2, AllTogether DEF LinksMpi!Next

\* The first porter_advance(TRUE) closes.
LEMMA AdvanceCloses ==
  ASSUME IInv, NEW p \in Ranks, Advance(p)
  PROVE  LinksMpi!Next \/ UNCHANGED LinksMpi!vars
<1>1. /\ p \in Live /\ AtWork(p) /\ done' = [done EXCEPT ![p] = TRUE]
      /\ UNCHANGED <<mpi_pushed, mpi_got, drained, mpi_round>>
  BY DEF Advance, AtWork, receiver, cycle
<1>2. CASE done[p]
  <2>1. done \in [Ranks -> BOOLEAN]
    BY DEF IInv, TypeOK
  <2>2. done' = done
    BY <1>1, <1>2, <2>1
  <2>3. QED
    BY <1>1, <2>2, LinksStill
<1>3. CASE ~done[p]
  <2>1. LinksMpi!Close(p)
    BY <1>1, <1>3 DEF LinksMpi!Close
  <2>2. QED
    BY <1>1, <2>1, AllTogether DEF LinksMpi!Next
<1>4. QED
  BY <1>2, <1>3

\* On a finished link nothing is left to be sent.
LEMMA WireAllSent ==
  ASSUME NEW c, NEW np, NEW m, NEW b, NEW gs, NEW A, NEW L, NEW F, F # {},
         Wire(c, np, m, b, gs, A, L, F)
  PROVE  c.all_sent
<1>1. PICK f \in Cuts : Lands(c, m, f, ReadOf(c) - Len(m), b, gs, A, L, F)
  BY DEF Wire
<1>2. QED
  BY <1>1 DEF Lands, Over

\* A source that is finished has pushed all it will, and all of it was taken.
LEMMA FinishedIsOver ==
  ASSUME IInv', NEW p \in Live, NEW d \in Live, AtWork(p)',
         finished'[d] = Ranks, pending'[d] = <<>>, arrived'[d] = {}
  PROVE  done'[p] /\ Len(mpi_got'[d][p]) = mpi_pushed'[p][d]
<1>1. /\ chan'[p][d] \in Channel /\ Counts(chan'[p][d]) /\ mpi_pushed'[p][d] \in Nat
      /\ mail'[p][d] \in Seq(Buffer) /\ Link(p, d)' /\ (chan'[p][d].all_sent => done'[p])
  <2>1. p \in Ranks /\ d \in Ranks
    BY LiveRank
  <2>2. QED
    BY <2>1 DEF IInv, TypeOK, CountsInv, LinkInv, EndInv
<1>2. /\ finished'[d] \cap {p} # {} /\ arrived'[d] \cap {p} = {}
  BY LiveRank
<1>3. Listed(pending'[d]) \cap {p} = {}
  BY DEF Listed
<1>4. Wire(chan'[p][d], mpi_pushed'[p][d], mail'[p][d], inbuf'[d][p], mpi_got'[d][p], {}, {},
           finished'[d] \cap {p})
  BY <1>1, <1>2, <1>3 DEF Link
<1> DEFINE c == chan'[p][d]
           np == mpi_pushed'[p][d]
           m == mail'[p][d]
           gs == mpi_got'[d][p]
           F == finished'[d] \cap {p}
<1>5. /\ c \in Channel /\ Counts(c) /\ np \in Nat /\ m \in Seq(Buffer)
      /\ F # {} /\ Wire(c, np, m, inbuf'[d][p], gs, {}, {}, F)
  BY <1>1, <1>2, <1>4
<1>6. c.all_sent => done'[p]
  BY <1>1
<1> HIDE DEF c, np, m, gs, F
<1>7. c.all_sent
  BY <1>5, WireAllSent, ZenonT(60)
<1>8. Len(gs) = np
  BY <1>5, WireOver, ZenonT(60)
<1>9. done'[p] /\ Len(gs) = np
  BY <1>6, <1>7, <1>8
<1>10. QED
  BY <1>9 DEF gs, np

\* mpiport_borrow() makes drained true when all was taken.
LEMMA BorrowDrains ==
  ASSUME IInv, NEW d \in Ranks, Borrow(d)
  PROVE  LinksMpi!Next \/ UNCHANGED LinksMpi!vars
<1>1. /\ d \in Live /\ AtWork(d)
      /\ UNCHANGED <<mpi_pushed, mpi_got, done, mpi_stage, mpi_round>>
  BY IdleWorks DEF Borrow, sender, cycle
<1>2. drained \in [Ranks -> BOOLEAN]
  BY DEF IInv, TypeOK
<1>3. CASE drained' = drained
  BY <1>1, <1>3, LinksStill
<1>4. CASE drained' # drained
  <2>1. pending[d] = <<>>
    <3>1. ASSUME pending[d] # <<>>
          PROVE  drained' = drained
      <4>1. drained' = [drained EXCEPT ![d] = @ \/ NothingMore(d, pending[d])]
        BY <3>1 DEF Borrow
      <4>2. ~NothingMore(d, pending[d])
        BY <3>1 DEF NothingMore
      <4>3. drained' = [drained EXCEPT ![d] = drained[d]]
        BY <1>2, <4>1, <4>2
      <4>4. QED
        BY <1>2, <4>3
    <3>2. QED
      BY <1>4, <3>1
  <2>2. PICK list \in Seq(Live) :
           /\ pending' = [pending EXCEPT ![d] = list]
           /\ arrived' = [arrived EXCEPT ![d] = {}]
           /\ drained' = [drained EXCEPT ![d] = drained[d] \/ NothingMore(d, list)]
    BY <2>1, BorrowNewFacts
  <2>3. ~drained[d] /\ NothingMore(d, list)
    <3>1. CASE drained[d]
      <4>1. drained' = [drained EXCEPT ![d] = drained[d]]
        BY <1>2, <2>2, <3>1
      <4>2. drained' = drained
        BY <1>2, <4>1
      <4>3. QED
        BY <1>4, <4>2
    <3>2. CASE ~NothingMore(d, list)
      <4>1. drained' = [drained EXCEPT ![d] = drained[d]]
        BY <1>2, <2>2, <3>2
      <4>2. drained' = drained
        BY <1>2, <4>1
      <4>3. QED
        BY <1>4, <4>2
    <3>3. QED
      BY <3>1, <3>2
  <2>4. drained' = [drained EXCEPT ![d] = TRUE]
    <3>1. (drained[d] \/ NothingMore(d, list)) = TRUE
      BY <2>3 DEF NothingMore
    <3>2. QED
      BY <2>2, <3>1
  <2>5. finished'[d] = Ranks /\ pending'[d] = <<>> /\ arrived'[d] = {}
    BY <2>2, <2>3 DEF NothingMore, IInv, TypeOK
  <2>6. IInv'
    BY <2>1, BorrowNewStep
  <2>7. \A p \in Live : AtWork(p)'
    BY <1>1 DEF IInv, RoundInv, AtWork
  <2>8. \A p \in Live : done[p] /\ Len(mpi_got[d][p]) = mpi_pushed[p][d]
    BY <1>1, <2>5, <2>6, <2>7, FinishedIsOver
  <2>9. LinksMpi!Drain(d)
    BY <1>1, <2>3, <2>4, <2>8 DEF LinksMpi!Drain
  <2>10. QED
    BY <1>1, <2>9, AllTogether DEF LinksMpi!Next
<1>5. QED
  BY <1>3, <1>4

\* The client receives the next item.
LEMMA TakeReceives ==
  ASSUME IInv, NEW d \in Ranks, TakeMpi(d)
  PROVE  LinksMpi!Next
<1> DEFINE p == taken[d]
           i0 == inbuf[d][p].items[inbuf[d][p].start+1]
<1>1. /\ p \in Live /\ p \in Ranks /\ d \in Live /\ AtWork(p)
      /\ mpi_got' = [mpi_got EXCEPT ![d][p] = Append(mpi_got[d][p], i0)]
      /\ i0 = Len(mpi_got[d][p]) + 1
      /\ Len(mpi_got[d][p]) < mpi_pushed[p][d]
  BY TakeFacts
<1>2. UNCHANGED <<mpi_pushed, done, drained, mpi_round>>
  BY DEF TakeMpi, sender, cycle
<1> HIDE DEF p, i0
<1>3. mpi_got' = [mpi_got EXCEPT ![d][p] = Append(@, Len(@) + 1)]
  BY <1>1 DEF IInv, TypeOK
<1>4. LinksMpi!Receive(d, p)
  BY <1>1, <1>2, <1>3 DEF LinksMpi!Receive
<1>5. QED
  BY <1>1, <1>4, AllTogether DEF LinksMpi!Next

\* mpiport_setup() starts a new round for one PE.
LEMMA SetupRestarts ==
  ASSUME IInv, NEW p \in Ranks, Setup(p)
  PROVE  LinksMpi!Next
<1>1. p \in Live /\ mpi_stage[p] = "dormant" /\ ~AtWork(p) /\ TypeOK
  BY DEF Setup, AtWork, IInv
<1>2. ASSUME NEW q \in Live
      PROVE  drained[q] \/ mpi_round[q] > mpi_round[p]
  <2>1. q \in Ranks /\ ~AtWork(q)
    BY <1>1, LiveRank DEF IInv, RoundInv
  <2>2. mpi_stage[q] = "dormant" \/ mpi_stage[q] = "set"
    BY <1>1, <2>1 DEF TypeOK, Stage, AtWork
  <2>3. CASE mpi_stage[q] = "dormant"
    BY <2>3 DEF IInv, EndInv
  <2>4. CASE mpi_stage[q] = "set"
    <3>1. mpi_round[q] = mpi_round[p] + 1 /\ mpi_round[p] \in Nat
      BY <1>1, <2>4 DEF IInv, RoundInv, TypeOK
    <3>2. QED
      BY <3>1
  <2>5. QED
    BY <2>2, <2>3, <2>4
<1>3. /\ mpi_pushed' = [mpi_pushed EXCEPT ![p] = [d \in Ranks |-> 0]]
      /\ mpi_got' = [mpi_got EXCEPT ![p] = [s \in Ranks |-> <<>>]]
      /\ done' = [done EXCEPT ![p] = FALSE]
      /\ drained' = [drained EXCEPT ![p] = FALSE]
      /\ mpi_round' = [mpi_round EXCEPT ![p] = @ + 1]
  BY DEF Setup
<1>4. mpi_pushed' = [q \in Ranks |-> IF q \in {p} THEN [d \in Ranks |-> 0] ELSE mpi_pushed[q]]
  BY <1>1, <1>3 DEF TypeOK
<1>5. mpi_got' = [q \in Ranks |-> IF q \in {p} THEN [s \in Ranks |-> <<>>] ELSE mpi_got[q]]
  BY <1>1, <1>3 DEF TypeOK
<1>6. /\ done' = [q \in Ranks |-> done[q] /\ q \notin {p}]
      /\ drained' = [q \in Ranks |-> drained[q] /\ q \notin {p}]
  BY <1>1, <1>3 DEF TypeOK
<1>7. mpi_round' = [q \in Ranks |-> IF q \in {p} THEN mpi_round[q] + 1 ELSE mpi_round[q]]
  BY <1>1, <1>3 DEF TypeOK
<1>8. LinksMpi!Restart({p})
  BY <1>2, <1>4, <1>5, <1>6, <1>7 DEF LinksMpi!Restart
<1>9. QED
  BY <1>1, <1>8 DEF LinksMpi!Next

\* Every step of the group is one of the links, or hidden from the clients.
LEMMA LinksNext ==
  ASSUME IInv, [NextMpi]_mpivars
  PROVE  [LinksMpi!Next]_(LinksMpi!vars)
<1>1. ASSUME NEW p \in Ranks, NEW d \in Ranks,
             PushRoom(p, d) \/ PushNoRoom(p, d) \/ Network(p, d)
      PROVE  [LinksMpi!Next]_(LinksMpi!vars)
  <2>1. CASE PushRoom(p, d)
    BY <2>1, PushSends
  <2>2. CASE PushNoRoom(p, d) \/ Network(p, d)
    <3>1. UNCHANGED <<mpi_pushed, mpi_got, done, drained, mpi_round>>
      BY <2>2 DEF PushNoRoom, Network, Read, Match, receiver, sender, cycle
    <3>2. QED
      BY <3>1, LinksStill
  <2>3. QED
    BY <1>1, <2>1, <2>2
<1>2. ASSUME NEW p \in Ranks,
             Advance(p) \/ Borrow(p) \/ TakeMpi(p) \/ ReturnMpi(p) \/ Cycle(p)
      PROVE  [LinksMpi!Next]_(LinksMpi!vars)
  <2>1. CASE ReturnMpi(p) \/ EnterReset(p)
    <3>1. UNCHANGED <<mpi_pushed, mpi_got, done, drained, mpi_round>>
      BY <2>1 DEF ReturnMpi, EnterReset, receiver, sender, cycle
    <3>2. QED
      BY <3>1, LinksStill
  <2>2. QED
    BY <1>2, <2>1, AdvanceCloses, BorrowDrains, TakeReceives, SetupRestarts DEF Cycle
<1>3. CASE ResetBarrier \/ SetupBarrier \/ FinishedMpi \/ UNCHANGED mpivars
  <2>1. UNCHANGED <<mpi_pushed, mpi_got, done, drained, mpi_round>>
    BY <1>3 DEF ResetBarrier, SetupBarrier, FinishedMpi, mpivars, receiver, sender, cycle
  <2>2. QED
    BY <2>1, LinksStill
<1>4. QED
  BY <1>1, <1>2, <1>3 DEF NextMpi

\* The group over MPI keeps the promises of FifoLinks: items are taken in the
\* order they were pushed, each once, a PE is drained only when nothing is left
\* for it, and the rounds do not mix.
THEOREM LinksHold == SpecMpi => LinksSpecMpi
<1>1. IInv /\ [NextMpi]_mpivars => [LinksMpi!Next]_(LinksMpi!vars)
  BY LinksNext
<1>2. QED
  BY <1>1, LinksInit, IInvAlways, PTL DEF SpecMpi, LinksSpecMpi, LinksMpi!Spec
=============================================================================
