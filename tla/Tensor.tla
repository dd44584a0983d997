-------------------------------- MODULE Tensor --------------------------------
(***************************************************************************)
(* The vector, matrix and tensor conveyors (convey/tensor.c) under the     *)
(* generic functions of convey.c: every PE pushes items into porter 0,     *)
(* advance pivots the buffers that arrive from each porter into the next,  *)
(* and the client pulls from the last one.                                 *)
(*                                                                         *)
(* The porters are abstract: of the rings of PutPorter a link keeps the    *)
(* packets that are still at the sender and the buffers that have arrived, *)
(* which together fill at most Multiplicity buffers.  Routes says where    *)
(* packets go.  An item is [src, dest, n], n its index among the items     *)
(* from src to dest in the round.                                          *)
(***************************************************************************)
EXTENDS Routes, Sequences

CONSTANTS
  Multiplicity, BufItems,   \* of the porters, see PutPorter
  TensorQuota,   \* TensorQuota[r][p][d]: bound on the items p pushes to d in
                 \* round r
  Eager,         \* the PEs whose clients may advance before they are done
  TensorRounds   \* bound on the begin .. reset rounds

Patience == 5               \* the bound of the loop over buffers
LastHop  == Order - 1
None     == PROCS

ASSUME BufferAssumption ==
         Multiplicity \in Nat \ {0} /\ BufItems \in Nat \ {0}
ASSUME ClientAssumption == /\ TensorRounds \in Nat
                           /\ TensorQuota \in
                                [1 .. TensorRounds -> [Procs -> [Procs -> Nat]]]
                           /\ Eager \subseteq Procs

VARIABLES
  links,      \* links[k][p][q]: packets in the send buffers of porter k of p
  net,        \* net[k][p][q]: buffers from p that porter k of q can lend
  porter,     \* porter[k][p]: endgame, flushed, drained and the source of the
              \* buffer that is borrowed, or None
  n_complete,
  tensor_state,   \* convey->state
  told,           \* has the client said that it is done?
  adv,        \* where a PE stands in convey_advance, begin or reset
  tensor_round, items_sent, items_got   \* history, see FifoLinks

client     == <<told, tensor_round, items_sent>>
tensorvars == <<links, net, porter, n_complete, tensor_state, adv, client,
                items_got>>

NewPorter == [endgame |-> FALSE, flushed |-> FALSE, drained |-> FALSE,
              held |-> None]
Quiet      == [at |-> "idle", hop |-> 0, done |-> FALSE, loop |-> 0]

\* The PEs that porter k connects with PE p.
Peers == [k \in Hop |-> [p \in Procs |->
           {Friend(k, p, r) : r \in 0 .. GroupSize(k)-1} \cap Procs]]

TensorInit ==
  /\ links        = [k \in Hop |-> [p \in Procs |-> [q \in Peers[k][p] |-> <<>>]]]
  /\ net          = [k \in Hop |-> [p \in Procs |-> [q \in Peers[k][p] |-> <<>>]]]
  /\ porter       = [k \in Hop |-> [p \in Procs |-> NewPorter]]
  /\ n_complete   = [p \in Procs |-> 0]
  /\ tensor_state = [p \in Procs |-> "working"]
  /\ told         = [p \in Procs |-> FALSE]
  /\ adv          = [p \in Procs |-> Quiet]
  /\ tensor_round = [p \in Procs |-> 1]
  /\ items_sent   = [p \in Procs |-> [d \in Procs |-> 0]]
  /\ items_got    = [d \in Procs |-> [s \in Procs |-> <<>>]]

-----------------------------------------------------------------------------
(* The porters *)

\* How many more packets porter_push takes for q.
Room(k, p, q) == BufItems * (Multiplicity - Len(net[k][p][q])) - Len(links[k][p][q])

\* A send buffer, full or not, gets to its target.
Arrive(k, p, q) ==
  LET ready == links[k][p][q]
      n     == IF Len(ready) < BufItems THEN Len(ready) ELSE BufItems
  IN /\ ready # <<>>
     /\ links' = [links EXCEPT ![k][p][q] = SubSeq(ready, n + 1, Len(ready))]
     /\ net'   = [net EXCEPT ![k][p][q] =
                    Append(@, [start |-> 0, packets |-> SubSeq(ready, 1, n)])]
     /\ UNCHANGED <<porter, n_complete, tensor_state, adv, client, items_got>>

\* What porter_borrow can return to PE q.
Lendable(nets, k, q) == {p \in Peers[k][q] : nets[k][p][q] # <<>>}

\* MUTANT: a PE waits for the others to have drained theirs.
AllSeenDrained(nets, k, q) == /\ Lendable(nets, k, q) = {}
                              /\ \A p \in Peers[k][q] : porter[k][p].drained

\* Porter k of q has seen the last buffer of every PE.
AllSeen(nets, k, q) == /\ Lendable(nets, k, q) = {}
                       /\ \A p \in Peers[k][q] : porter[k][p].flushed

Buffer(k, q) == Head(net[k][porter[k][q].held][q])
Lends(k, q) == /\ porter[k][q].held # None
               /\ Buffer(k, q).start < Len(Buffer(k, q).packets)

\* The buffers after porter_return: one that is used up is gone.
Returned(k, q) ==
  IF porter[k][q].held # None /\ ~Lends(k, q)
  THEN [net EXCEPT ![k][porter[k][q].held][q] = Tail(@)]
  ELSE net

\* MUTANT: what has been closed is taken for sent.
FlushedEarly(k, p, endgame) == endgame

\* porter_try_flush: in the endgame, has everything been sent?
Flushed(k, p, endgame) == endgame /\ \A q \in Peers[k][p] : links[k][p][q] = <<>>

-----------------------------------------------------------------------------
(* convey_push, convey_pull and convey_unpull *)

CanCall(p) == adv[p].at = "idle" /\ tensor_state[p] # "dormant"

TensorPush(p, d) ==
  LET r    == Route(d)
      q    == Friend(0, p, r.next)
      item == [src |-> p, dest |-> d, n |-> items_sent[p][d] + 1]
  IN /\ CanCall(p) /\ tensor_state[p] = "working" /\ ~told[p]
     /\ items_sent[p][d] < TensorQuota[tensor_round[p]][p][d]
     /\ Room(0, p, q) > 0
     /\ links'      = [links EXCEPT ![0][p][q] =
                        Append(@, [tag |-> Kept(0, r.tag), item |-> item])]
     /\ items_sent' = [items_sent EXCEPT ![p][d] = @ + 1]
     /\ UNCHANGED <<net, porter, n_complete, tensor_state, told, adv,
                    tensor_round, items_got>>

\* PE p takes the next packet of the buffer that it has from q and learns its
\* origin.  An item that has come to the wrong PE, or whose origin is wrong,
\* counts as item 0.
Lent(p, q, buffer) ==
  LET packet == buffer.packets[buffer.start + 1]
      from   == origin_from_tag(packet.tag, Me(LastHop, q))
      ours   == packet.item.src = from /\ packet.item.dest = p
  IN items_got' = [items_got EXCEPT ![p][from] =
                     Append(@, IF ours THEN packet.item.n ELSE 0)]

\* tensor_upull: from the buffer at hand ...
PullBorrowed(p) ==
  LET q == porter[LastHop][p].held
  IN /\ CanCall(p) /\ Lends(LastHop, p)
     /\ Lent(p, q, Buffer(LastHop, p))
     /\ net' = [net EXCEPT ![LastHop][q][p][1].start = @ + 1]
     /\ UNCHANGED <<links, porter, n_complete, tensor_state, adv, client>>

\* ... or from the next one, having returned the last one ...
BorrowNext(p) ==
  /\ CanCall(p) /\ ~Lends(LastHop, p)
  /\ LET nets == Returned(LastHop, p)
     IN \E q \in Lendable(nets, LastHop, p) :
          /\ Lent(p, q, Head(nets[LastHop][q][p]))
          /\ net'    = [nets EXCEPT ![LastHop][q][p][1].start = @ + 1]
          /\ porter' = [porter EXCEPT ![LastHop][p].held = q]
  /\ UNCHANGED <<links, n_complete, tensor_state, adv, client>>

\* ... or there is none.
BorrowNothing(p) ==
  /\ CanCall(p) /\ ~Lends(LastHop, p)
  /\ Lendable(Returned(LastHop, p), LastHop, p) = {}
  /\ net'    = Returned(LastHop, p)
  /\ porter' = [porter EXCEPT ![LastHop][p].held = None,
                              ![LastHop][p].drained = @ \/ AllSeen(net', LastHop, p)]
  /\ UNCHANGED <<links, n_complete, tensor_state, adv, client, items_got>>

\* tensor_unpull
TensorUnpull(p) ==
  LET q    == porter[LastHop][p].held
      prev == Buffer(LastHop, p).start
      from == origin_from_tag(Buffer(LastHop, p).packets[prev].tag, Me(LastHop, q))
  IN /\ CanCall(p) /\ q # None /\ prev > 0
     /\ net'       = [net EXCEPT ![LastHop][q][p][1].start = @ - 1]
     /\ items_got' = [items_got EXCEPT ![p][from] = SubSeq(@, 1, Len(@) - 1)]
     /\ UNCHANGED <<links, porter, n_complete, tensor_state, adv, client>>

-----------------------------------------------------------------------------
(* convey_advance and tensor_advance: first porter_advance of each porter,  *)
(* then up to Patience buffers of it are pivoted into the next one          *)

\* The state in which convey_advance leaves the conveyor.
Outcome(p, done) == IF done THEN "complete"
                    ELSE IF told'[p] THEN "endgame" ELSE "working"

\* Is done still true for the next porter after one that is not complete?
StillDone(done) == FALSE

\* MUTANT: every porter is told what the client said.
ToldAll(p, done) == told'[p]

\* The argument of porter_advance: has all been done up to this porter?
Told(p, done) == done

\* Porter k is advanced; rest are the porters before that.
AdvancePorter(p, k, done, rest) ==
  LET self    == rest[k][p]
      endgame == self.endgame \/ Told(p, done)
      flushed == self.flushed \/ Flushed(k, p, endgame)
      go      == ~flushed \/ ~self.drained
      still   == IF go THEN StillDone(done) ELSE done
  IN /\ porter'       = [rest EXCEPT ![k][p].endgame = endgame,
                                     ![k][p].flushed = flushed]
     /\ n_complete'   = [n_complete EXCEPT ![p] = IF go THEN @ ELSE @ + 1]
     /\ adv'          = [adv EXCEPT ![p] =
                           IF k = LastHop THEN Quiet
                           ELSE [at |-> IF go THEN "pivot" ELSE "advance",
                                 hop |-> IF go THEN k ELSE k + 1, done |-> still, loop |-> 0]]
     /\ tensor_state' = [tensor_state EXCEPT ![p] =
                           IF k = LastHop THEN Outcome(p, still) ELSE @]
     /\ UNCHANGED <<tensor_round, items_sent, items_got>>

\* The client says TRUE from then on.  A call in state complete would change
\* nothing.
StartAdvance(p, d) ==
  /\ CanCall(p) /\ tensor_state[p] # "complete"
  /\ told[p] => d
  /\ IF d THEN items_sent[p] = TensorQuota[tensor_round[p]][p] ELSE p \in Eager
  /\ told' = [told EXCEPT ![p] = d]
  /\ AdvancePorter(p, n_complete[p], d, porter)
  /\ UNCHANGED <<links, net>>

AdvanceNext(p) ==
  /\ adv[p].at = "advance"
  /\ UNCHANGED <<links, net, told>>
  /\ AdvancePorter(p, adv[p].hop, adv[p].done, porter)

\* No buffer of porter k is left to be pivoted.
PivotNothing(p) ==
  LET k == adv[p].hop
  IN /\ adv[p].at = "pivot" /\ Lendable(net, k, p) = {}
     /\ UNCHANGED <<links, net, told>>
     /\ AdvancePorter(p, k + 1, adv[p].done,
           [porter EXCEPT ![k][p].drained = @ \/ AllSeen(net, k, p)])

\* buffer->start after a pivot that has pushed n packets.
AfterPivot(buffer, n) == [buffer EXCEPT !.start = @ + n]

\* The packets of a buffer are pushed into porter k+1 until one finds no room.
PivotBuffer(p, q) ==
  LET k      == adv[p].hop
      buffer == Head(net[k][q][p])
      left   == SubSeq(buffer.packets, buffer.start + 1, Len(buffer.packets))
      Onward(packet)  == Pivot(k, Me(k, q), packet.tag)
      Target(packet)  == Friend(k + 1, p, Onward(packet).next)
      For(n, r)  == SelectSeq(SubSeq(left, 1, n), LAMBDA pk : Target(pk) = r)
      Tagged(packets) == [i \in DOMAIN packets |->
                           [tag  |-> Kept(k + 1, Onward(packets[i]).tag),
                            item |-> packets[i].item]]
      Fits(n) == \A r \in Peers[k + 1][p] : Len(For(n, r)) <= Room(k + 1, p, r)
      n       == CHOOSE i \in 0 .. Len(left) :
                   Fits(i) /\ (i = Len(left) \/ ~Fits(i + 1))
      after   == AfterPivot(buffer, n)
      go      == n = Len(left)
  IN /\ links' = [links EXCEPT ![k + 1][p] =
                   [r \in Peers[k + 1][p] |-> @[r] \o Tagged(For(n, r))]]
     /\ net'   = [net EXCEPT ![k][q][p] =
                    IF after.start = Len(buffer.packets) THEN Tail(@)
                    ELSE <<after>> \o Tail(@)]
     /\ adv'   = [adv EXCEPT ![p] = IF go /\ adv[p].loop + 1 < Patience
                                    THEN [@ EXCEPT !.loop = @ + 1]
                                    ELSE [@ EXCEPT !.at = "advance", !.hop = k + 1]]

PivotOn(p) ==
  /\ adv[p].at = "pivot"
  /\ \E q \in Lendable(net, adv[p].hop, p) : PivotBuffer(p, q)
  /\ UNCHANGED <<porter, n_complete, tensor_state, client, items_got>>

-----------------------------------------------------------------------------
(* convey_reset and convey_begin, both collective: porter_reset ends in a   *)
(* barrier and porter_setup in a reduction                                  *)

AllProcsAt(place) == \A p \in Procs : adv[p].at = place

TensorEnterReset(p) ==
  /\ adv[p].at = "idle" /\ tensor_state[p] = "complete"
  /\ tensor_round[p] < TensorRounds
  /\ adv' = [adv EXCEPT ![p].at = "reset"]
  /\ UNCHANGED <<links, net, porter, n_complete, tensor_state, client, items_got>>

FinishReset ==
  /\ AllProcsAt("reset")
  /\ tensor_state' = [p \in Procs |-> "dormant"]
  /\ adv'          = [p \in Procs |-> Quiet]
  /\ UNCHANGED <<links, net, porter, n_complete, client, items_got>>

\* tensor_begin: porter_setup forgets what the last round has left.
TensorBegin(p) ==
  /\ adv[p].at = "idle" /\ tensor_state[p] = "dormant"
  /\ porter'       = [k \in Hop |-> [porter[k] EXCEPT ![p] =
                                       [NewPorter EXCEPT !.held = porter[k][p].held]]]
  /\ links'        = [k \in Hop |->
                        [links[k] EXCEPT ![p] = [q \in Peers[k][p] |-> <<>>]]]
  /\ net'          = [k \in Hop |-> [q \in Procs |->
                        [r \in Peers[k][q] |-> IF r = p THEN <<>> ELSE net[k][q][r]]]]
  /\ n_complete'   = [n_complete EXCEPT ![p] = 0]
  /\ adv'          = [adv EXCEPT ![p].at = "begin"]
  /\ told'         = [told EXCEPT ![p] = FALSE]
  /\ tensor_round' = [tensor_round EXCEPT ![p] = @ + 1]
  /\ items_sent'   = [items_sent EXCEPT ![p] = [d \in Procs |-> 0]]
  /\ items_got'    = [items_got EXCEPT ![p] = [s \in Procs |-> <<>>]]
  /\ UNCHANGED tensor_state

TensorFinishBegin ==
  /\ AllProcsAt("begin")
  /\ tensor_state' = [p \in Procs |-> "working"]
  /\ adv'          = [p \in Procs |-> Quiet]
  /\ UNCHANGED <<links, net, porter, n_complete, client, items_got>>

-----------------------------------------------------------------------------
TensorPull(p)    == PullBorrowed(p) \/ BorrowNext(p) \/ BorrowNothing(p)
TensorAdvance(p) == AdvanceNext(p) \/ PivotNothing(p) \/ PivotOn(p)

Client(p) == \/ \E d \in Procs : TensorPush(p, d)
             \/ TensorPull(p)
             \/ TensorUnpull(p)
             \/ \E d \in BOOLEAN : StartAdvance(p, d)
             \/ TensorAdvance(p)
             \/ TensorEnterReset(p)
             \/ TensorBegin(p)

TensorNext == \/ \E p \in Procs : Client(p)
              \/ \E k \in Hop : \E p \in Procs : \E q \in Peers[k][p] :
                   Arrive(k, p, q)
              \/ FinishReset
              \/ TensorFinishBegin

TensorSpec == TensorInit /\ [][TensorNext]_tensorvars

\* A client goes on advancing and pulling, and does not give items back for
\* ever; a call of its own ends; some full buffer that is in the way is sent,
\* or some buffer of a porter in the endgame.
Sends(k, p, q) == (Room(k, p, q) = 0 \/ porter[k][p].endgame) /\ Arrive(k, p, q)

TensorFairness ==
  /\ \A p \in Procs : /\ WF_tensorvars(\/ TensorAdvance(p)
                                       \/ told[p] /\ StartAdvance(p, TRUE))
                      /\ SF_tensorvars(TensorPull(p))
  /\ WF_tensorvars(\E k \in Hop : \E p \in Procs : \E q \in Peers[k][p] :
                     Sends(k, p, q))
  /\ <>[][\A p \in Procs : ~TensorUnpull(p)]_tensorvars

TensorFairSpec == TensorSpec /\ TensorFairness

-----------------------------------------------------------------------------
(* Properties *)

\* The types of the variables; a link holds no more than its buffers, and of a
\* buffer no more is consumed than was sent.
TypeOK ==
  /\ \A k \in Hop : \A p \in Procs : \A q \in Peers[k][p] :
       /\ Len(links[k][p][q]) + BufItems * Len(net[k][p][q])
            <= BufItems * Multiplicity
       /\ \A i \in DOMAIN net[k][p][q] :
            net[k][p][q][i].start \in 0 .. Len(net[k][p][q][i].packets)
  /\ \A k \in Hop : \A p \in Procs :
       porter[k][p] \in [endgame : BOOLEAN, flushed : BOOLEAN,
                         drained : BOOLEAN, held : Peers[k][p] \cup {None}]
  /\ n_complete \in [Procs -> 0 .. Order] /\ told \in [Procs -> BOOLEAN]
  /\ tensor_state \in [Procs -> {"dormant", "working", "endgame", "complete"}]
  /\ \A p \in Procs : adv[p].hop \in Hop /\ adv[p].loop \in 0 .. Patience-1
  /\ \A p, d \in Procs :
       items_sent[p][d] \in 0 .. TensorQuota[tensor_round[p]][p][d]

\* Between the PEs of a conveyor there are FIFO links: items are pulled once,
\* by the PE they are for, with their origin and in their order, and
\* convey_DONE is returned only when none is left.
TensorLinks == INSTANCE FifoLinks WITH
  PE <- Procs, Live <- Procs, sent <- items_sent, got <- items_got,
  closed <- told, round <- tensor_round,
  drained <- [p \in Procs |-> tensor_state[p] \in {"complete", "dormant"}
                           /\ adv[p].at # "begin"]
TensorLinksSpec == TensorLinks!Spec

\* A porter that has been told that its PE is done gets no more packets, which
\* it might never send (porter.h: porter_advance).
NoLatePush == [][\A k \in Hop : \A p \in Procs : \A q \in Peers[k][p] :
  porter[k][p].endgame => Len(links'[k][p][q]) <= Len(links[k][p][q])]_tensorvars

\* A PE that gets convey_DONE holds no buffer and has none to relay: what it
\* leaves would be lost in tensor_begin.
NothingLeft == \A p \in Procs : tensor_state[p] = "complete" =>
  \A k \in Hop : /\ porter[k][p].held = None
                 /\ \A q \in Peers[k][p] :
                      links[k][p][q] = <<>> /\ net[k][q][p] = <<>>

\* The endgame passes from porter to porter in their order.
EndgameInOrder == [](TypeOK /\ NothingLeft) /\ NoLatePush

\* Once all the clients have said that they are done, all get convey_DONE
\* (and may then reset), however full the porters between them are.
Completes == (\A p \in Procs : told[p])
               ~> (\A p \in Procs : tensor_state[p] \in {"complete", "dormant"})
=============================================================================
