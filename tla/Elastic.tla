------------------------------- MODULE Elastic -------------------------------
(***************************************************************************)
(* Elastic conveyors (convey/elastic.c): conveyors of items whose size     *)
(* varies.  A small item is a packet of the tensor conveyor underneath.    *)
(* For a large one the sender keeps the item in its one outgoing buffer    *)
(* and sends a ticket through the tensor conveyor; the PE that pulls the   *)
(* ticket fetches the item and acknowledges it, by a put into bigrcvd of   *)
(* the sender or, over MPI, by receiving its message.                      *)
(*                                                                         *)
(* A program of one process has convey/trivial.c instead, which keeps a    *)
(* single item.  It is the kind "trivial" here: the PEs are then separate  *)
(* processes that only push to themselves, and their rounds are kept in    *)
(* step so that one specification covers the three kinds.                  *)
(*                                                                         *)
(* The tensor conveyor, here of order 1, is abstract (see Tensor): a link  *)
(* keeps packets in order, lends them in buffers, and tells a PE that it   *)
(* is drained.  An item is its index among those its source has pushed to  *)
(* its destination in the round.                                           *)
(***************************************************************************)
EXTENDS Naturals, FiniteSets, Sequences

CONSTANTS
  N,          \* PROCS
  Kinds,      \* the kinds considered: a subset of {"put", "mpi", "trivial"}
  LinkItems,  \* bound on the packets of a link that are not lent
  Quota,      \* Quota[p][d]: bound on the items p pushes to d in a round
  MaxRounds   \* bound on the begin .. reset rounds

PE == 0 .. N-1

ASSUME ElasticAssumption == /\ N \in Nat \ {0} /\ LinkItems \in Nat \ {0}
                            /\ Kinds \subseteq {"put", "mpi", "trivial"}
                            /\ Quota \in [PE -> [PE -> Nat]] /\ MaxRounds \in Nat

VARIABLES
  kind,
  large,     \* the items that are larger than big_size, as <<p, d, n>>
  link,      \* link[p][d]: the packets from p to d that are not lent yet
  buffer,    \* buffer[p]: the borrowed one, of tensor->buffer
  drained,   \* has porter_borrow told p that nothing will come?
  outgoing,  \* outgoing[p]: the large item p pushed last; of a trivial
             \* conveyor, its item
  bigsent, bigrcvd,
  big_req,   \* the state of the MPI request: "null", "active" or "sent"
  incoming,  \* incoming[p]: the large item p has fetched last
  bigpull, unpull,
  backup,    \* is backup set, so that the last packet can be put back?
  full,      \* trivial->full
  acks,      \* acks[p]: puts into bigrcvd[p] on their way
  state, over, at,          \* as in Simple
  pushed, got, round        \* history, see FifoLinks

packets == <<link, buffer, drained>>
sending == <<outgoing, bigsent, bigrcvd, big_req, acks>>
pulling == <<incoming, bigpull, unpull, backup>>
control == <<state, over, at>>
history == <<pushed, got, round>>
setting == <<kind, large>>
vars    == <<setting, packets, sending, pulling, full, control, history>>

Items    == UNION {{<<p, d, n>> : n \in 1 .. Quota[p][d]} : p, d \in PE}
NoItem   == [dest |-> N, n |-> 0]
NoBuffer == [from |-> N, items |-> <<>>, next |-> 0]

Init ==
  /\ kind     \in Kinds
  /\ large    \in SUBSET Items
  /\ link     = [p \in PE |-> [d \in PE |-> <<>>]]
  /\ buffer   = [p \in PE |-> NoBuffer]
  /\ drained  = [p \in PE |-> FALSE]
  /\ outgoing = [p \in PE |-> NoItem]
  /\ bigsent  = [p \in PE |-> 0]
  /\ bigrcvd  = [p \in PE |-> 0]
  /\ big_req  = [p \in PE |-> "null"]
  /\ incoming = [p \in PE |-> NoItem]
  /\ bigpull  = [p \in PE |-> FALSE]
  /\ unpull   = [p \in PE |-> FALSE]
  /\ backup   = [p \in PE |-> FALSE]
  /\ full     = [p \in PE |-> FALSE]
  /\ acks     = [p \in PE |-> {}]
  /\ state    = [p \in PE |-> "working"]
  /\ over     = [p \in PE |-> FALSE]
  /\ at       = [p \in PE |-> "client"]
  /\ pushed   = [p \in PE |-> [d \in PE |-> 0]]
  /\ got      = [p \in PE |-> [s \in PE |-> <<>>]]
  /\ round    = [p \in PE |-> 1]

-----------------------------------------------------------------------------
(* convey_epush *)

MayPush(p, d) ==
  /\ at[p] = "client" /\ state[p] = "working" /\ ~over[p]
  /\ kind = "trivial" => p = d
  /\ pushed[p][d] < Quota[p][d]

\* The item that p pushes to d next, and the packet for it.
Item(p, d)        == [dest |-> d, n |-> pushed[p][d] + 1]
Packet(ticket, i) == [ticket |-> ticket, item |-> i]

IsLarge(p, d) == <<p, d, pushed[p][d] + 1>> \in large
HasRoom(p, d) == Len(link[p][d]) < LinkItems

PushSmall(p, d) ==
  /\ kind # "trivial" /\ MayPush(p, d) /\ ~IsLarge(p, d) /\ HasRoom(p, d)
  /\ link'   = [link EXCEPT ![p][d] = Append(@, Packet(FALSE, Item(p, d)))]
  /\ pushed' = [pushed EXCEPT ![p][d] = @ + 1]
  /\ UNCHANGED <<setting, buffer, drained, sending, pulling, full, control, got, round>>

\* MUTANT: an acknowledgement must be ahead of what was sent.
MonsterCanSendLess(p) == IF kind = "mpi" THEN big_req[p] # "active"
                         ELSE bigsent[p] < bigrcvd[p]

\* Has the last large item been fetched?  Over MPI, MPI_Test says so and resets
\* the request.
monster_can_send(p) == IF kind = "mpi" THEN big_req[p] # "active"
                       ELSE bigsent[p] <= bigrcvd[p]

\* monster_epush: if the ticket does not fit, the item stays behind in outgoing.
PushMonster(p, d) ==
  LET room == HasRoom(p, d)
      n    == IF room THEN 1 ELSE 0
  IN /\ kind # "trivial" /\ MayPush(p, d) /\ IsLarge(p, d)
     /\ monster_can_send(p)
     /\ outgoing' = [outgoing EXCEPT ![p] = Item(p, d)]
     /\ link'     = [link EXCEPT ![p][d] =
                       IF room THEN Append(@, Packet(TRUE, bigsent[p] + 1)) ELSE @]
     /\ bigsent'  = [bigsent EXCEPT ![p] = @ + n]
     /\ big_req'  = [big_req EXCEPT ![p] =
          CASE kind = "mpi" /\ room  -> "active"
            [] kind = "mpi" /\ ~room -> "null"
            [] OTHER                 -> @]
     /\ pushed'   = [pushed EXCEPT ![p][d] = @ + n]
     /\ UNCHANGED <<setting, buffer, drained, bigrcvd, acks, pulling, full, control,
                    got, round>>

\* trivial_epush
PushTrivial(p) ==
  /\ kind = "trivial" /\ MayPush(p, p) /\ ~full[p]
  /\ outgoing' = [outgoing EXCEPT ![p] = Item(p, p)]
  /\ full'     = [full EXCEPT ![p] = TRUE]
  /\ pushed'   = [pushed EXCEPT ![p][p] = @ + 1]
  /\ UNCHANGED <<setting, packets, bigsent, bigrcvd, big_req, acks, pulling,
                 control, got, round>>

-----------------------------------------------------------------------------
(* convey_epull and convey_unpull *)

CanPull(p) == at[p] = "client" /\ state[p] # "dormant"

\* An item that is not the one in question counts as item 0.
Took(p, from, item) ==
  got' = [got EXCEPT ![p][from] = Append(@, IF item.dest = p THEN item.n ELSE 0)]

\* PE p takes the next packet of a buffer.
PullFrom(p, b) ==
  LET packet == b.items[b.next + 1]
      fetch  == packet.ticket /\ ~unpull[p]
  IN /\ buffer'   = [buffer EXCEPT ![p] = [b EXCEPT !.next = @ + 1]]
     /\ bigpull'  = [bigpull EXCEPT ![p] = packet.ticket]
     /\ unpull'   = [unpull EXCEPT ![p] = @ /\ ~packet.ticket]
     /\ backup'   = [backup EXCEPT ![p] = TRUE]
     /\ incoming' = [incoming EXCEPT ![p] = IF fetch THEN outgoing[b.from] ELSE @]
     /\ Took(p, b.from, IF packet.ticket THEN incoming'[p] ELSE packet.item)
     /\ acks'     = [acks EXCEPT ![b.from] =
          IF fetch /\ kind = "put" THEN @ \cup {packet.item} ELSE @]
     /\ big_req'  = [big_req EXCEPT ![b.from] =
          IF fetch /\ kind = "mpi" THEN "sent" ELSE @]

HasItems(p) == buffer[p].next < Len(buffer[p].items)

\* elastic_epull: from the buffer at hand, ...
PullHeld(p) ==
  /\ CanPull(p) /\ HasItems(p) /\ PullFrom(p, buffer[p])
  /\ UNCHANGED <<setting, link, drained, outgoing, bigsent, bigrcvd, full, control,
                 pushed, round>>

\* ... or from another one, which has brought some packets of a link, ...
PullNext(p) ==
  /\ CanPull(p) /\ ~HasItems(p)
  /\ \E s \in PE : \E k \in 1 .. Len(link[s][p]) :
       /\ PullFrom(p, [from |-> s, items |-> SubSeq(link[s][p], 1, k), next |-> 0])
       /\ link' = [link EXCEPT ![s][p] = SubSeq(@, k + 1, Len(@))]
  /\ UNCHANGED <<setting, drained, outgoing, bigsent, bigrcvd, full, control, pushed,
                 round>>

\* ... or none has come.  It may be that nothing more will.
PullNothing(p) ==
  /\ kind # "trivial" /\ CanPull(p) /\ ~HasItems(p)
  /\ buffer'  = [buffer EXCEPT ![p] = NoBuffer]
  /\ backup'  = [backup EXCEPT ![p] = @ /\ buffer[p] = NoBuffer]
  /\ drained' = [drained EXCEPT ![p] = @ \/ \A s \in PE : over[s] /\ link[s][p] = <<>>]
  /\ UNCHANGED <<setting, link, sending, incoming, bigpull, unpull, full, control,
                 history>>

\* trivial_epull
PullTrivial(p) ==
  /\ CanPull(p) /\ full[p]
  /\ full' = [full EXCEPT ![p] = FALSE]
  /\ Took(p, p, outgoing[p])
  /\ UNCHANGED <<setting, packets, sending, pulling, control, pushed, round>>

GivesBack(p, from) ==
  got' = [got EXCEPT ![p][from] = SubSeq(@, 1, Len(@) - 1)]

UnpullSmall(p) ==
  /\ CanPull(p) /\ ~bigpull[p] /\ buffer[p].next > 0 /\ backup[p]
  /\ buffer' = [buffer EXCEPT ![p].next = @ - 1]
  /\ backup' = [backup EXCEPT ![p] = FALSE]
  /\ GivesBack(p, buffer[p].from)
  /\ UNCHANGED <<setting, link, drained, sending, incoming, bigpull, unpull, full,
                 control, pushed, round>>

\* MUTANT: the flag that keeps the item from being fetched again is not set.
PutBackForgets(p) == FALSE

PutBack(p) == TRUE

\* monster_unpull
UnpullMonster(p) ==
  /\ CanPull(p) /\ bigpull[p] /\ ~unpull[p] /\ buffer[p].next > 0
  /\ buffer' = [buffer EXCEPT ![p].next = @ - 1]
  /\ unpull' = [unpull EXCEPT ![p] = PutBack(p)]
  /\ backup' = [backup EXCEPT ![p] = FALSE]
  /\ GivesBack(p, buffer[p].from)
  /\ UNCHANGED <<setting, link, drained, sending, incoming, bigpull, full, control,
                 pushed, round>>

\* trivial_unpull, by a client that has pulled something and is not complete
UnpullTrivial(p) ==
  /\ kind = "trivial" /\ CanPull(p) /\ ~full[p]
  /\ got[p][p] # <<>> /\ state[p] # "complete"
  /\ full' = [full EXCEPT ![p] = TRUE]
  /\ GivesBack(p, p)
  /\ UNCHANGED <<setting, packets, sending, pulling, control, pushed, round>>

\* A put into bigrcvd arrives.
DeliverAck(p) ==
  /\ \E id \in acks[p] : /\ bigrcvd' = [bigrcvd EXCEPT ![p] = id]
                         /\ acks'    = [acks EXCEPT ![p] = @ \ {id}]
  /\ UNCHANGED <<setting, packets, outgoing, bigsent, big_req, pulling, full, control,
                 history>>

-----------------------------------------------------------------------------
(* convey_advance *)

\* elastic_advance and trivial_advance, of a client that is done
Result(p) ==
  CASE kind = "trivial" -> IF full[p] THEN "NEAR" ELSE "DONE"
    [] ~drained[p]      -> "OK"
    [] kind = "mpi" /\ ~monster_can_send(p) -> "OK"
    [] OTHER            -> IF unpull[p] THEN "NEAR" ELSE "DONE"

\* The clients considered push their quota and are done from then on.
Finish(p) ==
  /\ at[p] = "client" /\ state[p] = "working" /\ ~over[p]
  /\ \A d \in PE : pushed[p][d] = Quota[p][d] \/ (kind = "trivial" /\ p # d)
  /\ over' = [over EXCEPT ![p] = TRUE]
  /\ UNCHANGED <<setting, packets, sending, pulling, full, state, at, history>>

Advance(p) ==
  /\ at[p] = "client" /\ over[p] /\ state[p] \notin {"dormant", "complete"}
  /\ kind = "trivial" => \A q \in PE : over[q]
  /\ state' = [state EXCEPT ![p] =
       CASE Result(p) = "DONE" -> "complete"
         [] Result(p) = "NEAR" -> "cleanup"
         [] OTHER -> IF @ = "working" THEN "endgame" ELSE @]
  /\ UNCHANGED <<setting, packets, sending, pulling, full, over, at, history>>

-----------------------------------------------------------------------------
(* convey_reset and convey_begin *)

AllAt(place) == \A p \in PE : at[p] = place

EnterReset(p) ==
  /\ at[p] = "client" /\ state[p] = "complete" /\ round[p] < MaxRounds
  /\ at' = [at EXCEPT ![p] = "reset"]
  /\ UNCHANGED <<setting, packets, sending, pulling, full, state, over, history>>

AllQuiet == \A p \in PE : acks[p] = {}

\* mpp_barrier() in elastic_reset() is a shmem_barrier_all().
ResetBarrier ==
  /\ AllAt("reset") /\ AllQuiet
  /\ at'    = [p \in PE |-> "client"]
  /\ state' = [p \in PE |-> "dormant"]
  /\ UNCHANGED <<setting, packets, sending, pulling, full, over, history>>

\* elastic_begin and trivial_begin, up to the barrier of monster_begin.
Begin(p) ==
  /\ at[p] = "client" /\ state[p] = "dormant"
  /\ drained' = [drained EXCEPT ![p] = FALSE]
  /\ bigsent' = [bigsent EXCEPT ![p] = 0]
  /\ bigrcvd' = [bigrcvd EXCEPT ![p] = 0]
  /\ big_req' = [big_req EXCEPT ![p] = "null"]
  /\ bigpull' = [bigpull EXCEPT ![p] = FALSE]
  /\ unpull'  = [unpull EXCEPT ![p] = FALSE]
  /\ backup'  = [backup EXCEPT ![p] = FALSE]
  /\ full'    = [full EXCEPT ![p] = FALSE]
  /\ at'      = [at EXCEPT ![p] = "begin"]
  /\ UNCHANGED <<setting, link, buffer, outgoing, incoming, acks, state, over, history>>

FinishBegin ==
  /\ AllAt("begin")
  /\ at'     = [p \in PE |-> "client"]
  /\ state'  = [p \in PE |-> "working"]
  /\ over'   = [p \in PE |-> FALSE]
  /\ pushed' = [p \in PE |-> [d \in PE |-> 0]]
  /\ got'    = [p \in PE |-> [s \in PE |-> <<>>]]
  /\ round'  = [p \in PE |-> round[p] + 1]
  /\ UNCHANGED <<setting, packets, sending, pulling, full>>

Finished == /\ \A p \in PE : state[p] = "complete" /\ round[p] = MaxRounds
            /\ UNCHANGED vars

-----------------------------------------------------------------------------
Push(p, d) == PushSmall(p, d) \/ PushMonster(p, d)
Pull(p)    == PullHeld(p) \/ PullNext(p) \/ PullTrivial(p)
Unpull(p)  == UnpullSmall(p) \/ UnpullMonster(p) \/ UnpullTrivial(p)
Cycle(p)   == EnterReset(p) \/ Begin(p)

Next ==
  \/ \E p \in PE : \/ \E d \in PE : Push(p, d)
                   \/ PushTrivial(p) \/ Pull(p) \/ PullNothing(p) \/ Unpull(p)
                   \/ Finish(p) \/ Advance(p) \/ DeliverAck(p) \/ Cycle(p)
  \/ ResetBarrier \/ FinishBegin \/ Finished

Spec == Init /\ [][Next]_vars

\* The tensor conveyor brings a ticket at once, and other packets when there is
\* no room for more or the sender is done.
MustCome(p) == \E s \in PE :
  link[s][p] # <<>> /\ \/ over[s] \/ ~HasRoom(s, p)
                       \/ \E i \in DOMAIN link[s][p] : link[s][p][i].ticket

\* A client pushes its quota, advances and pulls as long as there is anything to
\* pull, gives back only so often, and resets.
Duty(p, what) ==
  \/ what = "push"   /\ ((\E d \in PE : Push(p, d)) \/ PushTrivial(p))
  \/ what = "finish" /\ (Finish(p) \/ Advance(p))
  \/ what = "ack"    /\ DeliverAck(p)
  \/ what = "held"   /\ (PullHeld(p) \/ PullTrivial(p))
  \/ what = "next"   /\ MustCome(p) /\ PullNext(p)
  \/ what = "last"   /\ PullNothing(p) /\ drained'[p]
  \/ what = "cycle"  /\ Cycle(p)

Duties == {"push", "finish", "ack", "held", "next", "last", "cycle"}
Barriers == ResetBarrier \/ FinishBegin
UnpullsEnd == \A p \in PE : <>[][~Unpull(p)]_vars

Fairness == /\ \A p \in PE, what \in Duties : WF_vars(Duty(p, what))
            /\ WF_vars(Barriers) /\ UnpullsEnd

FairSpec == Spec /\ Fairness

-----------------------------------------------------------------------------
(* Properties *)

\* Between the PEs there are FIFO links, for items of all sizes together: a
\* large item is the one that its ticket stands for, is fetched before the next
\* one takes its place, and can be given back.
Links == INSTANCE FifoLinks WITH
  PE <- PE, Live <- PE, sent <- pushed, closed <- over,
  drained <- [p \in PE |-> state[p] \in {"complete", "dormant"}]
LinksSpec == Links!Spec

\* Every client gets all its items through, large ones one after the other, and
\* completes every round.
Termination == <>(\A p \in PE : state[p] = "complete" /\ round[p] = MaxRounds)
=============================================================================
