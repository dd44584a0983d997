-------------------------------- MODULE Simple --------------------------------
(***************************************************************************)
(* The simple conveyor (convey/simple.c) under the generic functions of    *)
(* convey.c: each PE has a send buffer and a receive buffer for every PE,  *)
(* and convey_advance is collective: the PEs agree by a reduction whether  *)
(* to exchange their buffers, in one all-to-all, and whether it is the     *)
(* last exchange.  With the option SCATTER items go to the send buffers    *)
(* by way of a small circular buffer (convey/circle.c).                    *)
(*                                                                         *)
(* A PE in advance waits for the others at the reduction and, when they    *)
(* agree to exchange, at the barriers with which xshmem_alltoallv          *)
(* (convey/mpp2shmem.c) begins and ends.  Between these it touches no      *)
(* buffer but by the all-to-all itself, so that AgreeNot and Exchange are  *)
(* actions of all the PEs together.  An item is its index among the items  *)
(* its source has pushed to its destination in the round.                  *)
(***************************************************************************)
EXTENDS Integers, Sequences

CONSTANTS
  N,          \* PROCS
  Capacity,   \* items per buffer
  Circle,     \* capacity of the circular buffer, 16 in simple_begin
  Options,    \* the options a conveyor may have, see opt
  Quota,      \* Quota[p][d]: bound on the items p pushes to d in a round
  MaxRounds   \* bound on the begin .. reset rounds

PE == 0 .. N-1

ASSUME SimpleAssumption == /\ N \in Nat \ {0} /\ Capacity \in Nat \ {0}
                           /\ Circle \in Nat \ {0}
ASSUME OptionAssumption == Options \subseteq [scatter : BOOLEAN, steady : BOOLEAN]
ASSUME ClientAssumption == Quota \in [PE -> [PE -> Nat]] /\ MaxRounds \in Nat

VARIABLES
  opt,        \* scatter: is there a sorter?  steady: convey_STEADY
  send,       \* send[p][d]: the items in the send buffer
  recv,       \* recv[p][s]: the items in the receive buffer, how many are pulled
  circle,     \* circle[p]: items and destinations on their way to send buffers
  pull_from, nonempty, overflow, quiet,
  state,      \* convey->state
  vote,       \* vote[p]: the argument of mpp_or_long
  at,         \* where the PE stands: "client", "agree", "begin", or see BiSimple
  over,       \* has the client said that it is done?
  pushed, got, round    \* history, see FifoLinks

buffers == <<send, circle, nonempty, overflow>>
vars    == <<opt, buffers, recv, pull_from, quiet, state, vote, at, over,
             pushed, got, round>>

NoVote    == [cannot_comm |-> FALSE, desire_comm |-> FALSE, further_comm |-> FALSE]
EmptyRecv == [s \in PE |-> [items |-> <<>>, next |-> 0]]
EmptySend == [d \in PE |-> <<>>]

Init ==
  /\ opt       \in Options
  /\ send      = [p \in PE |-> EmptySend]
  /\ recv      = [p \in PE |-> EmptyRecv]
  /\ circle    = [p \in PE |-> <<>>]
  /\ pull_from = [p \in PE |-> N]
  /\ nonempty  = [p \in PE |-> FALSE]
  /\ overflow  = [p \in PE |-> FALSE]
  /\ quiet     = [p \in PE |-> FALSE]
  /\ state     = [p \in PE |-> "working"]
  /\ vote      = [p \in PE |-> NoVote]
  /\ at        = [p \in PE |-> "client"]
  /\ over      = [p \in PE |-> FALSE]
  /\ pushed    = [p \in PE |-> [d \in PE |-> 0]]
  /\ got       = [p \in PE |-> [s \in PE |-> <<>>]]
  /\ round     = [p \in PE |-> 1]

-----------------------------------------------------------------------------
(* Pushing *)

Full(p, d) == Len(send[p][d]) >= Capacity

CanPush(p) == at[p] = "client" /\ state[p] = "working"

\* MUTANT: the item that leaves the circular buffer may fill its send buffer.
FilledUnnoticed(items) == FALSE

\* Has the item written last filled the buffer?
Filled(items) == Len(items) >= Capacity

\* Without a sorter the item goes to its send buffer, if that has room.
PushDirect(p, d, item) ==
  /\ ~opt.scatter /\ ~Full(p, d)
  /\ send'     = [send EXCEPT ![p][d] = Append(@, item)]
  /\ nonempty' = [nonempty EXCEPT ![p] = TRUE]
  /\ UNCHANGED <<circle, overflow>>

\* With one it takes the place of the oldest item in the circular buffer, once
\* that is full; the oldest item moves on to its send buffer.
PushCircle(p, d, item) ==
  /\ opt.scatter /\ ~overflow[p]
  /\ nonempty' = [nonempty EXCEPT ![p] = TRUE]
  /\ LET new == [dest |-> d, item |-> item]
         old == Head(circle[p])
     IN IF Len(circle[p]) < Circle
        THEN /\ circle' = [circle EXCEPT ![p] = Append(@, new)]
             /\ UNCHANGED <<send, overflow>>
        ELSE /\ circle'   = [circle EXCEPT ![p] = Append(Tail(@), new)]
             /\ send'     = [send EXCEPT ![p][old.dest] = Append(@, old.item)]
             /\ overflow' = [overflow EXCEPT ![p] =
                               Filled(send[p][old.dest] \o <<old.item>>)]

\* simple_push fails; it has set its flags all the same.
PushFails(p, d) ==
  /\ CanPush(p)
  /\ IF opt.scatter THEN overflow[p] ELSE Full(p, d)
  /\ nonempty' = [nonempty EXCEPT ![p] = TRUE]
  /\ overflow' = [overflow EXCEPT ![p] = TRUE]
  /\ UNCHANGED <<opt, send, circle, recv, pull_from, quiet, state, vote, at,
                 over, pushed, got, round>>

Enqueue(p, d, item) == PushDirect(p, d, item) \/ PushCircle(p, d, item)

Push(p, d) ==
  /\ CanPush(p) /\ pushed[p][d] < Quota[p][d]
  /\ Enqueue(p, d, pushed[p][d] + 1)
  /\ pushed' = [pushed EXCEPT ![p][d] = @ + 1]
  /\ UNCHANGED <<opt, recv, pull_from, quiet, state, vote, at, over, got, round>>

-----------------------------------------------------------------------------
(* Pulling: the receive buffers are read one after the other *)

CanPull(p) == at[p] = "client" /\ state[p] # "dormant"

Unread(p) == {s \in PE : s >= pull_from[p]
                         /\ recv[p][s].next < Len(recv[p][s].items)}

Pull(p) ==
  /\ CanPull(p)
  /\ \E s \in Unread(p) :
       /\ \A x \in Unread(p) : s <= x
       /\ pull_from' = [pull_from EXCEPT ![p] = s]
       /\ recv' = [recv EXCEPT ![p][s].next = @ + 1]
       /\ got'  = [got EXCEPT ![p][s] =
                     Append(@, recv[p][s].items[recv[p][s].next + 1])]
  /\ UNCHANGED <<opt, buffers, quiet, state, vote, at, over, pushed, round>>

PullNothing(p) ==
  /\ CanPull(p) /\ Unread(p) = {}
  /\ pull_from' = [pull_from EXCEPT ![p] = N]
  /\ UNCHANGED <<opt, buffers, recv, quiet, state, vote, at, over, pushed, got,
                 round>>

Unpull(p) ==
  LET s == pull_from[p]
  IN /\ CanPull(p) /\ s < N /\ recv[p][s].next > 0
     /\ recv' = [recv EXCEPT ![p][s].next = @ - 1]
     /\ got'  = [got EXCEPT ![p][s] = SubSeq(@, 1, Len(@) - 1)]
     /\ UNCHANGED <<opt, buffers, pull_from, quiet, state, vote, at, over,
                    pushed, round>>

-----------------------------------------------------------------------------
(* convey_advance *)

need_pull(p) == pull_from[p] < N

\* What convey_advance does with the result of simple_advance.
Outcome(p, result, done) ==
  CASE result = "NEAR" -> "cleanup"
    [] result = "DONE" -> "complete"
    [] result = "OK"   -> IF done /\ state[p] = "working" THEN "endgame"
                          ELSE state[p]

\* The send buffers after n items have left the circular buffer for them.
Flushed(p, n) ==
  LET old == circle[p]
      after[k \in 0 .. n] ==
        IF k = 0 THEN send[p]
        ELSE [after[k-1] EXCEPT ![old[k].dest] = Append(@, old[k].item)]
  IN after[n]

\* A flush stops after the item that fills a send buffer.
Stops(p) == {n \in DOMAIN circle[p] :
               Len(Flushed(p, n)[circle[p][n].dest]) >= Capacity}

FlushCount(p) == IF Stops(p) = {} THEN Len(circle[p])
                 ELSE CHOOSE n \in Stops(p) : \A m \in Stops(p) : n <= m

\* sorter_flush: there was nothing to do, it stopped, or all is flushed.
FlushResult(p) == IF circle[p] = <<>> THEN "0"
                  ELSE IF Stops(p) # {} THEN "-1" ELSE "1"

\* MUTANT: the conveyor is not steady.
DesireUnsteady(done, over_now, some_now) == done \/ over_now

Desire(done, over_now, some_now) == done \/ over_now \/ (opt.steady /\ some_now)

\* The sorter is flushed unless a buffer is full, and then the vote is cast.
Vote(p, done) ==
  LET flushing == opt.scatter /\ (done \/ opt.steady)
      go       == flushing /\ ~overflow[p]
      status   == FlushResult(p)
      over_now == IF go THEN status = "-1" ELSE overflow[p]
      some_now == nonempty[p] \/ (go /\ status # "0")
      done_now == done /\ (flushing => go /\ status # "-1")
  IN /\ IF go
        THEN /\ send'   = [send EXCEPT ![p] = Flushed(p, FlushCount(p))]
             /\ circle' = [circle EXCEPT ![p] =
                             SubSeq(@, FlushCount(p) + 1, Len(@))]
        ELSE UNCHANGED <<send, circle>>
     /\ overflow' = [overflow EXCEPT ![p] = over_now]
     /\ nonempty' = [nonempty EXCEPT ![p] = some_now]
     /\ vote' = [vote EXCEPT ![p] =
          [cannot_comm  |-> need_pull(p),
           desire_comm  |-> Desire(done_now, over_now, some_now),
           further_comm |-> ~done_now]]

\* simple_advance after the last exchange.
QuietResult(p) == IF need_pull(p) THEN "NEAR" ELSE "DONE"

\* A call in state complete would change nothing.
StartAdvance(p, d) ==
  /\ at[p] = "client" /\ state[p] \notin {"dormant", "complete"}
  /\ over[p] => d
  /\ over' = [over EXCEPT ![p] = d]
  /\ IF quiet[p]
     THEN /\ state' = [state EXCEPT ![p] = Outcome(p, QuietResult(p), d)]
          /\ UNCHANGED <<buffers, vote, at>>
     ELSE /\ Vote(p, d)
          /\ at' = [at EXCEPT ![p] = "agree"]
          /\ UNCHANGED state
  /\ UNCHANGED <<opt, recv, pull_from, quiet, pushed, got, round>>

AllAt(place) == \A p \in PE : at[p] = place
cannot_comm  == \E p \in PE : vote[p].cannot_comm
desire_comm  == \E p \in PE : vote[p].desire_comm

\* MUTANT: it is the last exchange when one PE is done.
FurtherUnlessOne == \A p \in PE : vote[p].further_comm

further_comm == \E p \in PE : vote[p].further_comm

\* All return from convey_advance with this result.
Return(result) ==
  /\ at'    = [p \in PE |-> "client"]
  /\ vote'  = [p \in PE |-> NoVote]
  /\ state' = [p \in PE |-> Outcome(p, result, over[p])]

\* There is no exchange while a PE has items to pull or if nobody wants one.
StayApart == cannot_comm \/ ~desire_comm

AgreeNot ==
  /\ AllAt("agree") /\ StayApart
  /\ Return("OK")
  /\ UNCHANGED <<opt, buffers, recv, pull_from, quiet, over, pushed, got, round>>

\* simple_alltoallv: from, what the PEs send, is what they receive.
Received(from) == [p \in PE |-> [s \in PE |-> [items |-> from[s][p], next |-> 0]]]

\* simple_reset_send_buffers
ClearSend == /\ send'     = [p \in PE |-> EmptySend]
             /\ nonempty' = [p \in PE |-> FALSE]
             /\ overflow' = [p \in PE |-> FALSE]
             /\ UNCHANGED circle

\* The end of simple_advance after an exchange.
AfterExchange ==
  /\ quiet' = [p \in PE |-> ~further_comm]
  /\ Return(IF further_comm THEN "OK" ELSE "NEAR")

Exchange ==
  /\ AllAt("agree") /\ ~StayApart
  /\ recv'      = Received(send)
  /\ pull_from' = [p \in PE |-> 0]
  /\ ClearSend
  /\ AfterExchange
  /\ UNCHANGED <<opt, over, pushed, got, round>>

-----------------------------------------------------------------------------
(* convey_reset and convey_begin *)

Reset(p) ==
  /\ at[p] = "client" /\ state[p] = "complete" /\ round[p] < MaxRounds
  /\ state' = [state EXCEPT ![p] = "dormant"]
  /\ UNCHANGED <<opt, buffers, recv, pull_from, quiet, vote, at, over, pushed,
                 got, round>>

\* simple_begin, up to its barrier.  The sorter is neither flushed nor reset.
Begin(p) ==
  /\ at[p] = "client" /\ state[p] = "dormant"
  /\ send'      = [send EXCEPT ![p] = EmptySend]
  /\ recv'      = [recv EXCEPT ![p] = EmptyRecv]
  /\ nonempty'  = [nonempty EXCEPT ![p] = FALSE]
  /\ overflow'  = [overflow EXCEPT ![p] = FALSE]
  /\ pull_from' = [pull_from EXCEPT ![p] = N]
  /\ quiet'     = [quiet EXCEPT ![p] = FALSE]
  /\ at'        = [at EXCEPT ![p] = "begin"]
  /\ UNCHANGED <<opt, circle, state, vote, over, pushed, got, round>>

\* The barrier lets all of them into the new round.
FinishBegin ==
  /\ AllAt("begin")
  /\ at'     = [p \in PE |-> "client"]
  /\ state'  = [p \in PE |-> "working"]
  /\ over'   = [p \in PE |-> FALSE]
  /\ pushed' = [p \in PE |-> [d \in PE |-> 0]]
  /\ got'    = [p \in PE |-> [s \in PE |-> <<>>]]
  /\ round'  = [p \in PE |-> round[p] + 1]
  /\ UNCHANGED <<opt, buffers, recv, pull_from, quiet, vote>>

Finished == /\ \A p \in PE : state[p] = "complete" /\ round[p] = MaxRounds
            /\ UNCHANGED vars

-----------------------------------------------------------------------------
Next == \/ \E p \in PE : \/ \E d \in PE : Push(p, d) \/ PushFails(p, d)
                         \/ Pull(p) \/ PullNothing(p) \/ Unpull(p)
                         \/ \E d \in BOOLEAN : StartAdvance(p, d)
                         \/ Reset(p) \/ Begin(p)
        \/ AgreeNot \/ Exchange \/ FinishBegin \/ Finished

Spec == Init /\ [][Next]_vars

\* The client goes on advancing, is done at some time, goes on pulling until
\* there is nothing to pull, and gives items back only so often.
Fairness ==
  /\ WF_vars(AgreeNot \/ Exchange \/ FinishBegin)
  /\ \A p \in PE : /\ SF_vars(StartAdvance(p, TRUE))
                   /\ SF_vars(Pull(p) \/ PullNothing(p))
                   /\ <>[][~Unpull(p)]_vars

FairSpec == Spec /\ Fairness

-----------------------------------------------------------------------------
(* Properties *)

\* The types of the variables; no item is written beyond the end of its send
\* buffer or of the circular buffer.
TypeOK ==
  /\ opt \in Options
  /\ \A p, d \in PE : /\ Len(send[p][d]) <= Capacity
                      /\ recv[p][d].next \in 0 .. Len(recv[p][d].items)
  /\ \A p \in PE : Len(circle[p]) <= Circle
  /\ pull_from \in [PE -> 0 .. N]
  /\ nonempty \in [PE -> BOOLEAN] /\ overflow \in [PE -> BOOLEAN]
  /\ quiet \in [PE -> BOOLEAN] /\ over \in [PE -> BOOLEAN]
  /\ state \in [PE -> {"dormant", "working", "endgame", "cleanup", "complete"}]
  /\ at \in [PE -> {"client", "agree", "begin", "answer", "aborted"}]
  /\ \A p, d \in PE : pushed[p][d] \in 0 .. Quota[p][d]

\* Between the PEs there are FIFO links: no item is lost in a sorter, or by an
\* exchange into buffers that are still being read, and convey_DONE is returned
\* only when none is left.
Links == INSTANCE FifoLinks WITH
  PE <- PE, Live <- PE, sent <- pushed, closed <- over,
  drained <- [p \in PE |-> state[p] \in {"complete", "dormant"}]
LinksSpec == Links!Spec

\* When all the clients are done, all get convey_DONE, however often the
\* exchange is put off for one that has items to pull, or a flush stops.
Completes == (\A p \in PE : over[p])
               ~> (\A p \in PE : state[p] \in {"complete", "dormant"})
=============================================================================
