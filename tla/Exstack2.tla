------------------------------- MODULE Exstack2 -------------------------------
(***************************************************************************)
(* Exstack2: aggregated all-to-all communication without barriers, as in   *)
(* exstack/exstack2_shmem.c; exstack2.upc is the same algorithm in UPC,    *)
(* but reads num_msgs before it releases a buffer.  Every PE has one send  *)
(* buffer and one receive buffer per PE.  A buffer is sent by writing it   *)
(* into the receiver's memory, claiming a position of the receiver's       *)
(* circular message queue with an atomic increment, and storing a message  *)
(* there; the receiver returns the right to send (s_can_send) when it has  *)
(* popped the buffer empty.                                                *)
(*                                                                         *)
(* exstack2_send() ends with a fence, so its caller does nothing else      *)
(* until what it wrote has landed (Settled).  An item is its index among   *)
(* the items its source has pushed to its destination in the round.        *)
(***************************************************************************)
EXTENDS Integers, Sequences, FiniteSets

CONSTANTS
  THREADS,    \* the number of PEs, which UPC calls threads
  BufCnt,     \* buf_cnt, packages per buffer
  ExQuota,    \* ExQuota[p][d]: bound on the items p pushes to d in a round
  MaxUnpops,  \* bound on the calls of exstack2_unpop by a PE in a round
  ExRounds    \* bound on the rounds that exstack2_reset separates

Thread == 0 .. THREADS-1
None   == THREADS   \* pop_pe == -1

ASSUME NAssumption == THREADS \in Nat \ {0}
ASSUME BufCntAssumption == BufCnt \in Nat \ {0}
ASSUME BoundAssumption ==
         /\ ExQuota \in [Thread -> [Thread -> Nat]]
         /\ MaxUnpops \in Nat /\ ExRounds \in Nat

VARIABLES
  snd,              \* snd[p][d]: the packages in p's send buffer for d
  can_send,         \* s_can_send[p][d]: written by p and by d
  rcv,              \* rcv[d][p]: the packages in d's receive buffer for p
  queue,            \* the message queue, by position
  num_msgs,         \* s_num_msgs, incremented by every sender
  num_made_active, num_popped, num_done_sending,
  active, current,  \* active_buffer_queue, current_active_index
  pop_pe, pop_cnt, pop_ptr,
  all_done,
  unflushed,        \* the PEs left in flush_order
  pc,               \* where exstack2_pop or exstack2_flush_needed stands
  seen,             \* s2l_num_msgs of the call that is activating messages
  todo,             \* the PEs that this flush has still to visit
  data, note,       \* the buffer and the message a PE has on their way
  done,             \* the client has pushed its last item
  stage, ex_round,  \* where the PE stands in exstack2_reset
  unpops, items_pushed, items_popped

sender   == <<snd, can_send>>
receiver == <<rcv, num_made_active, num_popped, num_done_sending, active,
              current, pop_pe, pop_cnt, pop_ptr, seen>>
wires    == <<queue, num_msgs, data, note>>
flush    == <<unflushed, todo>>
cycle    == <<done, stage, ex_round>>
history  == <<unpops, items_pushed, items_popped>>
ex2vars  == <<sender, receiver, wires, flush, cycle, history, all_done, pc>>

-----------------------------------------------------------------------------
\* MUTANT: the queue is half as long as there are PEs.
ShortQueue == CHOOSE len \in 1 .. THREADS : /\ len >= THREADS \div 2 /\ len < THREADS

PowerOfTwo(n) == \A d \in 2 .. n : n % d = 0 => d % 2 = 0

\* The smallest power of two that is at least twice the number of PEs.
QueueLen == CHOOSE len \in 2*THREADS .. 4*THREADS-1 : PowerOfTwo(len)

Position == 0 .. QueueLen-1
Slot     == 1 .. BufCnt

Message == [pe : Thread, cnt : Nat, last : BOOLEAN]
Free    == [pe |-> None, cnt |-> 0, last |-> FALSE]      \* -1L

Unclaimed == QueueLen      \* the position of a message that has none yet

\* Has everything that PE p wrote to other PEs landed?
Settled(p) == data[p] = {} /\ note[p] = {}

\* May the client of PE p call a function of exstack2?
Ready(p) == stage[p] = "working" /\ pc[p] = "idle" /\ Settled(p)

-----------------------------------------------------------------------------
InitEx2 ==
  /\ snd              = [p \in Thread |-> [d \in Thread |-> <<>>]]
  /\ can_send         = [p \in Thread |-> [d \in Thread |-> 1]]
  /\ rcv              = [p \in Thread |-> [s \in Thread |-> [i \in Slot |-> 0]]]
  /\ queue            = [p \in Thread |-> [i \in Position |-> Free]]
  /\ num_msgs         = [p \in Thread |-> 0]
  /\ num_made_active  = [p \in Thread |-> 0]
  /\ num_popped       = [p \in Thread |-> 0]
  /\ num_done_sending = [p \in Thread |-> 0]
  /\ active           = [p \in Thread |-> <<>>]
  /\ current          = [p \in Thread |-> 0]
  /\ pop_pe           = [p \in Thread |-> None]
  /\ pop_cnt          = [p \in Thread |-> [s \in Thread |-> 0]]
  /\ pop_ptr          = [p \in Thread |-> [s \in Thread |-> 0]]
  /\ all_done         = [p \in Thread |-> FALSE]
  /\ unflushed        = [p \in Thread |-> Thread]
  /\ pc               = [p \in Thread |-> "idle"]
  /\ seen             = [p \in Thread |-> 0]
  /\ todo             = [p \in Thread |-> {}]
  /\ data             = [p \in Thread |-> {}]
  /\ note             = [p \in Thread |-> {}]
  /\ done             = [p \in Thread |-> FALSE]
  /\ stage            = [p \in Thread |-> "working"]
  /\ ex_round         = [p \in Thread |-> 1]
  /\ unpops           = [p \in Thread |-> 0]
  /\ items_pushed     = [p \in Thread |-> [d \in Thread |-> 0]]
  /\ items_popped     = [p \in Thread |-> [s \in Thread |-> <<>>]]

-----------------------------------------------------------------------------
(* exstack2_send, exstack2_push, exstack2_proceed and exstack2_flush_needed *)

\* The right to send, when p has used it.
Spent(p, d) == [can_send EXCEPT ![p][d] = 0]

\* exstack2_send(d, last) with the right to send; the send buffer then holds
\* the packages in rest.
Send(p, d, last, rest) ==
  LET pkgs == snd[p][d] IN
  /\ can_send' = Spent(p, d)
  /\ data'     = [data EXCEPT ![p] =
                IF pkgs = <<>> THEN {} ELSE {[to |-> d, pkgs |-> pkgs]}]
  /\ note' = [note EXCEPT ![p] =
                {[to |-> d, position |-> Unclaimed,
                  msg |-> [pe |-> p, cnt |-> Len(pkgs), last |-> last]]}]
  /\ snd' = [snd EXCEPT ![p][d] = rest]
  /\ UNCHANGED <<queue, num_msgs>>

\* A push that finds the buffer full, and may not send it, changes nothing.
PushEx2(p, d) ==
  LET item == items_pushed[p][d] + 1 IN
  /\ Ready(p) /\ ~done[p] /\ items_pushed[p][d] < ExQuota[p][d]
  /\ \/ /\ Len(snd[p][d]) < BufCnt
        /\ snd' = [snd EXCEPT ![p][d] = Append(@, item)]
        /\ UNCHANGED <<can_send, wires>>
     \/ /\ Len(snd[p][d]) = BufCnt /\ can_send[p][d] # 0
        /\ Send(p, d, FALSE, <<item>>)
  /\ items_pushed' = [items_pushed EXCEPT ![p][d] = item]
  /\ UNCHANGED <<receiver, flush, cycle, unpops, items_popped, all_done, pc>>

\* The client has pushed its last item.
Finish(p) ==
  /\ Ready(p) /\ ~done[p]
  /\ done' = [done EXCEPT ![p] = TRUE]
  /\ UNCHANGED <<sender, receiver, wires, flush, stage, ex_round, history,
                 all_done, pc>>

\* exstack2_proceed(1) with buffers left to flush.
StartFlush(p) ==
  /\ Ready(p) /\ done[p] /\ ~all_done[p]
  /\ unflushed[p] # {}
  /\ pc'   = [pc EXCEPT ![p] = "flush"]
  /\ todo' = [todo EXCEPT ![p] = unflushed[p]]
  /\ UNCHANGED <<sender, receiver, wires, unflushed, cycle, history, all_done>>

\* MUTANT: a buffer that could not be sent is taken out of the list too.
LeftAnyway(p, d) == unflushed[p] \ {d}

\* The PEs left to flush after an attempt to send to d.
Left(p, d) == IF can_send[p][d] # 0 THEN unflushed[p] \ {d} ELSE unflushed[p]

\* One pass of the loop of exstack2_flush_needed().
FlushOne(p) ==
  /\ pc[p] = "flush" /\ Settled(p)
  /\ \E d \in todo[p] :
       /\ IF can_send[p][d] # 0
          THEN Send(p, d, TRUE, <<>>)
          ELSE UNCHANGED <<sender, wires>>
       /\ unflushed' = [unflushed EXCEPT ![p] = Left(p, d)]
       /\ todo' = [todo EXCEPT ![p] = @ \ {d}]
       /\ pc' = [pc EXCEPT ![p] = IF todo[p] = {d} THEN "idle" ELSE "flush"]
  /\ UNCHANGED <<receiver, cycle, history, all_done>>

\* Every PE has sent its last buffer, and every buffer has been popped.
AllPopped(p) == num_done_sending[p] >= THREADS /\ num_popped[p] = num_msgs[p]

\* exstack2_proceed(1) with nothing left to flush, when it returns 0.
Proceed(p) ==
  /\ Ready(p) /\ done[p] /\ ~all_done[p]
  /\ unflushed[p] = {} /\ AllPopped(p)
  /\ all_done' = [all_done EXCEPT ![p] = TRUE]
  /\ UNCHANGED <<sender, receiver, wires, flush, cycle, history, pc>>

-----------------------------------------------------------------------------
(* exstack2_pop, or exstack2_pull.  The call is at its head when pc is     *)
(* "idle", and again when it calls itself.                                 *)

AtHead(r) == /\ stage[r] = "working" /\ Settled(r)
             /\ pc[r] \in {"idle", "again"} /\ ~all_done[r]

HasItem(r) == pop_pe[r] # None /\ pop_cnt[r][pop_pe[r]] > 0

PopItem(r) ==
  /\ AtHead(r) /\ HasItem(r)
  /\ LET s == pop_pe[r]
         i == pop_ptr[r][s] + 1
     IN /\ items_popped' = [items_popped EXCEPT ![r][s] = Append(@, rcv[r][s][i])]
        /\ pop_ptr' = [pop_ptr EXCEPT ![r][s] = i]
        /\ pop_cnt' = [pop_cnt EXCEPT ![r][s] = @ - 1]
  /\ pc' = [pc EXCEPT ![r] = "idle"]
  /\ UNCHANGED <<sender, rcv, num_made_active, num_popped, num_done_sending,
                 active, current, pop_pe, seen, wires, flush, cycle, unpops, items_pushed,
                 all_done>>

\* The buffer at hand is empty: its sender may send again.
Release(r) ==
  LET last == active[r][Len(active[r])] IN
  /\ can_send'   = [can_send EXCEPT ![pop_pe[r]][r] = @ + 1]
  /\ num_popped' = [num_popped EXCEPT ![r] = @ + 1]
  /\ active'     = [active EXCEPT ![r] =
       SubSeq([@ EXCEPT ![current[r]] = last], 1, Len(@) - 1)]
  /\ pop_pe' = [pop_pe EXCEPT ![r] = None]

PopEmpty(r) ==
  /\ AtHead(r) /\ pop_pe[r] # None /\ ~HasItem(r)
  /\ Release(r)
  /\ pc' = [pc EXCEPT ![r] = "count"]
  /\ UNCHANGED <<snd, rcv, num_made_active, num_done_sending, current, pop_cnt,
                 pop_ptr, seen, wires, flush, cycle, history, all_done>>

\* How many messages have been announced?
CountMessages(r) ==
  /\ pc[r] = "count" \/ (AtHead(r) /\ pop_pe[r] = None)
  /\ seen' = [seen EXCEPT ![r] = num_msgs[r]]
  /\ pc'   = [pc EXCEPT ![r] = "activate"]
  /\ UNCHANGED <<sender, rcv, num_made_active, num_popped, num_done_sending,
                 active, current, pop_pe, pop_cnt, pop_ptr, wires, flush, cycle,
                 history, all_done>>

NextMessage(r) == queue[r][num_made_active[r] % QueueLen]

\* Is there another message to make active?  One that has been announced may
\* still be on its way.
MoreMessages(r) == num_made_active[r] < seen[r] /\ NextMessage(r) # Free

\* How much a message adds to num_done_sending.
Lasts(r) == IF NextMessage(r).last THEN 1 ELSE 0

Activate(r) ==
  /\ pc[r] = "activate" /\ MoreMessages(r)
  /\ LET m == NextMessage(r) IN
       /\ num_done_sending' = [num_done_sending EXCEPT ![r] = @ + Lasts(r)]
       /\ IF m.cnt # 0
          THEN /\ pop_cnt' = [pop_cnt EXCEPT ![r][m.pe] = m.cnt]
               /\ pop_ptr' = [pop_ptr EXCEPT ![r][m.pe] = 0]
          ELSE UNCHANGED <<pop_cnt, pop_ptr>>
       /\ active' = [active EXCEPT ![r] = Append(@, m.pe)]
  /\ num_made_active' = [num_made_active EXCEPT ![r] = @ + 1]
  /\ queue'           = [queue EXCEPT ![r][num_made_active[r] % QueueLen] = Free]
  /\ UNCHANGED <<sender, rcv, num_popped, current, pop_pe, seen, num_msgs, data,
                 note, flush, cycle, history, all_done, pc>>

\* A random active buffer is the next to pop from; without one, nothing is
\* popped.
Pick(r) ==
  /\ pc[r] = "activate" /\ ~MoreMessages(r)
  /\ \/ /\ active[r] = <<>>
        /\ pc' = [pc EXCEPT ![r] = "idle"]
        /\ UNCHANGED <<current, pop_pe>>
     \/ \E i \in 1 .. Len(active[r]) :
          /\ current' = [current EXCEPT ![r] = i]
          /\ pop_pe'  = [pop_pe EXCEPT ![r] = active[r][i]]
          /\ pc'      = [pc EXCEPT ![r] = "again"]
  /\ seen' = [seen EXCEPT ![r] = 0]
  /\ UNCHANGED <<sender, rcv, num_made_active, num_popped, num_done_sending,
                 active, pop_cnt, pop_ptr, wires, flush, cycle, history,
                 all_done>>

\* exstack2_unpop, legal after a successful pop.
Unpop(r) ==
  /\ Ready(r) /\ pop_pe[r] # None /\ unpops[r] < MaxUnpops
  /\ LET s == pop_pe[r] IN
       /\ pop_ptr' = [pop_ptr EXCEPT ![r][s] = @ - 1]
       /\ pop_cnt' = [pop_cnt EXCEPT ![r][s] = @ + 1]
       /\ items_popped' = [items_popped EXCEPT ![r][s] = SubSeq(@, 1, Len(@) - 1)]
  /\ pop_pe' = [pop_pe EXCEPT ![r] = None]
  /\ unpops' = [unpops EXCEPT ![r] = @ + 1]
  /\ UNCHANGED <<sender, rcv, num_made_active, num_popped, num_done_sending,
                 active, current, seen, wires, flush, cycle, items_pushed, all_done,
                 pc>>

-----------------------------------------------------------------------------
(* The rest of exstack2_send(): the buffer lands, a position of the        *)
(* receiver's queue is claimed, and the message lands there.               *)

LandData(p) ==
  /\ \E m \in data[p] :
       rcv' = [rcv EXCEPT ![m.to][p] = m.pkgs \o SubSeq(@, Len(m.pkgs)+1, BufCnt)]
  /\ data' = [data EXCEPT ![p] = {}]
  /\ UNCHANGED <<sender, num_made_active, num_popped, num_done_sending, active,
                 current, pop_pe, pop_cnt, pop_ptr, seen, queue, num_msgs, note,
                 flush, cycle, history, all_done, pc>>

\* MUTANT: there is no fence between the buffer and the message.
Unfenced(p) == TRUE

Fenced(p) == data[p] = {}

Claim(p) ==
  /\ Fenced(p)
  /\ \E m \in note[p] :
       /\ m.position = Unclaimed
       /\ note' = [note EXCEPT ![p] =
                     {[m EXCEPT !.position = num_msgs[m.to] % QueueLen]}]
       /\ num_msgs' = [num_msgs EXCEPT ![m.to] = @ + 1]
  /\ UNCHANGED <<sender, receiver, queue, data, flush, cycle, history,
                 all_done, pc>>

LandNote(p) ==
  /\ \E m \in note[p] :
       /\ m.position # Unclaimed
       /\ queue' = [queue EXCEPT ![m.to][m.position] = m.msg]
  /\ note' = [note EXCEPT ![p] = {}]
  /\ UNCHANGED <<sender, receiver, num_msgs, data, flush, cycle, history,
                 all_done, pc>>

-----------------------------------------------------------------------------
(* exstack2_reset: a barrier, the assignments, another barrier *)

EnterReset(p) ==
  /\ Ready(p) /\ all_done[p] /\ ex_round[p] < ExRounds
  /\ stage' = [stage EXCEPT ![p] = "arrived"]
  /\ UNCHANGED <<sender, receiver, wires, flush, done, ex_round, history,
                 all_done, pc>>

FirstBarrier ==
  /\ \A p \in Thread : stage[p] = "arrived"
  /\ stage' = [p \in Thread |-> "clearing"]
  /\ UNCHANGED <<sender, receiver, wires, flush, done, ex_round, history,
                 all_done, pc>>

Clear(p) ==
  /\ stage[p] = "clearing"
  /\ all_done'         = [all_done EXCEPT ![p] = FALSE]
  /\ num_done_sending' = [num_done_sending EXCEPT ![p] = 0]
  /\ num_popped'       = [num_popped EXCEPT ![p] = 0]
  /\ num_msgs'         = [num_msgs EXCEPT ![p] = 0]
  /\ active'           = [active EXCEPT ![p] = <<>>]
  /\ current'          = [current EXCEPT ![p] = 0]
  /\ num_made_active'  = [num_made_active EXCEPT ![p] = 0]
  /\ unflushed'        = [unflushed EXCEPT ![p] = Thread]
  /\ stage'            = [stage EXCEPT ![p] = "cleared"]
  /\ ex_round'         = [ex_round EXCEPT ![p] = @ + 1]
  /\ done'             = [done EXCEPT ![p] = FALSE]
  /\ unpops'           = [unpops EXCEPT ![p] = 0]
  /\ items_pushed'     = [items_pushed EXCEPT ![p] = [d \in Thread |-> 0]]
  /\ items_popped'     = [items_popped EXCEPT ![p] = [s \in Thread |-> <<>>]]
  /\ UNCHANGED <<sender, rcv, pop_pe, pop_cnt, pop_ptr, seen, queue, data, note,
                 todo, pc>>

SecondBarrier ==
  /\ \A p \in Thread : stage[p] = "cleared"
  /\ stage' = [p \in Thread |-> "working"]
  /\ UNCHANGED <<sender, receiver, wires, flush, done, ex_round, history,
                 all_done, pc>>

FinishedEx2 ==
  /\ \A p \in Thread : all_done[p] /\ ex_round[p] = ExRounds
  /\ UNCHANGED ex2vars

-----------------------------------------------------------------------------
Pop(r) == PopItem(r) \/ PopEmpty(r) \/ CountMessages(r) \/ Activate(r) \/ Pick(r)

Endgame(p) == StartFlush(p) \/ FlushOne(p) \/ Proceed(p)

Land(p) == LandData(p) \/ Claim(p) \/ LandNote(p)

ResetEx2(p) == EnterReset(p) \/ Clear(p)

NextEx2 ==
  \/ \E p, d \in Thread : PushEx2(p, d)
  \/ \E p \in Thread : Finish(p) \/ Endgame(p) \/ Pop(p) \/ Unpop(p) \/ Land(p)
                   \/ ResetEx2(p)
  \/ FirstBarrier \/ SecondBarrier \/ FinishedEx2

SpecEx2 == InitEx2 /\ [][NextEx2]_ex2vars

\* What has been written lands, a call runs to its end, and a client in its
\* loop proceeds and pops in turn, finishes, and resets.
FairnessEx2 ==
  /\ \A p \in Thread : /\ WF_ex2vars(Land(p)) /\ WF_ex2vars(ResetEx2(p))
                       /\ SF_ex2vars(Pop(p)) /\ SF_ex2vars(Endgame(p))
                       /\ SF_ex2vars(Finish(p))
  /\ WF_ex2vars(FirstBarrier) /\ WF_ex2vars(SecondBarrier)
LiveSpec == SpecEx2 /\ FairnessEx2

-----------------------------------------------------------------------------
(* Properties *)

\* Every variable has its type; num_done_sending counts each PE at most once.
TypeOKEx2 ==
  /\ snd \in [Thread -> [Thread -> Seq(Nat)]]
  /\ can_send \in [Thread -> [Thread -> Nat]]
  /\ rcv \in [Thread -> [Thread -> [Slot -> Nat]]]
  /\ queue \in [Thread -> [Position -> Message \cup {Free}]]
  /\ num_msgs \in [Thread -> Nat]
  /\ num_made_active \in [Thread -> Nat]
  /\ num_popped \in [Thread -> Nat]
  /\ num_done_sending \in [Thread -> 0 .. THREADS]
  /\ active \in [Thread -> Seq(Thread)]
  /\ current \in [Thread -> Nat]
  /\ pop_pe \in [Thread -> Thread \cup {None}]
  /\ pop_cnt \in [Thread -> [Thread -> Nat]]
  /\ pop_ptr \in [Thread -> [Thread -> Nat]]
  /\ all_done \in [Thread -> BOOLEAN]
  /\ unflushed \in [Thread -> SUBSET Thread]
  /\ pc \in [Thread -> {"idle", "again", "count", "activate", "flush"}]
  /\ seen \in [Thread -> Nat]
  /\ todo \in [Thread -> SUBSET Thread]
  /\ data \in [Thread -> SUBSET [to : Thread, pkgs : Seq(Nat)]]
  /\ note \in [Thread -> SUBSET [to : Thread, position : Position \cup {Unclaimed},
                         msg : Message]]
  /\ done \in [Thread -> BOOLEAN]
  /\ stage \in [Thread -> {"working", "arrived", "clearing", "cleared"}]
  /\ ex_round \in [Thread -> Nat]
  /\ unpops \in [Thread -> Nat]
  /\ items_pushed \in [Thread -> [Thread -> Nat]]
  /\ items_popped \in [Thread -> [Thread -> Seq(Nat)]]

\* For each pair of PEs there is one right to send: the sender holds it, or it
\* travels with a message, waits in the queue or is an active buffer.
OneCredit == \A p, d \in Thread :
  can_send[p][d]
    + Cardinality({m \in note[p] : m.to = d})
    + Cardinality({i \in Position : queue[d][i].pe = p})
    + Cardinality({i \in DOMAIN active[d] : active[d][i] = p}) = 1

\* The circular queue never wraps onto a message that has not been activated,
\* and no two messages on their way claim the same position.
QueueNotOverrun == \A p, q \in Thread : \A m \in note[p] : \A n \in note[q] :
  m.position # Unclaimed =>
    /\ queue[m.to][m.position] = Free
    /\ m.to = n.to /\ m.position = n.position => p = q

\* The assertions of exstack2_pop and exstack2_reset.
Assertions == \A r \in Thread :
  /\ (pc[r] = "activate" /\ MoreMessages(r)) =>
       pop_cnt[r][NextMessage(r).pe] = 0
  /\ (AtHead(r) /\ pop_pe[r] # None /\ ~HasItem(r)) => current[r] > 0
  /\ stage[r] = "clearing" =>
       /\ num_popped[r] = num_msgs[r]
       /\ \A d \in Thread : can_send[r][d] = 1

\* No buffer and no position of a queue is written over before it has been read,
\* and all rights to send are back when a round ends.
FlowControl == TypeOKEx2 /\ OneCredit /\ QueueNotOverrun /\ Assertions

\* Each pair of PEs is a FIFO link, and exstack2_proceed() returns 0 only when
\* nothing is left to pop and nothing can come (doc of exstack2_proceed).
LinksEx2 == INSTANCE FifoLinks WITH
  PE <- Thread, Live <- Thread, sent <- items_pushed, got <- items_popped,
  closed <- done, drained <- all_done, round <- ex_round
LinksSpecEx2 == LinksEx2!Spec

\* Every PE leaves every round.
Termination == <>(\A p \in Thread : all_done[p] /\ ex_round[p] = ExRounds)
=============================================================================
