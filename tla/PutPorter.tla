------------------------------ MODULE PutPorter ------------------------------
(***************************************************************************)
(* The porter: the object that moves buffers of items between the PEs of   *)
(* one communication group (convey/porter.c), over one-sided SHMEM puts    *)
(* (convey/putport.c).  Every PE of the group runs the same code.  For     *)
(* each destination it fills, closes, sends and recycles a ring of         *)
(* Multiplicity send buffers; for each source it borrows, consumes and     *)
(* acknowledges the buffers that land in a ring of receive buffers.        *)
(*                                                                         *)
(* The memory of a PE is written by its peers: a put is in flight (puts,   *)
(* signals, acks) until it reaches its target by an action of its own, in  *)
(* any order that shmem_fence and shmem_quiet leave open.  Buffer number n *)
(* of a link is the one sent when channel->emitted was n.                  *)
(*                                                                         *)
(* An item is its index among the items its source has pushed to its       *)
(* destination in the current round.  Sizes in bytes, tags and statistics  *)
(* are left out; a buffer is the sequence of the items it holds.           *)
(***************************************************************************)
EXTENDS Integers, Sequences, FiniteSets

CONSTANTS
  N,             \* porter->n_ranks, the size of the group
  Live,          \* the ranks whose relative PE number is not negative
  Multiplicity,  \* 1 << porter->abundance, buffers per link
  BufItems,      \* packets that fit between buffer->data and the area limit
  Nonblocking,   \* nonblock_methods (TRUE) or standard_methods (FALSE)
  Steady,        \* is porter->waiting allocated (convey_opt_PROGRESS)?
  Elastic,       \* does the client use porter_epush instead of porter_push?
  Quota,         \* Quota[p][d]: bound on the items p pushes to d in a round
  MaxRounds      \* bound on the setup .. reset rounds

Rank     == 0 .. N-1
Level    == 0 .. Multiplicity-1
Patience == 2            \* PATIENCE
None     == N            \* no buffer is borrowed

ASSUME NAssumption == N \in Nat \ {0} /\ Live \subseteq Rank
ASSUME MultiplicityAssumption == Multiplicity \in Nat \ {0}
ASSUME BufItemsAssumption == BufItems \in Nat \ {0}
ASSUME OptionAssumption ==
         Nonblocking \in BOOLEAN /\ Steady \in BOOLEAN /\ Elastic \in BOOLEAN
ASSUME BoundAssumption ==
         Quota \in [Rank -> [Rank -> Nat]] /\ MaxRounds \in Nat

VARIABLES
  chan,       \* chan[p][d]: the sender's side of the link from p to d
  consumed,   \* consumed[p][d][l]: written by d, read by p
  recvbuf,    \* recvbuf[r][s][l]: written by s, read by r
  received,   \* received[r][s]: written by s, read by r
  disposed,   \* disposed[r][s]: buffers from s that r has used up
  drained,
  pending,    \* the listed sources that this pass has still to visit
  stuck,      \* the sources that this pass has visited and left with items
  taken,      \* the source of the borrowed buffer, or None
  n_urgent, phase, endgame, flushed,
  pc, todo,   \* where porter_advance stands: its loop, the ranks to visit
  done,       \* the argument the client passes to porter_advance from now on
  stage, round,   \* where the PE stands between setup and reset
  puts,       \* puts[p][d]: buffers on their way from p to d
  signals,    \* signals[p][d]: values for received[d][p] on their way
  acks,       \* acks[d][p]: values for consumed[p][d] on their way
  pushed,     \* pushed[p][d]: how many items p has pushed to d in this round
  got         \* got[d][p]: the items d has taken from p in this round

wires    == <<puts, signals, acks>>
receiver == <<recvbuf, received, disposed, drained, pending, stuck, taken>>
control  == <<phase, endgame, flushed, pc, todo>>
history  == <<pushed, got>>
cycle    == <<stage, round, done>>
vars     == <<chan, consumed, receiver, n_urgent, control, cycle, wires,
              history>>

-----------------------------------------------------------------------------
(* A channel: channel_t, its area_t, its send buffers, waiting, all_sent    *)
(* and the signal a nonblocking porter owes (0 if none), for one link.      *)

NewChannel(d) ==
  [bufs |-> [l \in Level |-> <<>>], open |-> TRUE, fill |-> 0,
   produced |-> 0, emitted |-> 0, delivered |-> 0, urgent |-> 0,
   waiting |-> 0, inflight |-> 0, all_sent |-> d \notin Live]

\* MUTANT: a rank that stands for no PE is awaited like the others.
AwaitAll(s) == 0

\* received[s] at first: a rank that stands for no PE has sent its last signal.
FirstReceived(s) == IF s \in Live THEN 0 ELSE 1

EmptyBuf == [start |-> 0, items |-> <<>>]

LevelOf(n) == n % Multiplicity

\* The next packet is written at area->next.
Written(c, item) ==
  [c EXCEPT !.bufs[LevelOf(c.produced)] = Append(SubSeq(@, 1, c.fill), item),
            !.fill = @ + 1]

Closed(c) ==
  [c EXCEPT !.bufs[LevelOf(c.produced)] = SubSeq(@, 1, c.fill),
            !.open = FALSE, !.fill = 0, !.produced = @ + 1]

\* An opened buffer still holds what was last sent from it.
Opened(c) == [c EXCEPT !.open = TRUE, !.fill = 0]

\* porter_record_delivery(): delivery up to v; does it deliver a ticket?
Recorded(c, v) == [c EXCEPT !.delivered = v, !.waiting = 0]

\* MUTANT: a delivery after the ticket counts as that of the ticket.
CrossesAgain(c, v) == c.urgent > 0 /\ v >= c.urgent

Crosses(c, v) == c.delivered < c.urgent /\ v >= c.urgent

\* MUTANT: a level can be reused one generation early.
ReadyEarly(p, d, n) == consumed[p][d][LevelOf(n)] + 1 >= n \div Multiplicity

\* Has the buffer that last used this level been consumed?
ready(p, d, n) == consumed[p][d][LevelOf(n)] >= n \div Multiplicity

\* Twice the number of nonempty buffers so far, plus one if this is the last.
SignalFor(n, items, last) ==
  2 * n + (IF last THEN 1 ELSE 0) + (IF items # <<>> THEN 2 ELSE 0)

\* Has every put that PE p issued reached its target?
Quiet(p) == \A q \in Rank : puts[p][q] = {} /\ signals[p][q] = {}
                            /\ acks[p][q] = {}

\* MUTANT: no shmem_quiet() before deliveries are recorded.
NotQuieted(p, force) == TRUE

\* shmem_quiet() returns when every put of PE p has reached its target.
Quieted(p, force) == force => Quiet(p)

-----------------------------------------------------------------------------
Init ==
  /\ chan      = [p \in Rank |-> [d \in Rank |-> NewChannel(d)]]
  /\ consumed  = [p \in Rank |-> [d \in Rank |-> [l \in Level |-> 0]]]
  /\ recvbuf   = [p \in Rank |-> [s \in Rank |-> [l \in Level |-> EmptyBuf]]]
  /\ received  = [p \in Rank |-> [s \in Rank |-> FirstReceived(s)]]
  /\ disposed  = [p \in Rank |-> [s \in Rank |-> 0]]
  /\ drained   = [p \in Rank |-> FALSE]
  /\ pending   = [p \in Rank |-> {}]
  /\ stuck     = [p \in Rank |-> {}]
  /\ taken     = [p \in Rank |-> None]
  /\ n_urgent  = [p \in Rank |-> 0]
  /\ phase     = [p \in Rank |-> p]
  /\ endgame   = [p \in Rank |-> FALSE]
  /\ flushed   = [p \in Rank |-> FALSE]
  /\ pc        = [p \in Rank |-> "idle"]
  /\ todo      = [p \in Rank |-> {}]
  /\ done      = [p \in Rank |-> FALSE]
  /\ stage     = [p \in Rank |-> "working"]
  /\ round     = [p \in Rank |-> 1]
  /\ puts      = [p \in Rank |-> [d \in Rank |-> {}]]
  /\ signals   = [p \in Rank |-> [d \in Rank |-> {}]]
  /\ acks      = [p \in Rank |-> [s \in Rank |-> {}]]
  /\ pushed    = [p \in Rank |-> [d \in Rank |-> 0]]
  /\ got       = [p \in Rank |-> [s \in Rank |-> <<>>]]

-----------------------------------------------------------------------------
(* Sending.  The operators below work on C, the channels of one PE as the   *)
(* assignments made earlier in the same call have left them.                *)

\* MUTANT: patience is not consulted.
MustForceImpatient(c) ==
  Nonblocking /\ (c.emitted > c.delivered + (Multiplicity - 1) \div 2
                  \/ c.urgent > c.delivered)

\* The test at the head of nonblock_progress(dest): half of the buffers have
\* been emitted, a ticket is undelivered, or patience is exhausted.
MustForce(c) ==
  /\ Nonblocking
  /\ \/ c.emitted > c.delivered + (Multiplicity - 1) \div 2
     \/ c.urgent > c.delivered
     \/ Steady /\ c.waiting >= Patience

\* nonblock_progress(): after shmem_quiet() every buffer that was emitted is
\* delivered, and every signal that is owed is sent.
Owed(C, force) == {d \in Rank : force /\ C[d].inflight # 0}
Progressed(C, force) ==
  [d \in Rank |-> IF d \in Owed(C, force)
                  THEN [Recorded(C[d], C[d].emitted) EXCEPT !.inflight = 0]
                  ELSE C[d]]
Crossings(C, force) ==
  Cardinality({d \in Owed(C, force) : Crosses(C[d], C[d].emitted)})
OwedSignals(p, C, force) ==
  [d \in Rank |->
     signals[p][d] \cup (IF d \in Owed(C, force)
                         THEN {[n |-> C[d].emitted-1, value |-> C[d].inflight]}
                         ELSE {})]

\* The puts that sending the buffers up to e-1 issues.  A blocking put has
\* read its buffer when it returns, one by shmem_putmem_nbi() may read it
\* until the next shmem_quiet(): its items are those of the send buffer.
DataPuts(c, e) ==
  {[n |-> n, items |-> IF Nonblocking THEN <<>> ELSE c.bufs[LevelOf(n)]] :
     n \in {k \in c.emitted .. e-1 : c.bufs[LevelOf(k)] # <<>>}}
SignalPuts(c, e, final) ==
  IF Nonblocking THEN {} ELSE
  {[n |-> n, value |-> SignalFor(n, c.bufs[LevelOf(n)], final /\ n = e-1)] :
     n \in c.emitted .. e-1}

\* The channel when buffers up to e-1 have been sent: a blocking send records
\* its delivery, a nonblocking one only notes the signal it owes.
Arrived(c, e) == IF Nonblocking THEN c.delivered
                 ELSE c.delivered + (e - c.emitted)
Sent(c, e, final) ==
  IF e = c.emitted THEN c
  ELSE LET s == IF Nonblocking
                THEN [c EXCEPT !.inflight =
                        SignalFor(e-1, c.bufs[LevelOf(e-1)], final)]
                ELSE Recorded(c, Arrived(c, e))
       IN [s EXCEPT !.emitted = e]

\* MUTANT: a buffer is opened while all the others are undelivered.
OpensOneMore(p, c, final) ==
  /\ ~endgame[p] \/ (c.emitted = c.produced /\ ~final)
  /\ c.produced <= c.delivered + Multiplicity
  /\ ~c.open

\* Does porter_try_send() open a new buffer after its sends?  In the endgame
\* it does so only to have an empty buffer to mark as final.
Opens(p, c, final) ==
  /\ ~endgame[p] \/ (c.emitted = c.produced /\ ~final)
  /\ c.produced <= c.delivered + Multiplicity - 1
  /\ ~c.open

\* The assignments of porter_try_send() when progress() has forced delivery or
\* not and its loop sends the buffers up to e-1.
SendUpTo(p, d, C, nu, force, e) ==
  LET C1    == Progressed(C, force)
      c     == C1[d]
      final == endgame[p] /\ e = c.produced /\ e > c.emitted
      s     == [Sent(c, e, final) EXCEPT !.all_sent = @ \/ final]
  IN /\ chan' = [chan EXCEPT ![p] =
          [C1 EXCEPT ![d] = IF Opens(p, s, final) THEN Opened(s) ELSE s]]
     /\ puts' = [puts EXCEPT ![p][d] = @ \cup DataPuts(c, e)]
     /\ signals' = [signals EXCEPT ![p] =
          [OwedSignals(p, C, force) EXCEPT ![d] =
             @ \cup SignalPuts(c, e, final)]]
     /\ n_urgent' = [n_urgent EXCEPT ![p] =
          nu - Crossings(C, force)
             - (IF Crosses(c, Arrived(c, e)) THEN 1 ELSE 0)]

\* porter_try_send(dest), called when the channels of p are C and its urgent
\* links number nu.  Its result goes to all_sent: it is FALSE until the endgame,
\* and in the endgame porter_try_flush() is the only caller and stores it.
TrySend(p, d, C, nu) ==
  LET force == MustForce(C[d])
  IN /\ Quieted(p, force)
     /\ \E e \in C[d].emitted .. C[d].produced :
          /\ \A n \in C[d].emitted .. e-1 : ready(p, d, n)
          /\ e < C[d].produced => ~ready(p, d, e)
          /\ SendUpTo(p, d, C, nu, force, e)
  /\ UNCHANGED acks

\* progress(-1): a blocking porter has nothing to do.
ProgressAll(p) ==
  /\ Quieted(p, Nonblocking)
  /\ chan' = [chan EXCEPT ![p] = Progressed(@, Nonblocking)]
  /\ signals' = [signals EXCEPT ![p] = OwedSignals(p, chan[p], Nonblocking)]
  /\ n_urgent' = [n_urgent EXCEPT ![p] = @ - Crossings(chan[p], Nonblocking)]
  /\ UNCHANGED <<puts, acks>>

-----------------------------------------------------------------------------
(* porter_push and porter_epush.  The client has not finished and the call  *)
(* is not nested in porter_advance.                                         *)

MayPush(p, d) ==
  /\ p \in Live /\ d \in Live
  /\ stage[p] = "working" /\ pc[p] = "idle" /\ ~done[p]
  /\ pushed[p][d] < Quota[p][d]

Put(p, d) == Written(chan[p][d], pushed[p][d] + 1)

\* Room for the packet: it fills the buffer, or it does not.
PushRoom(p, d) ==
  /\ MayPush(p, d) /\ ~Elastic /\ chan[p][d].open
  /\ pushed' = [pushed EXCEPT ![p][d] = @ + 1]
  /\ IF chan[p][d].fill + 1 = BufItems
     THEN TrySend(p, d, [chan[p] EXCEPT ![d] = Closed(Put(p, d))], n_urgent[p])
     ELSE /\ chan' = [chan EXCEPT ![p][d] = Put(p, d)]
          /\ UNCHANGED <<n_urgent, wires>>
  /\ UNCHANGED <<consumed, receiver, control, cycle, got>>

Ticketed(c) == [c EXCEPT !.urgent = c.produced + 1]

\* porter_epush with room for the packet; a ticket is a packet that must be
\* delivered without waiting for others.  Packets differ in size, so any
\* packet may leave too little room for another one.
EPushRoom(p, d, ticket) ==
  /\ MayPush(p, d) /\ Elastic /\ chan[p][d].open
  /\ pushed' = [pushed EXCEPT ![p][d] = @ + 1]
  /\ \E full \in BOOLEAN :
       LET c  == chan[p][d]
           w  == IF ticket THEN Ticketed(Put(p, d)) ELSE Put(p, d)
           nu == n_urgent[p] + (IF ticket /\ c.urgent <= c.delivered
                                THEN 1 ELSE 0)
       IN /\ c.fill + 1 = BufItems => full
          /\ IF ticket \/ full
             THEN TrySend(p, d, [chan[p] EXCEPT ![d] = Closed(w)], nu)
             ELSE /\ chan' = [chan EXCEPT ![p][d] = w]
                  /\ UNCHANGED <<n_urgent, wires>>
  /\ UNCHANGED <<consumed, receiver, control, cycle, got>>

\* No room.  A fixed-size packet lacks room only when the buffer is closed; an
\* elastic one may also be too long for what is left, and closes the buffer.
PushNoRoom(p, d) ==
  /\ MayPush(p, d)
  /\ LET c == chan[p][d] IN
       \/ /\ ~c.open
          /\ TrySend(p, d, chan[p], n_urgent[p])
       \/ /\ Elastic /\ c.open /\ c.fill > 0
          /\ TrySend(p, d, [chan[p] EXCEPT ![d] = Closed(c)], n_urgent[p])
  /\ UNCHANGED <<consumed, receiver, control, cycle, history>>

-----------------------------------------------------------------------------
(* porter_advance(done), one action for each pass of its loops *)

\* The client has pushed its last item.
Finish(p) ==
  /\ p \in Live /\ stage[p] = "working" /\ pc[p] = "idle" /\ ~done[p]
  /\ done' = [done EXCEPT ![p] = TRUE]
  /\ UNCHANGED <<chan, consumed, receiver, n_urgent, control, stage, round,
                 wires, history>>

Unsent(p) == {d \in Rank : ~chan'[p][d].all_sent}

\* The assignment of endgame, and the test that leads to porter_try_flush().
EnterEndgame(p) ==
  /\ endgame' = [endgame EXCEPT ![p] = done[p]]
  /\ pc'   = [pc EXCEPT ![p] = IF done[p] THEN "flush" ELSE "idle"]
  /\ todo' = [todo EXCEPT ![p] = IF done[p] THEN Unsent(p) ELSE {}]

\* The test that leads to porter_try_urgent().
CheckUrgent(p) ==
  IF n_urgent'[p] > 0
  THEN /\ pc' = [pc EXCEPT ![p] = "urgent"]
       /\ todo' = [todo EXCEPT ![p] =
            {d \in Rank : chan'[p][d].urgent > chan'[p][d].emitted}]
       /\ UNCHANGED endgame
  ELSE EnterEndgame(p)

\* MUTANT: the cycle through the ranks runs one past the last of them.
NextPhaseUnbounded(i) == IF i < N THEN i + 1 ELSE 0

NextPhase(i) == IF i + 1 < N THEN i + 1 ELSE 0

\* porter_ensure_progress(d)
EnsureProgress(p, d) ==
  LET c       == chan[p][d]
      full    == c.produced > c.delivered
      partial == c.open /\ c.fill > 0
  IN IF c.waiting \in 1 .. Patience-1
     THEN /\ chan' = [chan EXCEPT ![p][d].waiting = @ + 1]
          /\ UNCHANGED <<n_urgent, wires>>
     ELSE IF c.waiting > 0
     THEN TrySend(p, d, [chan[p] EXCEPT ![d] =
                           IF ~full /\ partial THEN Closed(c) ELSE c],
                  n_urgent[p])
     ELSE /\ chan' = [chan EXCEPT ![p][d].waiting =
                        IF full \/ partial THEN 1 ELSE @]
          /\ UNCHANGED <<n_urgent, wires>>

StartAdvance(p) ==
  /\ p \in Live /\ stage[p] = "working" /\ pc[p] = "idle"
  /\ ~endgame[p]
  /\ IF Steady
     THEN /\ phase' = [phase EXCEPT ![p] = NextPhase(@)]
          /\ EnsureProgress(p, phase[p])
     ELSE UNCHANGED <<phase, chan, n_urgent, wires>>
  /\ CheckUrgent(p)
  /\ UNCHANGED <<consumed, receiver, cycle, flushed, history>>

UrgentSend(p) ==
  /\ pc[p] = "urgent" /\ todo[p] # {}
  /\ \E d \in todo[p] :
       /\ \A x \in todo[p] : d <= x
       /\ TrySend(p, d, chan[p], n_urgent[p])
       /\ todo' = [todo EXCEPT ![p] = @ \ {d}]
  /\ UNCHANGED <<consumed, receiver, phase, endgame, flushed, pc, cycle,
                 history>>

UrgentProgress(p) ==
  /\ pc[p] = "urgent" /\ todo[p] = {}
  /\ ProgressAll(p)
  /\ EnterEndgame(p)
  /\ UNCHANGED <<consumed, receiver, phase, flushed, cycle, history>>

\* A later call of porter_advance() in the endgame.
ResumeFlush(p) ==
  /\ p \in Live /\ stage[p] = "working" /\ pc[p] = "idle"
  /\ endgame[p] /\ ~flushed[p]
  /\ UNCHANGED chan
  /\ pc'   = [pc EXCEPT ![p] = "flush"]
  /\ todo' = [todo EXCEPT ![p] = Unsent(p)]
  /\ UNCHANGED <<consumed, receiver, n_urgent, phase, endgame, flushed, cycle,
                 wires, history>>

FlushSend(p) ==
  /\ pc[p] = "flush" /\ todo[p] # {}
  /\ \E d \in todo[p] :
       LET c == chan[p][d] IN
       /\ \A x \in todo[p] : d <= x
       /\ TrySend(p, d, [chan[p] EXCEPT ![d] =
                           IF c.open THEN Closed(c) ELSE c], n_urgent[p])
       /\ todo' = [todo EXCEPT ![p] = @ \ {d}]
  /\ UNCHANGED <<consumed, receiver, phase, endgame, flushed, pc, cycle,
                 history>>

FlushProgress(p) ==
  /\ pc[p] = "flush" /\ todo[p] = {}
  /\ ProgressAll(p)
  /\ flushed' = [flushed EXCEPT ![p] = Unsent(p) = {}]
  /\ pc' = [pc EXCEPT ![p] = "idle"]
  /\ UNCHANGED <<consumed, receiver, phase, endgame, todo, cycle, history>>

Advance(p) == StartAdvance(p) \/ UrgentSend(p) \/ UrgentProgress(p)
              \/ ResumeFlush(p) \/ FlushSend(p) \/ FlushProgress(p)

-----------------------------------------------------------------------------
(* Receiving: porter_borrow, the client's use of the buffer, porter_return *)

Idle(r) == r \in Live /\ stage[r] = "working" /\ pc[r] = "idle"

\* putp_scan_receipts(): the sources not listed yet that have a buffer here.
Fresh(r) == {s \in Rank \ stuck[r] : received[r][s] \div 2 > disposed[r][s]}

IsDrained(r) == stuck[r] = {} /\ \A s \in Rank :
                  received[r][s] \div 2 <= disposed[r][s]
                  /\ received[r][s] % 2 = 1

Lend(r, list) ==
  IF list = {} THEN UNCHANGED taken
  ELSE \E s \in list : taken' = [taken EXCEPT ![r] = s]

\* porter_borrow(): the next source on the list, after a new scan when the list
\* is exhausted.  The order within the list is left open.
Borrow(r) ==
  /\ Idle(r) /\ taken[r] = None
  /\ IF pending[r] # {}
     THEN /\ Lend(r, pending[r])
          /\ UNCHANGED <<pending, stuck, drained>>
     ELSE /\ Lend(r, stuck[r] \cup Fresh(r))
          /\ pending' = [pending EXCEPT ![r] = stuck[r] \cup Fresh(r)]
          /\ stuck'   = [stuck EXCEPT ![r] = {}]
          /\ drained' = [drained EXCEPT ![r] = IsDrained(r)]
  /\ UNCHANGED <<chan, consumed, recvbuf, received, disposed, n_urgent,
                 control, cycle, wires, history>>

Borrowed(r) == recvbuf[r][taken[r]][LevelOf(disposed[r][taken[r]])]

\* The client takes the next item of the borrowed buffer.
Take(r) ==
  /\ Idle(r) /\ taken[r] # None
  /\ LET s == taken[r]
         b == Borrowed(r)
     IN /\ b.start < Len(b.items)
        /\ got' = [got EXCEPT ![r][s] = Append(@, b.items[b.start + 1])]
        /\ recvbuf' = [recvbuf EXCEPT
                         ![r][s][LevelOf(disposed[r][s])].start = @ + 1]
  /\ UNCHANGED <<chan, consumed, received, disposed, drained, pending, stuck,
                 taken, n_urgent, control, cycle, wires, pushed>>

\* MUTANT: the partly used buffer is disposed of.
UsedUpAnyway(b) == TRUE

UsedUp(b) == b.start >= Len(b.items)

\* Level n % Multiplicity has now been consumed n \div Multiplicity + 1 times.
AckFor(n) == [level |-> LevelOf(n), value |-> n \div Multiplicity + 1]

\* porter_return(): a buffer that is used up is disposed of and acknowledged;
\* one that is not goes back to be visited in the next pass.
Return(r) ==
  /\ Idle(r) /\ taken[r] # None
  /\ LET s == taken[r]
         b == Borrowed(r)
         n == disposed[r][s]
     IN /\ pending' = [pending EXCEPT ![r] = @ \ {s}]
        /\ IF UsedUp(b)
           THEN /\ disposed' = [disposed EXCEPT ![r][s] = @ + 1]
                /\ acks' = [acks EXCEPT ![r][s] = @ \cup {AckFor(n)}]
                /\ UNCHANGED stuck
           ELSE /\ stuck' = [stuck EXCEPT ![r] = @ \cup {s}]
                /\ UNCHANGED <<disposed, acks>>
  /\ taken' = [taken EXCEPT ![r] = None]
  /\ UNCHANGED <<chan, consumed, recvbuf, received, drained, n_urgent, control,
                 cycle, puts, signals, history>>

-----------------------------------------------------------------------------
(* Puts reach their targets.  The fence before the signal of buffer n       *)
(* orders buffers 0 .. n and their earlier signals before that signal and   *)
(* before buffers n+1 on; a put that follows a quiet follows everything.    *)

DataMayArrive(p, d, n) ==
  \/ Nonblocking
  \/ /\ \A x \in puts[p][d] : n <= x.n
     /\ \A x \in signals[p][d] : n <= x.n + 1

\* MUTANT: no shmem_fence() before the signal.
SignalUnfenced(p, d, n) == TRUE

SignalMayArrive(p, d, n) ==
  \/ Nonblocking
  \/ /\ \A x \in puts[p][d] : n < x.n
     /\ \A x \in signals[p][d] : n <= x.n

DeliverData(p, d) ==
  /\ \E m \in puts[p][d] :
       /\ DataMayArrive(p, d, m.n)
       /\ puts' = [puts EXCEPT ![p][d] = @ \ {m}]
       /\ recvbuf' = [recvbuf EXCEPT ![d][p][LevelOf(m.n)] =
            [start |-> 0,
             items |-> IF Nonblocking THEN chan[p][d].bufs[LevelOf(m.n)]
                       ELSE m.items]]
  /\ UNCHANGED <<chan, consumed, received, disposed, drained, pending, stuck,
                 taken, n_urgent, control, cycle, signals, acks, history>>

DeliverSignal(p, d) ==
  /\ \E m \in signals[p][d] :
       /\ SignalMayArrive(p, d, m.n)
       /\ signals' = [signals EXCEPT ![p][d] = @ \ {m}]
       /\ received' = [received EXCEPT ![d][p] = m.value]
  /\ UNCHANGED <<chan, consumed, recvbuf, disposed, drained, pending, stuck,
                 taken, n_urgent, control, cycle, puts, acks, history>>

DeliverAck(d, p) ==
  /\ \E a \in acks[d][p] :
       /\ acks' = [acks EXCEPT ![d][p] = @ \ {a}]
       /\ consumed' = [consumed EXCEPT ![p][d][a.level] = a.value]
  /\ UNCHANGED <<chan, receiver, n_urgent, control, cycle, puts, signals,
                 history>>

-----------------------------------------------------------------------------
(* porter_reset and porter_setup *)

Complete(p) == flushed[p] /\ drained[p]

\* The client resets a porter for which porter_advance() has returned false.
EnterReset(p) ==
  /\ Idle(p) /\ Complete(p)
  /\ stage' = [stage EXCEPT ![p] = "resetting"]
  /\ UNCHANGED <<chan, consumed, receiver, n_urgent, control, round, done,
                 wires, history>>

AllAt(s) == \A p \in Live : stage[p] = s

\* MUTANT: a barrier that does not wait for the puts.
BarrierNotQuiet == AllAt("resetting")

BarrierMet == AllAt("resetting") /\ \A p \in Live : Quiet(p)

\* mpp_barrier() in putp_reset(): shmem_barrier_all() waits for all the PEs and
\* for all their puts.
ResetBarrier ==
  /\ BarrierMet
  /\ stage' = [p \in Rank |-> "dormant"]
  /\ UNCHANGED <<chan, consumed, receiver, n_urgent, control, round, done,
                 wires, history>>

\* putp_setup(), and the assignments of porter_setup() that follow the
\* reduction but that no other PE can see.
Setup(p) ==
  /\ p \in Live /\ stage[p] = "dormant" /\ round[p] < MaxRounds
  /\ chan'     = [chan EXCEPT ![p] = [d \in Rank |-> NewChannel(d)]]
  /\ consumed' = [consumed EXCEPT ![p] = [d \in Rank |-> [l \in Level |-> 0]]]
  /\ received' = [received EXCEPT ![p] = [s \in Rank |-> FirstReceived(s)]]
  /\ disposed' = [disposed EXCEPT ![p] = [s \in Rank |-> 0]]
  /\ drained'  = [drained EXCEPT ![p] = FALSE]
  /\ pending'  = [pending EXCEPT ![p] = {}]
  /\ stuck'    = [stuck EXCEPT ![p] = {}]
  /\ taken'    = [taken EXCEPT ![p] = None]
  /\ n_urgent' = [n_urgent EXCEPT ![p] = 0]
  /\ phase'    = [phase EXCEPT ![p] = p]
  /\ endgame'  = [endgame EXCEPT ![p] = FALSE]
  /\ flushed'  = [flushed EXCEPT ![p] = FALSE]
  /\ done'     = [done EXCEPT ![p] = FALSE]
  /\ stage'    = [stage EXCEPT ![p] = "set"]
  /\ round'    = [round EXCEPT ![p] = @ + 1]
  /\ pushed'   = [pushed EXCEPT ![p] = [d \in Rank |-> 0]]
  /\ got'      = [got EXCEPT ![p] = [s \in Rank |-> <<>>]]
  /\ UNCHANGED <<recvbuf, pc, todo, wires>>

\* mpp_and_long() in porter_setup()
SetupReduction ==
  /\ AllAt("set")
  /\ stage' = [p \in Rank |-> "working"]
  /\ UNCHANGED <<chan, consumed, receiver, n_urgent, control, round, done,
                 wires, history>>

Finished ==
  /\ AllAt("dormant") /\ \A p \in Live : round[p] = MaxRounds
  /\ UNCHANGED vars

-----------------------------------------------------------------------------
Push(p, d) == \/ PushRoom(p, d)
              \/ \E ticket \in BOOLEAN : EPushRoom(p, d, ticket)
              \/ PushNoRoom(p, d)

Pull(r) == Borrow(r) \/ Take(r) \/ Return(r)

Network(p, d) == DeliverData(p, d) \/ DeliverSignal(p, d) \/ DeliverAck(p, d)

Cycle(p) == EnterReset(p) \/ Setup(p)

Next ==
  \/ \E p, d \in Rank : Push(p, d) \/ Network(p, d)
  \/ \E p \in Rank : Finish(p) \/ Advance(p) \/ Pull(p) \/ Cycle(p)
  \/ ResetBarrier \/ SetupReduction \/ Finished

Spec == Init /\ [][Next]_vars

\* The network delivers, a PE in porter_advance keeps running, and a client
\* advances and pulls in turn until it is complete, as the loops of convey.h
\* do.  It may return a buffer it has not used up, but not for ever.
Fairness ==
  /\ WF_vars(\E p, d \in Live : Network(p, d))
  /\ \A p \in Live : /\ WF_vars(Advance(p))
                     /\ SF_vars(Borrow(p) \/ Return(p))
                     /\ SF_vars(Take(p))
LiveSpec == Spec /\ Fairness

\* As above, for clients that sooner or later finish and reset.
Closing == \A p \in Live : SF_vars(Finish(p)) /\ WF_vars(Cycle(p))
ClosingSpec == LiveSpec /\ Closing /\ WF_vars(ResetBarrier)
                        /\ WF_vars(SetupReduction)

-----------------------------------------------------------------------------
(* Properties *)

Channel ==
  [bufs : [Level -> Seq(Nat)], open : BOOLEAN, fill : Nat, produced : Nat,
   emitted : Nat, delivered : Nat, urgent : Nat, waiting : 0 .. Patience,
   inflight : Nat, all_sent : BOOLEAN]
Stages == {"working", "resetting", "dormant", "set"}

\* Every variable has its type.
TypeOK ==
  /\ chan \in [Rank -> [Rank -> Channel]]
  /\ consumed \in [Rank -> [Rank -> [Level -> Nat]]]
  /\ recvbuf \in [Rank -> [Rank ->
                    [Level -> [start : Nat, items : Seq(Nat)]]]]
  /\ received \in [Rank -> [Rank -> Nat]]
  /\ disposed \in [Rank -> [Rank -> Nat]]
  /\ drained \in [Rank -> BOOLEAN]
  /\ pending \in [Rank -> SUBSET Rank]
  /\ stuck \in [Rank -> SUBSET Rank]
  /\ taken \in [Rank -> Rank \cup {None}]
  /\ n_urgent \in [Rank -> Int]
  /\ phase \in [Rank -> Rank]
  /\ endgame \in [Rank -> BOOLEAN]
  /\ flushed \in [Rank -> BOOLEAN]
  /\ pc \in [Rank -> {"idle", "urgent", "flush"}]
  /\ todo \in [Rank -> SUBSET Rank]
  /\ done \in [Rank -> BOOLEAN]
  /\ stage \in [Rank -> Stages]
  /\ round \in [Rank -> Nat]
  /\ puts \in [Rank -> [Rank -> SUBSET [n : Nat, items : Seq(Nat)]]]
  /\ signals \in [Rank -> [Rank -> SUBSET [n : Nat, value : Nat]]]
  /\ acks \in [Rank -> [Rank -> SUBSET [level : Level, value : Nat]]]
  /\ pushed \in [Rank -> [Rank -> Nat]]
  /\ got \in [Rank -> [Rank -> Seq(Nat)]]

\* "By definition, produced >= emitted >= delivered" (porter_impl.h), and the
\* ring of send buffers is never overrun: a buffer is opened only when the last
\* buffer sent from it has been delivered.
ChannelOrder == \A p, d \in Rank : LET c == chan[p][d] IN
  /\ c.produced >= c.emitted /\ c.emitted >= c.delivered
  /\ c.produced <= c.delivered + Multiplicity
  /\ c.open => c.produced < c.delivered + Multiplicity

\* Neither of two PEs has begun the next round, or both have.
SameRound(p, d) == (stage[p] = "set") <=> (stage[d] = "set")

\* Flow control: the buffers a PE has begun to send and the receiver has not
\* disposed of fit in the receiver's ring, with acknowledgements that travel
\* in any order.
RingNotOverrun == \A p, d \in Live : SameRound(p, d) =>
    chan[p][d].emitted <= disposed[d][p] + Multiplicity

\* Acknowledgements are not ordered among themselves: two for the same level
\* of a link are never in flight together, so none can undo a later one.
AcksDistinct == \A d, p \in Rank : \A a, b \in acks[d][p] :
  a.level = b.level => a = b

\* What keeps a put from landing on a buffer that is not yet consumed: the
\* sender's counts of what was acknowledged never run ahead, nor fall back.
FlowControl == RingNotOverrun /\ AcksDistinct

\* A nonblocking put may still be reading its send buffer: that buffer is never
\* the one that porter_push() is filling.
SourceStable == Nonblocking => \A p, d \in Rank : \A m \in puts[p][d] :
  chan[p][d].open => LevelOf(m.n) # LevelOf(chan[p][d].produced)

\* A PE whose porter reports that it is drained has taken every item that was
\* ever pushed to it, and no source can push another one.
DrainedIsFinal == \A r \in Rank : (drained[r] /\ stage[r] = "working") =>
  \A s \in Live : done[s] /\ Len(got[r][s]) = pushed[s][r]

\* n_urgent counts the links with an undelivered ticket, so that
\* porter_advance() knows when it may skip porter_try_urgent().
UrgentCount == \A p \in Live :
  n_urgent[p] = Cardinality({d \in Rank :
                               chan[p][d].urgent > chan[p][d].delivered})

\* Nothing is on its way to a PE that is not between setup and reset: what it
\* zeroes in putp_setup() stays zero until the next round.
NoStaleTraffic == \A p, d \in Live : stage[d] \in {"dormant", "set"} =>
  puts[p][d] = {} /\ signals[p][d] = {} /\ acks[p][d] = {}

\* A round ends for a PE when nothing of it is left anywhere.
RoundsApart == NoStaleTraffic /\ DrainedIsFinal

\* The group keeps the promises of FifoLinks, whatever its options.
Links == INSTANCE FifoLinks WITH PE <- Rank, sent <- pushed, closed <- done
LinksSpec == Links!Spec

\* When every client finishes, every PE completes every round and the group
\* comes to rest after the last.
Termination == <>(AllAt("dormant") /\ \A p \in Live : round[p] = MaxRounds)

\* convey_opt_PROGRESS: an item is taken even if its source neither finishes
\* nor pushes again.
SteadyDelivery == []<>(\A p, d \in Rank : Len(got[d][p]) = pushed[p][d])

=============================================================================
