------------------------------- MODULE Exstack -------------------------------
(***************************************************************************)
(* Exstack (exstack/exstack.upc): bulk-synchronous aggregation.  All PEs   *)
(* run the same loop                                                       *)
(*                                                                         *)
(*   while (exstack_proceed(ex, done)) {                                   *)
(*     push until a buffer is full;  exstack_exchange(ex);                 *)
(*     pop until nothing is left;                                          *)
(*     [ lgp_barrier(); exstack_exchange(ex); pop until nothing is left ]  *)
(*   }                                                                     *)
(*                                                                         *)
(* and the bracketed half is there when what is popped is answered         *)
(* (spmat/spmat_exstack.upc).  Each PE stands somewhere in the loop; the   *)
(* PEs meet only in barriers.  An item is its index among the items its    *)
(* source has pushed to its destination in the round.                      *)
(***************************************************************************)
EXTENDS Integers, Sequences

CONSTANTS
  THREADS,    \* the number of PEs, which UPC calls threads
  BufCnt,     \* buf_cnt, packages per buffer
  Answers,    \* is the bracketed half of the loop there?
  ExQuota,    \* ExQuota[p][d]: bound on the items p pushes to d in a round
  MaxUnpops,  \* bound on the calls of exstack_unpop by a PE in a round
  ExRounds    \* bound on the rounds that exstack_reset separates

Thread == 0 .. THREADS-1
Slot   == 1 .. BufCnt
None   == THREADS

ASSUME ExNAssumption == THREADS \in Nat \ {0}
ASSUME ExBufCntAssumption == BufCnt \in Nat \ {0}
ASSUME ExBoundAssumption ==
         /\ Answers \in BOOLEAN /\ ExQuota \in [Thread -> [Thread -> Nat]]
         /\ MaxUnpops \in Nat /\ ExRounds \in Nat

VARIABLES
  snd,           \* l_snd_buf[d]: the packages to d
  rcv,           \* l_rcv_buf[s]->data, by slot
  count,         \* l_rcv_buf[s]->count
  fifo,          \* fifo_ptr[s]: how many slots have been read
  first_ne_rcv,
  wait_done, notify_done,
  stage, second, \* where the PE stands, and in which half of the loop
  todo,          \* the PEs to which exstack_exchange has yet to put
  puts, flags,   \* puts of buffers, and of wait_done, on their way
  popped,        \* from whom the last call popped, or None
  unpops, items_pushed, items_popped, ex_round

rcving  == <<rcv, count, fifo, first_ne_rcv>>
endgame == <<wait_done, notify_done, flags>>
client  == <<popped, unpops, items_pushed, items_popped>>
exvars  == <<snd, rcving, endgame, stage, second, todo, puts, client, ex_round>>

InitEx ==
  /\ snd          = [p \in Thread |-> [d \in Thread |-> <<>>]]
  /\ rcv          = [p \in Thread |-> [s \in Thread |-> [i \in Slot |-> 0]]]
  /\ count        = [p \in Thread |-> [s \in Thread |-> 0]]
  /\ fifo         = [p \in Thread |-> [s \in Thread |-> 0]]
  /\ first_ne_rcv = [p \in Thread |-> 0]
  /\ wait_done    = [p \in Thread |-> [s \in Thread |-> 0]]
  /\ notify_done  = [p \in Thread |-> 0]
  /\ stage        = [p \in Thread |-> "loop"]
  /\ second       = [p \in Thread |-> FALSE]
  /\ todo         = [p \in Thread |-> {}]
  /\ puts         = {}
  /\ flags        = {}
  /\ popped       = [p \in Thread |-> None]
  /\ unpops       = [p \in Thread |-> 0]
  /\ items_pushed = [p \in Thread |-> [d \in Thread |-> 0]]
  /\ items_popped = [p \in Thread |-> [s \in Thread |-> <<>>]]
  /\ ex_round     = [p \in Thread |-> 1]

Goto(p, s) == stage' = [stage EXCEPT ![p] = s]

-----------------------------------------------------------------------------
(* Barriers.  A barrier also completes every put its callers have made.    *)

Passed == [proceed |-> "decide", exchange |-> "clear", cleared |-> "point",
           between |-> "exchange_start", reset |-> "loop"]

Barrier(b) ==
  /\ \A p \in Thread : stage[p] = b
  /\ puts   = {} /\ flags = {}
  /\ stage' = [p \in Thread |-> Passed[b]]
  /\ UNCHANGED <<snd, rcving, endgame, second, todo, puts, client, ex_round>>

LandPut ==
  /\ \E m \in puts :
       /\ rcv' = [rcv EXCEPT ![m.to][m.from] =
                    m.pkgs \o SubSeq(@, Len(m.pkgs) + 1, BufCnt)]
       /\ count' = [count EXCEPT ![m.to][m.from] = Len(m.pkgs)]
       /\ puts' = puts \ {m}
  /\ UNCHANGED <<snd, fifo, first_ne_rcv, endgame, stage, second, todo, client,
                 ex_round>>

LandFlag ==
  /\ \E f \in flags : /\ wait_done' = [wait_done EXCEPT ![f.to][f.from] = 1]
                      /\ flags' = flags \ {f}
  /\ UNCHANGED <<snd, rcving, notify_done, stage, second, todo, puts, client,
                 ex_round>>

-----------------------------------------------------------------------------
(* exstack_proceed *)

\* MUTANT: there is no barrier in exstack_proceed().
NotMeet(p) == Goto(p, "decide")

\* The PE waits in the barrier of exstack_proceed().
Meet(p) == Goto(p, "proceed")

\* The call up to its barrier, with im_done or without.
Proceed(p) ==
  /\ stage[p] = "loop"
  /\ \/ notify_done[p] = 0 /\ UNCHANGED <<notify_done, flags>>
     \/ /\ notify_done' = [notify_done EXCEPT ![p] = 1]
        /\ flags' = IF notify_done[p] = 1 THEN flags
                    ELSE flags \cup [from : {p}, to : Thread]
  /\ Meet(p)
  /\ UNCHANGED <<snd, rcving, wait_done, second, todo, puts, client, ex_round>>

EveryoneDone(p) == \A s \in Thread : wait_done[p][s] = 1

Breakout(p) == notify_done[p] = 1 /\ EveryoneDone(p)

Decide(p) ==
  /\ stage[p] = "decide"
  /\ Goto(p, IF Breakout(p) THEN "left" ELSE "push")
  /\ second' = [second EXCEPT ![p] = FALSE]
  /\ UNCHANGED <<snd, rcving, endgame, todo, puts, client, ex_round>>

-----------------------------------------------------------------------------
(* exstack_push and exstack_exchange *)

\* New items are pushed by a PE that is not done, before the exchange, and
\* answers while it pops in the first half.
MayPush(p) == \/ stage[p] = "push" /\ notify_done[p] = 0
              \/ stage[p] = "pop" /\ Answers /\ ~second[p]

\* exstack_headroom
exstack_headroom(p, d) == BufCnt - Len(snd[p][d])

Room(p, d) == exstack_headroom(p, d) # 0

\* A push that finds no headroom changes nothing.
PushEx(p, d) ==
  /\ MayPush(p) /\ items_pushed[p][d] < ExQuota[p][d]
  /\ Room(p, d)
  /\ snd'          = [snd EXCEPT ![p][d] = Append(@, items_pushed[p][d] + 1)]
  /\ items_pushed' = [items_pushed EXCEPT ![p][d] = @ + 1]
  /\ popped'       = [popped EXCEPT ![p] = None]
  /\ UNCHANGED <<rcving, endgame, stage, second, todo, puts, unpops, items_popped, ex_round>>

StartExchange(p) ==
  /\ stage[p] \in {"push", "exchange_start"}
  /\ todo' = [todo EXCEPT ![p] = Thread]
  /\ Goto(p, "exchanging")
  /\ UNCHANGED <<snd, rcving, endgame, second, puts, client, ex_round>>

\* MUTANT: a full buffer is taken for an empty one.
NonFull(p, d) == Len(snd[p][d]) % BufCnt # 0

Nonempty(p, d) == snd[p][d] # <<>>

\* One pass of the loop over put_order.
PutOne(p) ==
  /\ stage[p] = "exchanging"
  /\ \E d \in todo[p] :
       /\ puts' = IF Nonempty(p, d)
                  THEN puts \cup {[from |-> p, to |-> d, pkgs |-> snd[p][d]]}
                  ELSE puts
       /\ todo' = [todo EXCEPT ![p] = @ \ {d}]
       /\ Goto(p, IF todo[p] = {d} THEN "exchange" ELSE "exchanging")
  /\ UNCHANGED <<snd, rcving, endgame, second, client, ex_round>>

\* Between the two barriers of exstack_exchange().
Clear(p) ==
  /\ stage[p] = "clear"
  /\ snd'          = [snd EXCEPT ![p] = [d \in Thread |-> <<>>]]
  /\ first_ne_rcv' = [first_ne_rcv EXCEPT ![p] = 0]
  /\ Goto(p, "cleared")
  /\ UNCHANGED <<rcv, count, fifo, endgame, second, todo, puts, client, ex_round>>

\* The read pointers, back at the start of every receive buffer.
Rewound(p) == [fifo EXCEPT ![p] = [s \in Thread |-> 0]]

Point(p) ==
  /\ stage[p] = "point"
  /\ fifo' = Rewound(p)
  /\ Goto(p, "pop")
  /\ UNCHANGED <<snd, rcv, count, first_ne_rcv, endgame, second, todo, puts,
                 client, ex_round>>

-----------------------------------------------------------------------------
(* exstack_pop, exstack_pull, exstack_pop_thread and their inverses *)

Take(p, s) ==
  /\ items_popped' = [items_popped EXCEPT ![p][s] = Append(@, rcv[p][s][fifo[p][s] + 1])]
  /\ fifo'         = [fifo EXCEPT ![p][s] = @ + 1]
  /\ count'        = [count EXCEPT ![p][s] = @ - 1]

GiveBack(p, s) ==
  /\ items_popped' = [items_popped EXCEPT ![p][s] = SubSeq(@, 1, Len(@) - 1)]
  /\ fifo'         = [fifo EXCEPT ![p][s] = @ - 1]
  /\ count'        = [count EXCEPT ![p][s] = @ + 1]

\* The senders from first_ne_rcv on that have something to pop.
Found(p) == {s \in Thread : s >= first_ne_rcv[p] /\ count[p][s] # 0}

Pop(p) ==
  /\ stage[p] = "pop"
  /\ \E s \in Found(p) :
       /\ \A t \in Found(p) : s <= t
       /\ Take(p, s)
       /\ first_ne_rcv' = [first_ne_rcv EXCEPT ![p] = s]
       /\ popped' = [popped EXCEPT ![p] = s]
  /\ UNCHANGED <<snd, rcv, endgame, stage, second, todo, puts, unpops, items_pushed,
                 ex_round>>

PopThread(p, s) ==
  /\ stage[p] = "pop" /\ count[p][s] # 0
  /\ Take(p, s)
  /\ popped' = [popped EXCEPT ![p] = s]
  /\ UNCHANGED <<snd, rcv, first_ne_rcv, endgame, stage, second, todo, puts,
                 unpops, items_pushed, ex_round>>

\* exstack_unpop_thread after a pop; exstack_unpop, which has s in
\* first_ne_rcv, is this after exstack_pop.
Unpop(p) ==
  /\ stage[p] = "pop" /\ popped[p] # None /\ unpops[p] < MaxUnpops
  /\ GiveBack(p, popped[p])
  /\ popped' = [popped EXCEPT ![p] = None]
  /\ unpops' = [unpops EXCEPT ![p] = @ + 1]
  /\ UNCHANGED <<snd, rcv, first_ne_rcv, endgame, stage, second, todo, puts,
                 items_pushed, ex_round>>

\* MUTANT: the client exchanges its answers without waiting.
NotBetween(p) == "exchange_start"

\* The client waits in lgp_barrier() before it exchanges its answers.
Between(p) == "between"

\* exstack_pop finds nothing: the loop goes on to its other half, or back.
PopNone(p) ==
  /\ stage[p] = "pop" /\ Found(p) = {}
  /\ first_ne_rcv' = [first_ne_rcv EXCEPT ![p] = 0]
  /\ fifo'         = Rewound(p)
  /\ popped'       = [popped EXCEPT ![p] = None]
  /\ second'       = [second EXCEPT ![p] = ~@ /\ Answers]
  /\ Goto(p, IF Answers /\ ~second[p] THEN Between(p) ELSE "loop")
  /\ UNCHANGED <<snd, rcv, count, endgame, todo, puts, unpops, items_pushed, items_popped,
                 ex_round>>

-----------------------------------------------------------------------------
(* exstack_reset *)

ResetEx(p) ==
  /\ stage[p] = "left" /\ ex_round[p] < ExRounds
  /\ snd'          = [snd EXCEPT ![p] = [d \in Thread |-> <<>>]]
  /\ count'        = [count EXCEPT ![p] = [s \in Thread |-> 0]]
  /\ fifo'         = Rewound(p)
  /\ first_ne_rcv' = [first_ne_rcv EXCEPT ![p] = 0]
  /\ wait_done'    = [wait_done EXCEPT ![p] = [s \in Thread |-> 0]]
  /\ notify_done'  = [notify_done EXCEPT ![p] = 0]
  /\ Goto(p, "reset")
  /\ ex_round'     = [ex_round EXCEPT ![p] = @ + 1]
  /\ unpops'       = [unpops EXCEPT ![p] = 0]
  /\ items_pushed' = [items_pushed EXCEPT ![p] = [d \in Thread |-> 0]]
  /\ items_popped' = [items_popped EXCEPT ![p] = [s \in Thread |-> <<>>]]
  /\ UNCHANGED <<rcv, flags, second, todo, puts, popped>>

FinishedEx ==
  /\ \A p \in Thread : stage[p] = "left" /\ ex_round[p] = ExRounds
  /\ UNCHANGED exvars

-----------------------------------------------------------------------------
Exchange(p) == StartExchange(p) \/ PutOne(p) \/ Clear(p) \/ Point(p)

NextEx ==
  \/ \E p \in Thread : \/ Proceed(p) \/ Decide(p) \/ Exchange(p) \/ ResetEx(p)
                       \/ Pop(p) \/ Unpop(p) \/ PopNone(p)
                       \/ \E q \in Thread : PushEx(p, q) \/ PopThread(p, q)
  \/ \E b \in DOMAIN Passed : Barrier(b)
  \/ LandPut \/ LandFlag \/ FinishedEx

SpecEx == InitEx /\ [][NextEx]_exvars

-----------------------------------------------------------------------------
(* Properties *)

\* Every variable has its type; the read pointer stays in its buffer.
TypeOKEx ==
  /\ snd \in [Thread -> [Thread -> Seq(Nat)]]
  /\ rcv \in [Thread -> [Thread -> [Slot -> Nat]]]
  /\ count \in [Thread -> [Thread -> 0 .. BufCnt]]
  /\ fifo \in [Thread -> [Thread -> 0 .. BufCnt]]
  /\ first_ne_rcv \in [Thread -> Thread]
  /\ wait_done \in [Thread -> [Thread -> {0, 1}]]
  /\ notify_done \in [Thread -> {0, 1}]
  /\ stage \in [Thread -> DOMAIN Passed \cup {Passed[b] : b \in DOMAIN Passed}
                      \cup {"push", "exchanging", "pop", "left"}]
  /\ second \in [Thread -> BOOLEAN]
  /\ todo \in [Thread -> SUBSET Thread]
  /\ puts \subseteq [from : Thread, to : Thread, pkgs : Seq(Nat)]
  /\ flags \subseteq [from : Thread, to : Thread]
  /\ popped \in [Thread -> Thread \cup {None}]
  /\ unpops \in [Thread -> Nat]
  /\ items_pushed \in [Thread -> [Thread -> Nat]]
  /\ items_popped \in [Thread -> [Thread -> Seq(Nat)]]
  /\ ex_round \in [Thread -> Nat]

\* Items are popped in the order they were pushed, none twice and none missed.
Fifo == \A d, s \in Thread : \A i \in DOMAIN items_popped[d][s] : items_popped[d][s][i] = i

\* What was pushed has been popped when the loop is left.
AllPopped ==
  \A p, q \in Thread : (stage[p] = "left" /\ stage[q] = "left") =>
                     Len(items_popped[q][p]) = items_pushed[p][q]

\* Every item is popped, once and in its order (exstack_pop, exstack_proceed).
Delivered == TypeOKEx /\ Fifo /\ AllPopped

\* A buffer lands only on a receive buffer that has been popped empty, although
\* its receiver may still be popping others when the put is made.
LandsOnEmpty == \A m \in puts : count[m.to][m.from] = 0

\* The PEs leave the loop together: none waits in a barrier for one that left.
LeaveTogether ==
  \A p, q \in Thread : (stage[p] = "left" /\ ex_round[p] = ex_round[q]) =>
                     stage[q] \in {"decide", "left"} /\ Breakout(q)
=============================================================================
