------------------------------ MODULE MpiPorter ------------------------------
(***************************************************************************)
(* The porter over MPI (convey/mpiport.c under convey/porter.c).  There    *)
(* are two send buffers per link and one receive buffer per source.  A     *)
(* buffer is sent by MPI_Isend and must be left alone until MPI_Test says  *)
(* that this is complete; a receive buffer is lent to the client once      *)
(* MPI_Testsome reports it, and given to MPI_Irecv again when it is used   *)
(* up.                                                                     *)
(*                                                                         *)
(* MPI is external: it reads a send buffer at some time after MPI_Isend,   *)
(* keeps the messages of a link in order, and puts each into the buffer of *)
(* the oldest receive posted for it.                                       *)
(*                                                                         *)
(* Of porter.c, tickets (porter_epush) and steady porters are left to      *)
(* PutPorter.  An item is its index among the items its source has pushed  *)
(* to its destination in the round.                                        *)
(***************************************************************************)
EXTENDS Integers, FiniteSetsExt, SequencesExt

CONSTANTS
  n_ranks,    \* porter->n_ranks
  Live,       \* the ranks whose relative PE number is not negative
  MpiBufItems,   \* packets that fit into a buffer
  MpiQuota,   \* MpiQuota[r][p][d]: the items p pushes to d in round r
  MpiRounds   \* bound on the setup .. reset rounds

Ranks  == 0 .. n_ranks-1
Level  == 0 .. 1    \* abundance is 1
NoRank == n_ranks

ASSUME GroupAssumption  == n_ranks \in Nat \ {0} /\ Live \subseteq Ranks
ASSUME MpiAssumption   == /\ MpiBufItems \in Nat \ {0} /\ MpiRounds \in Nat
                          /\ MpiQuota \in [1 .. MpiRounds -> [Ranks -> [Ranks -> Nat]]]

VARIABLES
  chan,      \* chan[p][d]: channel, send area, send buffers and send_req
  mail,      \* mail[p][d]: what MPI has read and not put into a buffer yet
  posts,     \* posts[d][p]: receives posted, oldest first; "lost" is one that
             \* recv_req no longer knows of
  arrived,   \* arrived[d]: the sources whose recv_req is complete
  inbuf,     \* inbuf[d][p]: the receive buffer
  pending,   \* the sources listed by the last MPI_Testsome, from i_pending on
  taken,     \* the source of the borrowed buffer, or NoRank
  finished,  \* finished[d]: the sources whose last message was seen
  mpi_endgame, flushed, drained,
  done,      \* the argument of porter_advance from now on
  mpi_stage, mpi_round, mpi_pushed, mpi_got   \* as in PutPorter

receiver == <<posts, arrived, inbuf, pending, taken, finished, drained>>
sender   == <<mpi_endgame, flushed, done>>
cycle    == <<mpi_stage, mpi_round>>
mpivars  == <<chan, mail, receiver, sender, cycle, mpi_pushed, mpi_got>>

EmptyBuf == [start |-> 0, items |-> <<>>]

NewChannel(d) ==
  [bufs |-> [l \in Level |-> EmptyBuf], open |-> TRUE, fill |-> 0,
   produced |-> 0, emitted |-> 0, delivered |-> 0, req |-> "null",
   all_sent |-> d \notin Live]

InitMpi ==
  /\ chan        = [p \in Ranks |-> [d \in Ranks |-> NewChannel(d)]]
  /\ mail        = [p \in Ranks |-> [d \in Ranks |-> <<>>]]
  /\ posts       = [d \in Ranks |-> [p \in Ranks |->
                      IF p \in Live THEN <<"live">> ELSE <<>>]]
  /\ arrived     = [d \in Ranks |-> {}]
  /\ inbuf       = [d \in Ranks |-> [p \in Ranks |-> EmptyBuf]]
  /\ pending     = [d \in Ranks |-> <<>>]
  /\ taken       = [d \in Ranks |-> NoRank]
  /\ finished    = [d \in Ranks |-> Ranks \ Live]
  /\ mpi_endgame = [p \in Ranks |-> FALSE]
  /\ flushed     = [p \in Ranks |-> FALSE]
  /\ drained     = [p \in Ranks |-> FALSE]
  /\ done        = [p \in Ranks |-> FALSE]
  /\ mpi_stage   = [p \in Ranks |-> "working"]
  /\ mpi_round   = [p \in Ranks |-> 1]
  /\ mpi_pushed  = [p \in Ranks |-> [d \in Ranks |-> 0]]
  /\ mpi_got     = [d \in Ranks |-> [s \in Ranks |-> <<>>]]

-----------------------------------------------------------------------------
(* Sending: operators on one channel *)

LevelOf(n) == n % 2

Written(c, item) ==
  [c EXCEPT !.bufs[LevelOf(c.produced)].items = Append(SubSeq(@, 1, c.fill), item),
            !.fill = @ + 1]

Closed(c) ==
  [c EXCEPT !.bufs[LevelOf(c.produced)] = [start |-> 0,
                                           items |-> SubSeq(@.items, 1, c.fill)],
            !.open = FALSE, !.fill = 0, !.produced = @ + 1]

\* mpiport_progress(dest)
Tested(c) == IF c.req = "sent"
             THEN [c EXCEPT !.req = "null", !.delivered = @ + 1] ELSE c

\* mpiport_ready(): there is one send_req for both buffers.
ready(c) == c.delivered >= c.emitted

Emits(c)      == c.emitted < c.produced /\ ready(c)
Final(end, c) == end /\ Emits(c) /\ c.emitted = c.produced - 1

\* mpiport_send(): buffer->start tells the receiver that this is the last one.
Emitted(end, c) ==
  IF Emits(c)
  THEN [c EXCEPT !.bufs[LevelOf(c.emitted)].start = IF Final(end, c) THEN 1 ELSE 0,
                 !.emitted = @ + 1, !.req = "active", !.all_sent = Final(end, c)]
  ELSE c

\* MUTANT: a buffer is opened as soon as it has been given to MPI.
OpensOnEmit(end, c, final) ==
  /\ ~end \/ (c.emitted = c.produced /\ ~final)
  /\ c.produced <= c.emitted + 1 /\ ~c.open

\* Does porter_try_send() open a buffer?
Opens(end, c, final) ==
  /\ ~end \/ (c.emitted = c.produced /\ ~final)
  /\ c.produced <= c.delivered + 1 /\ ~c.open

\* MUTANT: the last send is not tested first.
TrySendUntested(end, c) ==
  LET e == Emitted(end, c)
  IN [e EXCEPT !.open = @ \/ Opens(end, e, Final(end, c))]

\* porter_try_send(), in the endgame or not
TrySend(end, c) ==
  LET t == Tested(c)
      e == Emitted(end, t)
  IN [e EXCEPT !.open = @ \/ Opens(end, e, Final(end, t))]

-----------------------------------------------------------------------------
(* The client sends: porter_push and porter_advance *)

MayPushMpi(p, d) == /\ {p, d} \subseteq Live /\ mpi_stage[p] = "working" /\ ~done[p]
                    /\ mpi_pushed[p][d] < MpiQuota[mpi_round[p]][p][d]

PushRoom(p, d) ==
  LET w == Written(chan[p][d], mpi_pushed[p][d] + 1)
  IN /\ MayPushMpi(p, d) /\ chan[p][d].open
     /\ chan' = [chan EXCEPT ![p][d] =
          IF w.fill = MpiBufItems THEN TrySend(FALSE, Closed(w)) ELSE w]
     /\ mpi_pushed' = [mpi_pushed EXCEPT ![p][d] = @ + 1]
     /\ UNCHANGED <<mail, receiver, sender, cycle, mpi_got>>

PushNoRoom(p, d) ==
  /\ MayPushMpi(p, d) /\ ~chan[p][d].open
  /\ chan' = [chan EXCEPT ![p][d] = TrySend(FALSE, @)]
  /\ UNCHANGED <<mail, receiver, sender, cycle, mpi_pushed, mpi_got>>

AllDelivered(C) == \A d \in Ranks : C[d].all_sent /\ C[d].delivered = C[d].emitted

\* porter_advance(TRUE), for a client that has pushed its quota: porter_try_flush()
\* sends on every channel that is not all_sent, then mpiport_progress(-1) tests
\* them all.
Advance(p) ==
  LET Flush(c) == IF c.all_sent THEN c
                  ELSE TrySend(TRUE, IF c.open THEN Closed(c) ELSE c)
      C == [d \in Ranks |-> Tested(Flush(chan[p][d]))]
  IN /\ p \in Live /\ mpi_stage[p] = "working"
     /\ mpi_pushed[p] = MpiQuota[mpi_round[p]][p] /\ ~flushed[p]
     /\ done'        = [done EXCEPT ![p] = TRUE]
     /\ mpi_endgame' = [mpi_endgame EXCEPT ![p] = TRUE]
     /\ chan'        = [chan EXCEPT ![p] = C]
     /\ flushed'     = [flushed EXCEPT ![p] = AllDelivered(C)]
     /\ UNCHANGED <<mail, receiver, cycle, mpi_pushed, mpi_got>>

-----------------------------------------------------------------------------
(* MPI *)

\* It reads the buffer that was sent last, and the send is complete.
Read(p, d) ==
  LET c == chan[p][d]
  IN /\ c.req = "active"
     /\ mail' = [mail EXCEPT ![p][d] = Append(@, c.bufs[LevelOf(c.emitted - 1)])]
     /\ chan' = [chan EXCEPT ![p][d].req = "sent"]
     /\ UNCHANGED <<receiver, sender, cycle, mpi_pushed, mpi_got>>

Match(p, d) ==
  /\ mail[p][d] # <<>> /\ posts[d][p] # <<>>
  /\ inbuf'   = [inbuf EXCEPT ![d][p] = Head(mail[p][d])]
  /\ mail'    = [mail EXCEPT ![p][d] = Tail(@)]
  /\ posts'   = [posts EXCEPT ![d][p] = Tail(@)]
  /\ arrived' = [arrived EXCEPT ![d] = IF Head(posts[d][p]) = "live"
                                       THEN @ \cup {p} ELSE @]
  /\ UNCHANGED <<chan, pending, taken, finished, drained, sender, cycle,
                 mpi_pushed, mpi_got>>

-----------------------------------------------------------------------------
(* Receiving: mpiport_borrow, the use of the buffer, mpiport_return *)

Idle(d) == d \in Live /\ mpi_stage[d] = "working"

\* The messages reported by MPI_Testsome; the last one of a source may be empty.
LastOf(d)   == {p \in arrived[d] : inbuf[d][p].start = 1}
NonEmpty(d) == {p \in arrived[d] : inbuf[d][p].items # <<>>}

\* MUTANT: drained as soon as all sources are finished.
NoneActive(d, list) == finished'[d] = Ranks

NothingMore(d, list) == list = <<>> /\ finished'[d] = Ranks

\* MPI_Testsome lists the sources in any order.  Of the clients, one that nobody
\* pushes to looks only when all its messages are there.
Borrow(d) ==
  /\ Idle(d) /\ taken[d] = NoRank
  /\ (\A p \in Live : MpiQuota[mpi_round[d]][p][d] = 0)
       => arrived[d] \cup finished[d] = Ranks
  /\ \E list \in IF pending[d] # <<>> THEN {pending[d]}
                 ELSE SetToSeqs(NonEmpty(d)) :
       /\ pending' = [pending EXCEPT ![d] = list]
       /\ IF pending[d] # <<>> THEN UNCHANGED <<arrived, finished, inbuf>>
          ELSE /\ arrived'  = [arrived EXCEPT ![d] = {}]
               /\ finished' = [finished EXCEPT ![d] = @ \cup LastOf(d)]
               /\ inbuf'    = [inbuf EXCEPT ![d] =
                    [p \in Ranks |-> IF p \in LastOf(d) THEN [@[p] EXCEPT !.start = 0]
                                    ELSE @[p]]]
       /\ taken' = [taken EXCEPT ![d] = IF list = <<>> THEN NoRank ELSE Head(list)]
       /\ drained' = [drained EXCEPT ![d] = @ \/ NothingMore(d, list)]
  /\ UNCHANGED <<chan, mail, posts, sender, cycle, mpi_pushed, mpi_got>>

TakeMpi(d) ==
  LET p == taken[d] IN
  /\ Idle(d) /\ p # NoRank
  /\ inbuf[d][p].start < Len(inbuf[d][p].items)
  /\ mpi_got' = [mpi_got EXCEPT ![d][p] =
                   Append(@, inbuf[d][p].items[inbuf[d][p].start + 1])]
  /\ inbuf'   = [inbuf EXCEPT ![d][p].start = @ + 1]
  /\ UNCHANGED <<chan, mail, posts, arrived, pending, taken, finished, drained,
                 sender, cycle, mpi_pushed>>

Posts(d, p) == p \notin finished[d]

ReturnMpi(d) ==
  LET p == taken[d] IN
  /\ Idle(d) /\ p # NoRank
  /\ taken' = [taken EXCEPT ![d] = NoRank]
  /\ IF inbuf[d][p].start >= Len(inbuf[d][p].items)
     THEN /\ pending' = [pending EXCEPT ![d] = Tail(@)]
          /\ posts'   = [posts EXCEPT ![d][p] = IF Posts(d, p)
                                                THEN Append(@, "live") ELSE @]
     ELSE UNCHANGED <<pending, posts>>
  /\ UNCHANGED <<chan, mail, arrived, inbuf, finished, drained, sender, cycle,
                 mpi_pushed, mpi_got>>

-----------------------------------------------------------------------------
(* porter_reset and porter_setup *)

AllRanksAt(s) == \A p \in Live : mpi_stage[p] = s

EnterReset(p) ==
  /\ Idle(p) /\ flushed[p] /\ drained[p]
  /\ mpi_stage' = [mpi_stage EXCEPT ![p] = "resetting"]
  /\ UNCHANGED <<chan, mail, receiver, sender, mpi_round, mpi_pushed, mpi_got>>

\* mpp_barrier() in mpiport_reset()
ResetBarrier ==
  /\ AllRanksAt("resetting")
  /\ mpi_stage' = [p \in Ranks |-> "dormant"]
  /\ UNCHANGED <<chan, mail, receiver, sender, mpi_round, mpi_pushed, mpi_got>>

\* mpiport_setup() up to its barrier, and the assignments of porter_setup().  A
\* request that is still with MPI is forgotten.
Setup(p) ==
  /\ p \in Live /\ mpi_stage[p] = "dormant" /\ mpi_round[p] < MpiRounds
  /\ chan'        = [chan EXCEPT ![p] = [d \in Ranks |-> NewChannel(d)]]
  /\ posts'       = [posts EXCEPT ![p] = [s \in Ranks |->
                       [i \in DOMAIN posts[p][s] |-> "lost"]]]
  /\ arrived'     = [arrived EXCEPT ![p] = {}]
  /\ pending'     = [pending EXCEPT ![p] = <<>>]
  /\ taken'       = [taken EXCEPT ![p] = NoRank]
  /\ finished'    = [finished EXCEPT ![p] = Ranks \ Live]
  /\ drained'     = [drained EXCEPT ![p] = FALSE]
  /\ mpi_endgame' = [mpi_endgame EXCEPT ![p] = FALSE]
  /\ flushed'     = [flushed EXCEPT ![p] = FALSE]
  /\ done'        = [done EXCEPT ![p] = FALSE]
  /\ mpi_stage'   = [mpi_stage EXCEPT ![p] = "set"]
  /\ mpi_round'   = [mpi_round EXCEPT ![p] = @ + 1]
  /\ mpi_pushed'  = [mpi_pushed EXCEPT ![p] = [d \in Ranks |-> 0]]
  /\ mpi_got'     = [mpi_got EXCEPT ![p] = [s \in Ranks |-> <<>>]]
  /\ UNCHANGED <<mail, inbuf>>

\* After the barrier in mpiport_setup() the receives are posted.
SetupBarrier ==
  /\ AllRanksAt("set")
  /\ posts'     = [d \in Ranks |-> [p \in Ranks |->
                     IF {p, d} \subseteq Live THEN Append(posts[d][p], "live")
                     ELSE posts[d][p]]]
  /\ mpi_stage' = [p \in Ranks |-> "working"]
  /\ UNCHANGED <<chan, mail, arrived, inbuf, pending, taken, finished, drained,
                 sender, mpi_round, mpi_pushed, mpi_got>>

FinishedMpi == /\ AllRanksAt("dormant") /\ \A p \in Live : mpi_round[p] = MpiRounds
               /\ UNCHANGED mpivars

-----------------------------------------------------------------------------
Network(p, d) == Read(p, d) \/ Match(p, d)
Cycle(p)      == EnterReset(p) \/ Setup(p)

NextMpi ==
  \/ \E p, d \in Ranks : PushRoom(p, d) \/ PushNoRoom(p, d) \/ Network(p, d)
  \/ \E p \in Ranks : \/ Advance(p) \/ Borrow(p) \/ TakeMpi(p)
                      \/ ReturnMpi(p) \/ Cycle(p)
  \/ ResetBarrier \/ SetupBarrier \/ FinishedMpi

SpecMpi == InitMpi /\ [][NextMpi]_mpivars

\* MPI makes progress, and a client pushes, finishes, advances, pulls and resets.
\* It may return a buffer that it has not used up, but not for ever.
FairnessMpi ==
  /\ WF_mpivars(\E p, d \in Live : Network(p, d))
  /\ WF_mpivars(\E p, d \in Live : PushRoom(p, d) \/ PushNoRoom(p, d))
  /\ WF_mpivars(ResetBarrier \/ SetupBarrier \/ \E p \in Live : Cycle(p))
  /\ \A p \in Live : /\ WF_mpivars(Advance(p))
                     /\ SF_mpivars(Borrow(p) \/ ReturnMpi(p))
                     /\ SF_mpivars(TakeMpi(p))

FairSpecMpi == SpecMpi /\ FairnessMpi

-----------------------------------------------------------------------------
(* Properties *)

\* A buffer that MPI may still be reading is never the one that porter_push()
\* is filling, and no request is overwritten by the next one.
BufferStable == \A p, d \in Ranks : LET c == chan[p][d] IN
  c.req = "active" =>
    /\ c.emitted = c.delivered + 1
    /\ c.open => LevelOf(c.produced) # LevelOf(c.emitted - 1)

\* Between rounds MPI holds nothing of the group: a receive left behind would
\* swallow a message of the next round.
NothingPosted == \A p, d \in Live : mpi_stage[d] \in {"dormant", "set"} =>
  posts[d][p] = <<>> /\ mail[p][d] = <<>> /\ chan[p][d].req = "null"

\* What MPI works on is left alone, and it works on nothing between rounds.
Requests == BufferStable /\ NothingPosted

\* The group keeps the promises of FifoLinks.
LinksMpi == INSTANCE FifoLinks WITH
  PE <- Ranks, sent <- mpi_pushed, got <- mpi_got, closed <- done,
  round <- mpi_round
LinksSpecMpi == LinksMpi!Spec

\* When every client finishes, every PE completes every round.
Termination == <>(AllRanksAt("dormant") /\ \A p \in Live : mpi_round[p] = MpiRounds)
=============================================================================
