------------------------------- MODULE BiSimple -------------------------------
(***************************************************************************)
(* The synchronous biconveyor (convey/bisimple.c under convey/biconvey.c): *)
(* queries travel in the send buffers of one simple conveyor.  When an     *)
(* advance has exchanged them, each PE answers them in place, a second     *)
(* all-to-all brings the replies back, and each PE gathers its own into a  *)
(* ring, in the order of its pushes, from which its client pulls.          *)
(*                                                                         *)
(* A conveyor of this module is either a plain simple conveyor, with the   *)
(* actions of Simple, or one that serves a biconveyor.                     *)
(***************************************************************************)
EXTENDS Simple, SequencesExt

CONSTANTS
  Bi,          \* may the conveyor serve a biconveyor?  A subset of BOOLEAN
  BiOptions,   \* the options with which a biconveyor is built
  Limit,       \* Limit[s]: the replies that fit into the ring in session s
  PullsAll     \* do clients pull all their replies before they reset?

ASSUME BiAssumption == /\ Bi \subseteq BOOLEAN /\ PullsAll \in BOOLEAN /\ MaxRounds > 0
                       /\ BiOptions \subseteq [scatter : BOOLEAN, steady : BOOLEAN]
                       /\ Limit \in [1 .. MaxRounds -> Nat \ {0}]

VARIABLES
  bi,
  replay,     \* replay[p]: the targets of the queries that p has pushed
  reorder,    \* the ring of replies
  eldest, n_replies,
  asked, taken   \* history, see AnswerQueue

ring    == <<replay, reorder, eldest, n_replies>>
bivars  == <<bi, ring, asked, taken>>
allvars == <<vars, bivars>>

limit(p) == Limit[round[p]]
Space    == 0 .. 2 * Max({Limit[s] : s \in DOMAIN Limit})

\* What the ring holds where no reply of this session has been put.
Garbage  == [pe |-> N, nr |-> 0]

InitBi ==
  /\ Init
  /\ bi        \in Bi
  /\ bi => \E o \in BiOptions : opt = [o EXCEPT !.steady = TRUE]
  /\ replay    = [p \in PE |-> <<>>]
  /\ reorder   = [p \in PE |-> [i \in Space |-> Garbage]]
  /\ eldest    = [p \in PE |-> 0]
  /\ n_replies = [p \in PE |-> 0]
  /\ asked     = [p \in PE |-> <<>>]
  /\ taken     = [p \in PE |-> <<>>]

easy_mod(x, m) == IF x >= m THEN x - m ELSE x

-----------------------------------------------------------------------------
(* biconvey_push and biconvey_pull *)

\* The ring must have room for the replies to all that is pushed.
NoSpace(p) == n_replies[p] + Len(replay[p]) = limit(p)

Ask(p, d) ==
  /\ ~NoSpace(p)
  /\ Push(p, d)
  /\ replay' = [replay EXCEPT ![p] = Append(@, d)]
  /\ asked'  = [asked EXCEPT ![p] = Append(@, [pe |-> d, nr |-> pushed[p][d] + 1])]
  /\ UNCHANGED <<bi, reorder, eldest, n_replies, taken>>

AskFails(p, d) == ~NoSpace(p) /\ PushFails(p, d) /\ UNCHANGED bivars

\* A client pulls only in a session (convey.h), which the code does not check.
Take(p) ==
  /\ CanPull(p) /\ n_replies[p] > 0
  /\ taken'     = [taken EXCEPT ![p] = Append(@, reorder[p][eldest[p]])]
  /\ eldest'    = [eldest EXCEPT ![p] = easy_mod(@ + 1, limit(p))]
  /\ n_replies' = [n_replies EXCEPT ![p] = @ - 1]
  /\ UNCHANGED <<vars, bi, replay, reorder, asked>>

-----------------------------------------------------------------------------
(* bisimple_advance *)

\* The advance of the simple conveyor has exchanged the queries.
AskExchange ==
  /\ AllAt("agree") /\ ~StayApart
  /\ recv'  = Received(send)
  /\ ClearSend
  /\ quiet' = [p \in PE |-> ~further_comm]
  /\ state' = [p \in PE |-> Outcome(p, IF further_comm THEN "OK" ELSE "NEAR", over[p])]
  /\ vote'  = [p \in PE |-> NoVote]
  /\ at'    = [p \in PE |-> "answer"]
  /\ UNCHANGED <<opt, pull_from, over, pushed, got, round, bivars>>

Unanswered(p) == {s \in PE : recv[p][s].next < Len(recv[p][s].items)}

\* Each PE answers the queries it has got, one after the other: the replies to
\* a client line up in the send buffer for it.
Answer(p) ==
  /\ at[p] = "answer"
  /\ \E s \in Unanswered(p) :
       LET query == recv[p][s].items[recv[p][s].next + 1]
       IN /\ \A x \in Unanswered(p) : s <= x
          /\ send' = [send EXCEPT ![p][s] = Append(@, query)]
          /\ recv' = [recv EXCEPT ![p][s].next = @ + 1]
          /\ got'  = [got EXCEPT ![p][s] = Append(@, query)]
  /\ UNCHANGED <<opt, circle, pull_from, nonempty, overflow, quiet, state, vote,
                 at, over, pushed, round, bivars>>

\* MUTANT: the replies are taken in the order of the PEs that made them.
ReplyInTurn(p, i) ==
  FlattenSeq([x \in 1 .. N |->
    [k \in DOMAIN send[x-1][p] |-> [pe |-> x - 1, nr |-> send[x-1][p][k]]]])[i]

\* How many of the first n queries in s have the target d.
Number(s, d, n) == Cardinality({m \in 1 .. n : s[m] = d})

\* The reply to the i-th query in replay: the next one in the buffer received
\* from its target.
Reply(p, i) ==
  LET d == replay[p][i]
  IN [pe |-> d, nr |-> send[d][p][Number(replay[p], d, i)]]

\* Where it goes in the ring: from the start on, back to 0 at the limit.
Place(p, i) ==
  LET start == easy_mod(eldest[p] + n_replies[p], limit(p))
  IN IF start < limit(p) THEN (start + i - 1) % limit(p) ELSE start + i - 1

\* Each PE gathers its replies, a buffer of them from each PE.
Gather ==
  /\ reorder' = [p \in PE |-> [x \in Space |->
       IF \E i \in DOMAIN replay[p] : Place(p, i) = x
       THEN Reply(p, CHOOSE i \in DOMAIN replay[p] : Place(p, i) = x)
       ELSE reorder[p][x]]]
  /\ n_replies' = [p \in PE |-> n_replies[p] + Len(replay[p])]
  /\ replay'    = [p \in PE |-> <<>>]
  /\ recv'      = [p \in PE |-> EmptyRecv]
  /\ ClearSend
  /\ at'        = [p \in PE |-> "client"]
  /\ UNCHANGED <<opt, pull_from, quiet, state, vote, over, pushed, got, round,
                 bi, eldest, asked, taken>>

\* The assertion fails if there is no reply to a query in replay: the query is
\* still in the circular buffer.  That ends the program.
HasReply(p, i) == Number(replay[p], replay[p][i], i) <= Len(send[replay[p][i]][p])
AllReplied     == \A p \in PE : \A i \in DOMAIN replay[p] : HasReply(p, i)

Abort == /\ at' = [p \in PE |-> "aborted"]
         /\ UNCHANGED <<opt, buffers, recv, pull_from, quiet, state, vote, over,
                        pushed, got, round, bivars>>

\* The replies are exchanged and gathered.
ReplyExchange ==
  /\ AllAt("answer") /\ \A p \in PE : Unanswered(p) = {}
  /\ IF AllReplied THEN Gather ELSE Abort

-----------------------------------------------------------------------------
(* biconvey_reset and biconvey_begin: the ring keeps its position *)

ResetBi(p) == Reset(p) /\ UNCHANGED bivars

FinishBeginBi ==
  /\ FinishBegin
  /\ reorder' = [p \in PE |-> [i \in Space |-> Garbage]]
  /\ asked'   = [p \in PE |-> <<>>]
  /\ taken'   = [p \in PE |-> <<>>]
  /\ UNCHANGED <<bi, replay, eldest, n_replies>>

-----------------------------------------------------------------------------
\* A step of a plain simple conveyor; one of a biconveyor that leaves its own
\* variables alone.
Plain(A) == ~bi /\ A /\ UNCHANGED bivars
Under(A) == bi /\ A /\ UNCHANGED bivars

AnyAdvance(p) == \E d \in BOOLEAN : StartAdvance(p, d)
AdvanceBi(p)  == Plain(AnyAdvance(p)) \/ Under(AnyAdvance(p))

CollectiveBi == \/ Plain(AgreeNot \/ Exchange \/ FinishBegin)
                \/ Under(AgreeNot)
                \/ bi /\ (AskExchange \/ ReplyExchange \/ FinishBeginBi)
                \/ bi /\ \E p \in PE : Answer(p)

NextBi ==
  \/ \E p \in PE : \/ \E d \in PE : \/ Plain(Push(p, d) \/ PushFails(p, d))
                                    \/ bi /\ (Ask(p, d) \/ AskFails(p, d))
                   \/ Plain(Pull(p) \/ PullNothing(p) \/ Unpull(p))
                   \/ bi /\ Take(p)
                   \/ AdvanceBi(p)
                   \/ Plain(Reset(p))
                   \/ bi /\ (PullsAll => n_replies[p] = 0) /\ ResetBi(p)
                   \/ Plain(Begin(p)) \/ Under(Begin(p))
  \/ CollectiveBi \/ Plain(Finished) \/ Under(Finished)

SpecBi == InitBi /\ [][NextBi]_allvars

\* The clients go on advancing.  The client of a simple conveyor goes on pulling
\* too, and gives items back only so often; that of a biconveyor need not pull.
FairnessBi ==
  /\ WF_allvars(CollectiveBi)
  /\ \A p \in PE : /\ WF_allvars(AdvanceBi(p))
                   /\ SF_allvars(Plain(Pull(p) \/ PullNothing(p)))
                   /\ <>[][~Unpull(p)]_allvars

FairSpecBi == SpecBi /\ FairnessBi

-----------------------------------------------------------------------------
(* Properties *)

\* Each client pulls the replies to its queries, in the order in which it
\* pushed them, whatever targets they had, across sessions.
Answers == INSTANCE AnswerQueue WITH closed <- over, session <- round
AnswersSpec == Answers!Spec

\* There is a reply to each query when the replies are gathered: the assertion
\* in bisimple_advance holds.
RepliesPresent == \A p \in PE : at[p] # "aborted"

\* "Each query gives rise to exactly one reply", pulled "in the order that the
\* corresponding queries were pushed" (biconvey.h).
OneReplyEach == AnswersSpec /\ []RepliesPresent

\* The reply to every query becomes available though no client is done, pushes
\* or pulls (biconvey.h, "guaranteed to make progress").
Available(p) == Len(taken[p]) + n_replies[p]
AllAnswered == (\E p \in PE : Available(p) < Len(asked[p]))
                 ~> (\A p \in PE : Available(p) = Len(asked[p]))

\* The conveyor always gets on, in the endgame and before it.
Progress == Completes /\ AllAnswered
=============================================================================
