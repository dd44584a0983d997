------------------------------- MODULE BiTensor -------------------------------
(***************************************************************************)
(* The asynchronous biconveyors (convey/bitensor.c) and the loop of their  *)
(* clients (convey/examples/bigather.c).  Queries carry a token, the place *)
(* of the reply in a circular buffer, from which the client pulls the      *)
(* replies in the order of its queries, whatever order they come in.       *)
(***************************************************************************)
EXTENDS Conveyor

CONSTANTS
  Queries,       \* Queries[p]: the PEs that p queries, in order
  Limit          \* replies that fit into the reorder buffer

ASSUME LimitAssumption == Limit \in Nat \ {0, 1}

Tokens == 0 .. Limit-1

\* Asked and taken are history, see AnswerQueue.
BiInit(items) ==
  /\ conv = [queries |-> New(TRUE, items), replies |-> New(TRUE, items)]
  /\ my = [p \in Thread |->
       [at |-> "advance", closed |-> FALSE, done |-> FALSE,
        inflight |-> 0, await |-> 0,
        present |-> {}, reorder |-> [t \in Tokens |-> <<>>],
        asked |-> <<>>, taken |-> <<>>]]

AllAsked(p) == Len(my[p].asked) = Len(Queries[p])

\* bitensor_advance, as far as the calls that advance both conveyors.
BiAdvance(p) ==
  LET queries == Advanced(conv.queries, p, AllAsked(p))
      replies == Advanced(conv.replies, p, ~More(queries, p))
  IN /\ At(p, "advance")
     /\ conv' = [queries |-> queries, replies |-> replies]
     /\ Set(p, [my[p] EXCEPT !.closed = AllAsked(p), !.done = ~More(replies, p),
                             !.at = IF More(queries, p) THEN "answer" ELSE "drain"])

\* A query is pulled, and unpulled if its reply cannot be pushed.
AfterAnswer(p, q, reply) ==
  IF CanPush(conv.replies, p, q)
  THEN [queries |-> Pulled(conv.queries, p, q),
        replies |-> Pushed(conv.replies, p, q, reply)]
  ELSE conv

AnswerOne(p) ==
  /\ At(p, "answer")
  /\ \E q \in Sources(conv.queries, p) :
       LET query == First(conv.queries, p, q)
       IN /\ conv' = AfterAnswer(p, q, [token |-> query.token,
                                        item  |-> [pe |-> p, nr |-> query.item]])
          /\ Set(p, [my[p] EXCEPT !.at = IF CanPush(conv.replies, p, q)
                                         THEN "answer" ELSE "drain"])

EndAnswers(p) ==
  /\ At(p, "answer") /\ Sources(conv.queries, p) = {}
  /\ Goto(p, "drain")

\* All replies that have come are put in their places.
DrainOne(p) ==
  /\ At(p, "drain")
  /\ \E q \in Sources(conv.replies, p) :
       LET reply == First(conv.replies, p, q)
       IN /\ conv' = [conv EXCEPT !.replies = Pulled(@, p, q)]
          /\ Set(p, [my[p] EXCEPT !.present = @ \cup {reply.token},
                                  !.reorder[reply.token] = reply.item])

\* convey_NEAR and not convey_DONE: some replies are still to be pulled.
EndDrain(p) ==
  /\ At(p, "drain") /\ Sources(conv.replies, p) = {}
  /\ Set(p, [my[p] EXCEPT !.at = IF my[p].done /\ my[p].inflight = 0
                                 THEN "done" ELSE "push"])
  /\ UNCHANGED conv

easy_mod(x, m) == IF x >= m THEN x - m ELSE x

\* May one more query be in flight?
WindowOpens(p) == my[p].inflight + 1 # Limit

To(p) == Queries[p][Len(my[p].asked) + 1]
CanAsk(p) == /\ ~AllAsked(p) /\ WindowOpens(p)
             /\ CanPush(conv.queries, p, To(p))

\* bitensor_push: the query is its index among those to the same PE.
BiPush(p) ==
  LET nr    == 1 + Len(SelectSeq(my[p].asked, LAMBDA a : a.pe = To(p)))
      token == easy_mod(my[p].await + my[p].inflight, Limit)
  IN /\ At(p, "push") /\ CanAsk(p)
     /\ conv' = [conv EXCEPT !.queries =
                   Pushed(@, p, To(p), [token |-> token, item |-> nr])]
     /\ Set(p, [my[p] EXCEPT !.inflight = @ + 1,
                             !.asked = Append(@, [pe |-> To(p), nr |-> nr])])

EndBiPush(p) == At(p, "push") /\ ~CanAsk(p) /\ Goto(p, "pull")

\* MUTANT: whatever has come is taken.
HasReplyAny(p) == my[p].present # {}

\* Has the reply come that is next in order?
HasReply(p) == my[p].await \in my[p].present

\* bitensor_pull
BiPull(p) ==
  /\ At(p, "pull") /\ HasReply(p)
  /\ Set(p, [my[p] EXCEPT !.present = @ \ {my[p].await},
                          !.await = easy_mod(@ + 1, Limit),
                          !.inflight = @ - 1,
                          !.taken = Append(@, my[p].reorder[my[p].await])])
  /\ UNCHANGED conv

EndBiPull(p) == At(p, "pull") /\ ~HasReply(p) /\ Goto(p, "advance")

BiStep(p) ==
  \/ BiAdvance(p) \/ AnswerOne(p) \/ EndAnswers(p) \/ DrainOne(p) \/ EndDrain(p)
  \/ BiPush(p) \/ EndBiPush(p) \/ BiPull(p) \/ EndBiPull(p)
=============================================================================
