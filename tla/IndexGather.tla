----------------------------- MODULE IndexGather -----------------------------
(***************************************************************************)
(* ig_conveyor (apps/ig.cpp) and indexgather (convey/a2a_apps.c): each PE  *)
(* requests entries of a table that is spread over all PEs, answers the    *)
(* requests of the others, and stores the replies that it gets.            *)
(***************************************************************************)
EXTENDS Conveyor

CONSTANT Index      \* Index[p]: the global indices that p requests

GatherInit(items) ==
  /\ conv = [requests |-> New(FALSE, items), replies |-> New(FALSE, items)]
  /\ my = [p \in Thread |-> [at |-> "advance", i |-> 1,
                         tgt |-> [i \in DOMAIN Index[p] |-> 0]]]

\* ltable: an entry says where it is.
ltable(p, j) == -(Global(j, p) + 1)

\* No more requests can come: this PE will push no more replies.
RepliesDone(p, requests) == ~More(requests, p)

GatherAdvance(p) ==
  LET requests == Advanced(conv.requests, p, my[p].i > Len(Index[p]))
      replies  == Advanced(conv.replies, p, RepliesDone(p, requests))
  IN /\ At(p, "advance")
     /\ conv' = [requests |-> requests, replies |-> replies]
     /\ Set(p, [my[p] EXCEPT !.at = IF More(requests, p) \/ More(replies, p)
                                    THEN "push" ELSE "done"])

CanRequest(p) == /\ my[p].i <= Len(Index[p])
                 /\ CanPush(conv.requests, p, Owner(Index[p][my[p].i]))

Request(p) ==
  LET index == Index[p][my[p].i]
  IN /\ At(p, "push") /\ CanRequest(p)
     /\ conv' = [conv EXCEPT !.requests =
          Pushed(@, p, Owner(index), [idx |-> my[p].i, val |-> Local(index)])]
     /\ Set(p, [my[p] EXCEPT !.i = @ + 1])

EndRequests(p) == At(p, "push") /\ ~CanRequest(p) /\ Goto(p, "serve")

\* The reply to the first request from q.
ReplyTo(p, q) == LET request == First(conv.requests, p, q)
                 IN [idx |-> request.idx, val |-> ltable(p, request.val)]

\* A request is pulled, and unpulled if its reply cannot be pushed.
AfterServe(p, q) ==
  IF CanPush(conv.replies, p, q)
  THEN [requests |-> Pulled(conv.requests, p, q),
        replies  |-> Pushed(conv.replies, p, q, ReplyTo(p, q))]
  ELSE conv

Serve(p) ==
  /\ At(p, "serve")
  /\ \E q \in Sources(conv.requests, p) :
       /\ conv' = AfterServe(p, q)
       /\ Set(p, [my[p] EXCEPT !.at = IF CanPush(conv.replies, p, q)
                                      THEN "serve" ELSE "collect"])

EndServe(p) ==
  /\ At(p, "serve") /\ Sources(conv.requests, p) = {}
  /\ Goto(p, "collect")

Collect(p) ==
  /\ At(p, "collect")
  /\ \E q \in Sources(conv.replies, p) :
       /\ conv' = [conv EXCEPT !.replies = Pulled(@, p, q)]
       /\ Set(p, [my[p] EXCEPT !.tgt[First(conv.replies, p, q).idx] =
                                  First(conv.replies, p, q).val])

EndCollect(p) ==
  /\ At(p, "collect") /\ Sources(conv.replies, p) = {}
  /\ Goto(p, "advance")

GatherStep(p) ==
  \/ GatherAdvance(p)
  \/ Request(p) \/ EndRequests(p)
  \/ Serve(p) \/ EndServe(p)
  \/ Collect(p) \/ EndCollect(p)

\* ig_check_and_zero finds no error: every entry is the one requested.
Gathered ==
  \A p \in Thread : At(p, "done") =>
    \A i \in DOMAIN Index[p] : my[p].tgt[i] = -(Index[p][i] + 1)
=============================================================================
