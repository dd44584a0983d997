------------------------------- MODULE Exchange -------------------------------
(***************************************************************************)
(* Programs that push a list of items and pull what comes: histo_conveyor  *)
(* (apps/histo.cpp), and histogram, communicate and elasticomm of the test *)
(* driver (convey/a2a_apps.c, a2a_basic.c).  To test that a conveyor is    *)
(* steady, the driver yokes it with a tally conveyor that tells each PE    *)
(* how many items to expect, and says that it is done with the main one    *)
(* only when they have all come.                                           *)
(***************************************************************************)
EXTENDS Conveyor

CONSTANTS
  Updates,       \* Updates[p]: what p sends, a sequence of [pe, slot]
  MaxRejects     \* bound on the items that a PE rejects

Slots == UNION {{Updates[p][i].slot : i \in DOMAIN Updates[p]} : p \in Thread}

\* The driver's option -p goes with -y; the tally conveyor is never steady.
ExchangeConveyors(yoked, items) == [main |-> New(yoked, items), tally |-> New(FALSE, items)]

ExchangeInit(yoked, items) ==
  /\ conv = ExchangeConveyors(yoked, items)
  /\ my = [p \in Thread |->
       [at |-> "advance", yoked |-> yoked, sent |-> 0, stuck |-> FALSE,
        rcvd |-> 0, goal |-> 0, tally_done |-> FALSE, rejects |-> 0,
        counts |-> [q \in Thread |-> [s \in Slots |-> 0]]]]

Bulk(p) == Len(Updates[p])
AllSent(p) == my[p].sent = Bulk(p)
NextUpdate(p) == Updates[p][my[p].sent + 1]

\* What the client says of the main conveyor.
Done(p) == IF my[p].yoked THEN my[p].tally_done /\ my[p].rcvd = my[p].goal
           ELSE AllSent(p)

ExchangeAdvance(p) ==
  LET main  == Advanced(conv.main, p, Done(p))
      tally == Advanced(conv.tally, p, AllSent(p) /\ ~my[p].stuck)
      asks  == my[p].yoked /\ ~my[p].tally_done /\ More(main, p)
  IN /\ At(p, "advance")
     /\ conv' = [main |-> main, tally |-> IF asks THEN tally ELSE conv.tally]
     /\ Set(p, [my[p] EXCEPT !.at = IF More(main, p) THEN "push" ELSE "done",
                             !.tally_done = @ \/ (asks /\ ~More(tally, p))])

PushMain(p) ==
  /\ At(p, "push") /\ ~AllSent(p) /\ ~my[p].stuck
  /\ CanPush(conv.main, p, NextUpdate(p).pe)
  /\ conv' = [conv EXCEPT !.main = Pushed(@, p, NextUpdate(p).pe, NextUpdate(p).slot)]
  /\ Set(p, [my[p] EXCEPT !.sent  = IF my[p].yoked THEN @ ELSE @ + 1,
                          !.stuck = my[p].yoked])

\* The item has been pushed and its tally has not.
PushTally(p) ==
  /\ At(p, "push") /\ my[p].stuck
  /\ CanPush(conv.tally, p, NextUpdate(p).pe)
  /\ conv' = [conv EXCEPT !.tally = Pushed(@, p, NextUpdate(p).pe, 1)]
  /\ Set(p, [my[p] EXCEPT !.sent = @ + 1, !.stuck = FALSE])

EndPush(p) ==
  /\ At(p, "push")
  /\ \/ AllSent(p)
     \/ ~AllSent(p) /\ ~CanPush(IF my[p].stuck THEN conv.tally ELSE conv.main,
                                p, NextUpdate(p).pe)
  /\ Goto(p, "pull")

\* The counts after a pull from q.
Counted(p, q, slot) == [my[p].counts EXCEPT ![q][slot] = @ + 1]

PullMain(p) ==
  /\ At(p, "pull")
  /\ \E q \in Sources(conv.main, p) :
       /\ conv' = [conv EXCEPT !.main = Pulled(@, p, q)]
       /\ Set(p, [my[p] EXCEPT !.counts = Counted(p, q, First(conv.main, p, q)),
                               !.rcvd = IF my[p].yoked THEN @ + 1 ELSE @])

AfterPull(p) == IF my[p].yoked /\ ~my[p].tally_done THEN "tally" ELSE "advance"

\* elasticomm gives an item back, and pulls no more for now.
Reject(p) ==
  /\ At(p, "pull") /\ my[p].rejects < MaxRejects
  /\ Sources(conv.main, p) # {}
  /\ Set(p, [my[p] EXCEPT !.rejects = @ + 1, !.at = AfterPull(p)])
  /\ UNCHANGED conv

EndPull(p) ==
  /\ At(p, "pull") /\ Sources(conv.main, p) = {}
  /\ Goto(p, AfterPull(p))

PullTally(p) ==
  /\ At(p, "tally")
  /\ \E q \in Sources(conv.tally, p) :
       /\ conv' = [conv EXCEPT !.tally = Pulled(@, p, q)]
       /\ Set(p, [my[p] EXCEPT !.goal = @ + 1])

EndTally(p) ==
  /\ At(p, "tally") /\ Sources(conv.tally, p) = {}
  /\ Goto(p, "advance")

ExchangeStep(p) ==
  \/ ExchangeAdvance(p)
  \/ PushMain(p) \/ PushTally(p) \/ EndPush(p)
  \/ PullMain(p) \/ Reject(p) \/ EndPull(p)
  \/ PullTally(p) \/ EndTally(p)

\* The updates that q sends to p, counted by slot.
Expected(p) ==
  [q \in Thread |-> [s \in Slots |->
     Len(SelectSeq(Updates[q], LAMBDA u : u.pe = p /\ u.slot = s))]]

\* At the end each PE has counted every update for it once, under its sender.
Exchanged == \A p \in Thread : At(p, "done") => my[p].counts = Expected(p)
=============================================================================
