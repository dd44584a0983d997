------------------------------- MODULE RandPerm -------------------------------
(***************************************************************************)
(* copied_rand_permp_conveyor (apps/randperm.cpp): a random permutation by *)
(* throwing darts.  Each PE throws its values at random slots of a target  *)
(* of twice the size.  A slot takes one dart, and the thrower of any other *)
(* is told to throw it again.  At the end the values are dealt out in the  *)
(* order of their slots.                                                   *)
(***************************************************************************)
EXTENDS Conveyor, FiniteSetsExt

CONSTANTS
  PermSize,      \* N: the values are 0 .. N-1
  Throws         \* what lrand48() gives: Throws[p] is a sequence of slots,
                 \* which p uses in turn, over and over

M == 2 * PermSize
LocalSize(n, p) == (n + THREADS - p - 1) \div THREADS
lN(p) == LocalSize(PermSize, p)
lM(p) == LocalSize(M, p)

Empty == -1

\* MUTANT: the conveyors are not steady.
PermConveyorsLazy(items) ==
  [throw |-> New(FALSE, items), reply |-> New(FALSE, items), deal |-> New(FALSE, items)]

\* convey_opt_PROGRESS: a PE is done only when it has had all the replies.
\* The replies' conveyor is used again, after convey_reset, to deal.
PermConveyors(items) ==
  [throw |-> New(TRUE, items), reply |-> New(TRUE, items), deal |-> New(TRUE, items)]

PermInit(items) ==
  /\ conv = PermConveyors(items)
  /\ my = [p \in Thread |->
       [at |-> "advance", iend |-> 0, hits |-> 0, thrown |-> 0,
        lperm   |-> [i \in 0 .. lN(p)-1 |-> Global(i, p)],
        ltarget |-> [i \in 0 .. lM(p)-1 |-> Empty],
        packed |-> <<>>, i |-> 0, pos |-> 0]]

PermAdvance(p) ==
  LET throw == Advanced(conv.throw, p, my[p].hits = lN(p))
      reply == Advanced(conv.reply, p, ~More(throw, p))
  IN /\ At(p, "advance")
     /\ conv' = [conv EXCEPT !.throw = throw, !.reply = reply]
     /\ Set(p, [my[p] EXCEPT !.at = IF More(throw, p) \/ More(reply, p)
                                    THEN "throw" ELSE "pack"])

Slot(p) == Throws[p][1 + my[p].thrown]

CanThrow(p) == my[p].iend < lN(p) /\ CanPush(conv.throw, p, Owner(Slot(p)))

Throw(p) ==
  /\ At(p, "throw") /\ CanThrow(p)
  /\ conv' = [conv EXCEPT !.throw = Pushed(@, p, Owner(Slot(p)),
                [idx |-> Local(Slot(p)), val |-> my[p].lperm[my[p].iend]])]
  /\ Set(p, [my[p] EXCEPT !.iend = @ + 1, !.thrown = (@ + 1) % Len(Throws[p])])

EndThrow(p) == At(p, "throw") /\ ~CanThrow(p) /\ Goto(p, "catch")

\* Does the dart stay in its slot?  If the reply cannot be pushed it is given
\* back, whatever it was to be.
Keeps(p, q, dart) == my[p].ltarget[dart.idx] = Empty /\ CanPush(conv.reply, p, q)

Answer(p, dart) ==
  IF my[p].ltarget[dart.idx] = Empty THEN dart.val ELSE -(dart.val + 1)

Catch(p) ==
  /\ At(p, "catch")
  /\ \E q \in Sources(conv.throw, p) :
       LET dart == First(conv.throw, p, q)
           can  == CanPush(conv.reply, p, q)
       IN /\ conv' = IF can
                     THEN [conv EXCEPT !.throw = Pulled(@, p, q),
                                       !.reply = Pushed(@, p, q, Answer(p, dart))]
                     ELSE conv
          /\ Set(p, [my[p] EXCEPT
               !.at = IF can THEN "catch" ELSE "hear",
               !.ltarget[dart.idx] = IF Keeps(p, q, dart) THEN dart.val ELSE @])

EndCatch(p) ==
  /\ At(p, "catch") /\ Sources(conv.throw, p) = {}
  /\ Goto(p, "hear")

\* A value that is refused is put back among those to throw, in the place of
\* any that is on its way.
PutBackDart(p, val) == [my[p] EXCEPT !.iend = @ - 1, !.lperm[my[p].iend - 1] = val]

Hear(p) ==
  /\ At(p, "hear")
  /\ \E q \in Sources(conv.reply, p) :
       LET val == First(conv.reply, p, q)
       IN /\ conv' = [conv EXCEPT !.reply = Pulled(@, p, q)]
          /\ Set(p, IF val < 0 THEN PutBackDart(p, -val - 1)
                    ELSE [my[p] EXCEPT !.hits = @ + 1])

EndHear(p) ==
  /\ At(p, "hear") /\ Sources(conv.reply, p) = {}
  /\ Goto(p, "advance")

\* The values in the slots of this PE, in order.
Pack(p) ==
  /\ At(p, "pack")
  /\ Set(p, [my[p] EXCEPT !.at = "packed",
       !.packed = SelectSeq([i \in 1 .. lM(p) |-> my[p].ltarget[i-1]],
                            LAMBDA val : val # Empty)])
  /\ UNCHANGED conv

Dealing == {"packed", "advance2", "deal", "take", "done"}

\* The number of values that the PEs before p have.
PriorCount(p) == MapThenSumSet(LAMBDA q : Len(my[q].packed), 0 .. p-1)

\* lgp_reduce_add_l and lgp_prior_add_l, which wait for all PEs.
StartDeal(p) ==
  /\ At(p, "packed") /\ AllThreadsAt(Dealing)
  /\ PriorCount(THREADS) = PermSize
  /\ Set(p, [my[p] EXCEPT !.at = "advance2"])
  /\ UNCHANGED conv

DealAdvance(p) ==
  LET deal == Advanced(conv.deal, p, my[p].i = Len(my[p].packed))
  IN /\ At(p, "advance2")
     /\ conv' = [conv EXCEPT !.deal = deal]
     /\ Set(p, [my[p] EXCEPT !.at = IF More(deal, p) THEN "deal" ELSE "done"])

\* The values go to the PEs in turn, from the first PE on.
Receiver(p) == (PriorCount(p) + my[p].i) % THREADS

CanDeal(p) == /\ my[p].i < Len(my[p].packed)
              /\ CanPush(conv.deal, p, Receiver(p))

Deal(p) ==
  /\ At(p, "deal") /\ CanDeal(p)
  /\ conv' = [conv EXCEPT !.deal =
                Pushed(@, p, Receiver(p), my[p].packed[my[p].i + 1])]
  /\ Set(p, [my[p] EXCEPT !.i = @ + 1])

EndDeal(p) == At(p, "deal") /\ ~CanDeal(p) /\ Goto(p, "take")

TakeDealt(p) ==
  /\ At(p, "take")
  /\ \E q \in Sources(conv.deal, p) :
       /\ conv' = [conv EXCEPT !.deal = Pulled(@, p, q)]
       /\ Set(p, [my[p] EXCEPT !.lperm[my[p].pos] = First(conv.deal, p, q),
                               !.pos = @ + 1])

EndTake(p) ==
  /\ At(p, "take") /\ Sources(conv.deal, p) = {}
  /\ Goto(p, "advance2")

PermStep(p) ==
  \/ PermAdvance(p)
  \/ Throw(p) \/ EndThrow(p)
  \/ Catch(p) \/ EndCatch(p)
  \/ Hear(p) \/ EndHear(p)
  \/ Pack(p) \/ StartDeal(p) \/ DealAdvance(p)
  \/ Deal(p) \/ EndDeal(p) \/ TakeDealt(p) \/ EndTake(p)

\* The program never writes past its part of the permutation, and at the end
\* (is_perm) every value is in it once.
Permuted ==
  /\ \A p \in Thread : my[p].iend \in 0 .. lN(p) /\ my[p].pos <= lN(p)
  /\ AllThreadsAt({"done"}) =>
       UNION {{my[p].lperm[i] : i \in 0 .. lN(p)-1} : p \in Thread} = 0 .. PermSize-1
=============================================================================
