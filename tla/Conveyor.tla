------------------------------- MODULE Conveyor -------------------------------
(***************************************************************************)
(* What a client program sees of a conveyor (convey/convey.h): a vector    *)
(* conveyor (convey/tensor.c) whose porter has one buffer of a few items   *)
(* at either end of a link.  How porters and longer routes do it is the    *)
(* subject of PutPorter and Tensor.  Here a conveyor is a value v, and the *)
(* calls are functions of it, so that a client's action can make more than *)
(* one of them.                                                            *)
(***************************************************************************)
EXTENDS Integers, Sequences

CONSTANTS
  THREADS,     \* the number of PEs
  BufSizes     \* items per buffer, one of these

ASSUME ConveyorAssumption == THREADS \in Nat \ {0} /\ BufSizes \subseteq Nat \ {0}

VARIABLES
  conv,        \* the conveyors of the program
  my           \* my[p]: the local variables of the program at PE p

Thread == 0 .. THREADS-1

Nowhere == [p \in Thread |-> [q \in Thread |-> <<>>]]

\* convey_new and convey_begin; steady is convey_opt_PROGRESS.
New(steady, items) ==
  [steady |-> steady,
   items  |-> items,                    \* per buffer
   link   |-> Nowhere,                  \* items at the sender
   net    |-> Nowhere,                  \* items at the receiver
   ending |-> [p \in Thread |-> FALSE]]     \* p has said that it is done

\* Does the buffer of p for q leave, once q has emptied the last one?
Leaves(v, p, q) ==
  /\ v.net[p][q] = <<>> /\ v.link[p][q] # <<>>
  /\ Len(v.link[p][q]) = v.items \/ v.steady \/ v.ending[p]

\* Send the buffers of p for the PEs in to.
Sent(v, p, to) ==
  [v EXCEPT !.link[p] = [q \in Thread |-> IF q \in to THEN <<>> ELSE @[q]],
            !.net[p]  = [q \in Thread |-> IF q \in to THEN v.link[p][q] ELSE @[q]]]

\* convey_advance(v, done).
Advanced(v, p, done) ==
  LET w == [v EXCEPT !.ending[p] = @ \/ done]
  IN Sent(w, p, {q \in Thread : Leaves(w, p, q)})

\* The result of convey_advance is not convey_DONE: PE p may get more items,
\* or has sent some that have not left.
More(v, p) ==
  \E q \in Thread : \/ ~v.ending[q] \/ v.link[q][p] # <<>> \/ v.net[q][p] # <<>>
                    \/ v.link[p][q] # <<>>

\* convey_push returns convey_OK and not convey_FAIL; the item is then Pushed.
CanPush(v, p, q) == ~v.ending[p] /\ Len(v.link[p][q]) < v.items
Pushed(v, p, q, item) ==
  LET w == [v EXCEPT !.link[p][q] = Append(@, item)]
  IN IF Len(w.link[p][q]) = v.items /\ w.net[p][q] = <<>>
     THEN Sent(w, p, {q}) ELSE w

\* convey_pull takes the First item of one of the Sources; there are none if
\* it returns convey_FAIL.  An item that is pulled and unpulled stays there.
Sources(v, p)   == {q \in Thread : v.net[q][p] # <<>>}
First(v, p, q)  == Head(v.net[q][p])
Pulled(v, p, q) == [v EXCEPT !.net[q][p] = Tail(@)]

-----------------------------------------------------------------------------
(* The local variables of a program *)

At(p, place)  == my[p].at = place
Set(p, value) == my' = [my EXCEPT ![p] = value]
Goto(p, place) == my' = [my EXCEPT ![p].at = place] /\ UNCHANGED conv

\* Every PE is at or after one of the places: a barrier or a collective call
\* there completes.
AllThreadsAt(places) == \A q \in Thread : my[q].at \in places

\* The PE that holds a global index, and the local index there.
Owner(i) == i % THREADS
Local(i) == i \div THREADS
Global(j, p) == j * THREADS + p
=============================================================================
