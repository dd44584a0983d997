------------------------------ MODULE FifoLinks ------------------------------
(***************************************************************************)
(* What the porters of a communication group (convey/porter.h) and an      *)
(* exstack2 (exstack/exstack2.upc) promise their clients: from every PE to *)
(* every PE there is a FIFO link.  Items are taken in the order they were  *)
(* pushed, each once unless it was given back; a PE learns that it is      *)
(* drained only when no item is left for it and none can come; and a new   *)
(* round starts for a PE only when every PE is drained.                    *)
(*                                                                         *)
(* An item is its index among those pushed on its link in the round.       *)
(***************************************************************************)
EXTENDS Naturals, Sequences

CONSTANTS
  PE,      \* the ranks of the group
  Live     \* those that stand for a PE

VARIABLES
  sent,     \* sent[p][d]: how many items p has pushed to d
  got,      \* got[d][p]: the items that d has taken from p
  closed,   \* closed[p]: p pushes no more in this round
  drained,  \* drained[d]: d knows that it will take no more
  round

vars == <<sent, got, closed, drained, round>>

Init ==
  /\ sent    = [p \in PE |-> [d \in PE |-> 0]]
  /\ got     = [p \in PE |-> [s \in PE |-> <<>>]]
  /\ closed  = [p \in PE |-> FALSE]
  /\ drained = [p \in PE |-> FALSE]
  /\ round   = [p \in PE |-> 1]

\* Nothing but a new round happens while some are still in the last one.
Together == \A p, q \in Live : round[p] = round[q]

Send(p, d) ==
  /\ ~closed[p]
  /\ sent' = [sent EXCEPT ![p][d] = @ + 1]
  /\ UNCHANGED <<got, closed, drained, round>>

Receive(d, p) ==
  /\ Len(got[d][p]) < sent[p][d]
  /\ got' = [got EXCEPT ![d][p] = Append(@, Len(@) + 1)]
  /\ UNCHANGED <<sent, closed, drained, round>>

\* The client gives back the item it has taken last.
GiveBack(d, p) ==
  /\ ~drained[d] /\ got[d][p] # <<>>
  /\ got' = [got EXCEPT ![d][p] = SubSeq(@, 1, Len(@) - 1)]
  /\ UNCHANGED <<sent, closed, drained, round>>

Close(p) ==
  /\ ~closed[p]
  /\ closed' = [closed EXCEPT ![p] = TRUE]
  /\ UNCHANGED <<sent, got, drained, round>>

Drain(d) ==
  /\ ~drained[d]
  /\ \A p \in Live : closed[p] /\ Len(got[d][p]) = sent[p][d]
  /\ drained' = [drained EXCEPT ![d] = TRUE]
  /\ UNCHANGED <<sent, got, closed, round>>

\* One or more start a new round.
Restart(some) ==
  /\ \A p \in some, q \in Live : drained[q] \/ round[q] > round[p]
  /\ sent'    = [p \in PE |-> IF p \in some THEN [d \in PE |-> 0] ELSE sent[p]]
  /\ got'     = [p \in PE |-> IF p \in some THEN [s \in PE |-> <<>>] ELSE got[p]]
  /\ closed'  = [p \in PE |-> closed[p] /\ p \notin some]
  /\ drained' = [p \in PE |-> drained[p] /\ p \notin some]
  /\ round'   = [p \in PE |-> IF p \in some THEN round[p] + 1 ELSE round[p]]

Next == \/ /\ Together
           /\ \E p \in Live : \/ Close(p) \/ Drain(p)
                             \/ \E d \in Live : Send(p, d) \/ Receive(d, p)
                                                \/ GiveBack(d, p)
        \/ \E some \in SUBSET Live : Restart(some)

Spec == Init /\ [][Next]_vars
=============================================================================
