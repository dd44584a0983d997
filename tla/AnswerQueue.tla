----------------------------- MODULE AnswerQueue -----------------------------
(***************************************************************************)
(* What a biconveyor (convey/biconvey.h) promises its clients: each query  *)
(* gives rise to one reply, made by the PE it was pushed to, and a client  *)
(* pulls the replies in the order in which it pushed the queries.          *)
(*                                                                         *)
(* A query is the PE that is to answer and its index among the queries for *)
(* that PE; its reply names the PE that has answered and the query.        *)
(***************************************************************************)
EXTENDS Naturals, Sequences, FiniteSets

CONSTANT PE

VARIABLES
  asked,   \* asked[p]: the queries p has pushed in this session
  taken,   \* taken[p]: the replies it has pulled
  closed,  \* closed[p]: p pushes no more in this session
  session

vars == <<asked, taken, closed, session>>

Init == /\ asked   = [p \in PE |-> <<>>]
        /\ taken   = [p \in PE |-> <<>>]
        /\ closed  = [p \in PE |-> FALSE]
        /\ session = [p \in PE |-> 1]

Ask(p) == /\ ~closed[p]
          /\ \E d \in PE : asked' = [asked EXCEPT ![p] = Append(@,
               [pe |-> d, nr |-> 1 + Cardinality({i \in DOMAIN asked[p] : asked[p][i].pe = d})])]
          /\ UNCHANGED <<taken, closed, session>>

Take(p) == /\ Len(taken[p]) < Len(asked[p])
           /\ taken' = [taken EXCEPT ![p] = Append(@, asked[p][Len(@) + 1])]
           /\ UNCHANGED <<asked, closed, session>>

Close(p) == /\ ~closed[p]
            /\ closed' = [closed EXCEPT ![p] = TRUE]
            /\ UNCHANGED <<asked, taken, session>>

\* All have closed and some start a new session: replies of the old one that
\* they have not pulled are gone.
Restart(some) ==
  /\ \A p \in some, q \in PE : session[q] > session[p] \/ closed[q]
  /\ asked'   = [p \in PE |-> IF p \in some THEN <<>> ELSE asked[p]]
  /\ taken'   = [p \in PE |-> IF p \in some THEN <<>> ELSE taken[p]]
  /\ closed'  = [p \in PE |-> closed[p] /\ p \notin some]
  /\ session' = [p \in PE |-> IF p \in some THEN session[p] + 1 ELSE session[p]]

Next == \/ \E p \in PE : Ask(p) \/ Take(p) \/ Close(p)
        \/ \E some \in SUBSET PE : Restart(some)

Spec == Init /\ [][Next]_vars
=============================================================================
