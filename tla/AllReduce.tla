------------------------------- MODULE AllReduce -------------------------------
(***************************************************************************)
(* ALL_REDUCE (src/all-reduce): every PE pushes its whole vector to every  *)
(* PE, and adds up what it pulls.  data_pe.cpp pushes an entry to all PEs  *)
(* before it takes the next one; pe_data.cpp pushes all entries to a PE    *)
(* before it turns to the next one.                                        *)
(*                                                                         *)
(* The counters of the loops that copy the vectors are not initialized: a  *)
(* loop may start at any entry, or do nothing.  What it skips stays zero.  *)
(***************************************************************************)
EXTENDS Conveyor, FiniteSets

CONSTANT dataSize

ASSUME DataAssumption == dataSize \in Nat

Entries == 0 .. dataSize-1

\* A vector of ones of which a loop that starts at an arbitrary place is to
\* copy all: main fills the vectors with ones.
Copied(from) == [i \in Entries |-> IF i >= from THEN 1 ELSE 0]

ReduceInit(by_entry, items) ==
  /\ conv = New(FALSE, items)
  /\ \E tracker \in [Thread -> 0 .. dataSize] :
       my = [p \in Thread |->
              [at |-> "advance", by_entry |-> by_entry, pushes |-> 0,
               local |-> Copied(tracker[p]), global |-> [i \in Entries |-> 0],
               res |-> [i \in Entries |-> 0]]]

\* The two nested loops are one count of pushes.
AllPushed(p)  == my[p].pushes = dataSize * THREADS
data_index(p) == IF my[p].by_entry THEN my[p].pushes \div THREADS
                                   ELSE my[p].pushes % dataSize
pe(p)         == IF my[p].by_entry THEN my[p].pushes % THREADS
                                   ELSE my[p].pushes \div dataSize

ReduceAdvance(p) ==
  /\ At(p, "advance")
  /\ conv' = Advanced(conv, p, AllPushed(p))
  /\ Set(p, [my[p] EXCEPT !.at = IF More(conv', p) THEN "push" ELSE "barrier"])

CanPushDatum(p) == ~AllPushed(p) /\ CanPush(conv, p, pe(p))

PushDatum(p) ==
  /\ At(p, "push") /\ CanPushDatum(p)
  /\ conv' = Pushed(conv, p, pe(p), [index |-> data_index(p),
                                     data_item |-> my[p].local[data_index(p)]])
  /\ Set(p, [my[p] EXCEPT !.pushes = @ + 1])

EndPushes(p) == At(p, "push") /\ ~CanPushDatum(p) /\ Goto(p, "pull")

AddEntry(p) ==
  /\ At(p, "pull")
  /\ \E q \in Sources(conv, p) :
       LET pkt == First(conv, p, q)
       IN /\ conv' = Pulled(conv, p, q)
          /\ Set(p, [my[p] EXCEPT !.global[pkt.index] = @ + pkt.data_item])

EndAdding(p) == At(p, "pull") /\ Sources(conv, p) = {} /\ Goto(p, "advance")

\* The second loop that starts anywhere, after the barrier.
CopyBack(p) ==
  /\ At(p, "barrier") /\ AllThreadsAt({"barrier", "done"})
  /\ \E tracker \in 0 .. dataSize :
       Set(p, [my[p] EXCEPT !.at = "done",
                 !.res = [i \in Entries |-> IF i >= tracker THEN my[p].global[i]
                                                            ELSE 0]])
  /\ UNCHANGED conv

ReduceStep(p) == \/ ReduceAdvance(p)
                 \/ PushDatum(p) \/ EndPushes(p)
                 \/ AddEntry(p) \/ EndAdding(p)
                 \/ CopyBack(p)

\* The loop in the middle: each PE has added every entry that was pushed to it
\* just once.
Added == \A p \in Thread : At(p, "done") => \A i \in Entries :
  my[p].global[i] = Cardinality({q \in Thread : my[q].local[i] = 1})

\* What main asserts of the result (data_pe.cpp and pe_data.cpp, line 122), its
\* vectors being filled with ones.
Summed == \A p \in Thread : At(p, "done") => \A i \in Entries :
  my[p].res[i] = THREADS
=============================================================================
