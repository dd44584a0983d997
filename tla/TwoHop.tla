-------------------------------- MODULE TwoHop --------------------------------
(***************************************************************************)
(* The two-hop conveyor (convey/twohop.c) under the generic functions of   *)
(* convey.c.  The PEs form a matrix.  An item goes along the row of its    *)
(* source to the PE in the column of its destination, is pivoted there     *)
(* into a buffer for the row of its destination, and goes along the        *)
(* column.  convey_advance is collective, as in Simple: the PEs agree      *)
(* whether to communicate; a row exchange takes place only when all that   *)
(* the last one brought has been pivoted, and a column exchange each time. *)
(*                                                                         *)
(* The row exchange ends in a barrier and the column exchange in a         *)
(* reduction, so that each is one action of all the PEs.  An item is its   *)
(* index among the items its source has pushed to its destination in the   *)
(* round.                                                                  *)
(***************************************************************************)
EXTENDS Integers, FiniteSets, Sequences

CONSTANTS
  N,          \* PROCS
  n_cols,     \* row_procs
  RowItems,   \* packets per row buffer
  ColItems,   \* packets per column buffer
  Steady,     \* the values that convey_STEADY may have
  Quota,      \* Quota[p][d]: bound on the items p pushes to d in a round
  MaxRounds   \* bound on the begin .. reset rounds

PE     == 0 .. N-1
n_rows == N \div n_cols
Row    == 0 .. n_rows - 1
Col    == 0 .. n_cols - 1

ASSUME ShapeAssumption == /\ N \in Nat \ {0} /\ n_cols \in 2 .. N
                          /\ N % n_cols = 0
                          /\ RowItems \in Nat \ {0} /\ ColItems \in Nat \ {0}
ASSUME ClientAssumption == /\ Quota \in [PE -> [PE -> Nat]]
                           /\ MaxRounds \in Nat /\ Steady \subseteq BOOLEAN

VARIABLES
  steady,
  row_send,   \* row_send[p][c]: packets for the PE in column c
  row_recv,   \* row_recv[p][c]: packets from column c, still to be pivoted
  col_recv,   \* col_recv[p][r]: packets from row r, how many are pulled
  overflow,   \* has a push failed since the last row exchange?
  row_quiet,  \* nothing more to send from sources
  col_quiet,  \* nothing more to pivot
  pull_row,   \* the column buffer to draw from
  state, vote, at, over,   \* as in Simple; "pivot": between the exchanges
  pushed, got, round       \* history, see FifoLinks

rows    == <<row_send, row_recv, overflow>>
quiet   == <<row_quiet, col_quiet>>
columns == <<col_recv, pull_row>>
history == <<pushed, got, round>>
vars    == <<steady, rows, quiet, columns, state, vote, at, over, history>>

RowOf(p)    == p \div n_cols
ColOf(p)    == p % n_cols
Rank(r, c)  == r * n_cols + c
NoVote      == [cannot_comm |-> FALSE, desire_comm |-> FALSE, further_comm |-> FALSE]
EmptyRow    == [c \in Col |-> <<>>]
EmptyCol    == [r \in Row |-> [items |-> <<>>, next |-> 0]]

Init ==
  /\ steady    \in Steady
  /\ row_send  = [p \in PE |-> EmptyRow]
  /\ row_recv  = [p \in PE |-> EmptyRow]
  /\ col_recv  = [p \in PE |-> EmptyCol]
  /\ overflow  = [p \in PE |-> FALSE]
  /\ row_quiet = [p \in PE |-> FALSE]
  /\ col_quiet = [p \in PE |-> TRUE]
  /\ pull_row  = [p \in PE |-> 0]
  /\ state     = [p \in PE |-> "working"]
  /\ vote      = [p \in PE |-> NoVote]
  /\ at        = [p \in PE |-> "client"]
  /\ over      = [p \in PE |-> FALSE]
  /\ pushed    = [p \in PE |-> [d \in PE |-> 0]]
  /\ got       = [p \in PE |-> [s \in PE |-> <<>>]]
  /\ round     = [p \in PE |-> 1]

-----------------------------------------------------------------------------
(* The client: push, pull, unpull *)

CanPush(p) == at[p] = "client" /\ state[p] = "working"

\* What a packet on its way along the row tells the PE that pivots it.
Header(p, d) == [row |-> RowOf(d), col |-> ColOf(p)]

Push(p, d) ==
  LET c == ColOf(d)
  IN /\ CanPush(p) /\ pushed[p][d] < Quota[p][d]
     /\ Len(row_send[p][c]) < RowItems
     /\ row_send' = [row_send EXCEPT ![p][c] =
          Append(@, [head |-> Header(p, d), item |-> pushed[p][d] + 1])]
     /\ pushed' = [pushed EXCEPT ![p][d] = @ + 1]
     /\ UNCHANGED <<steady, row_recv, overflow, quiet, columns, state, vote,
                    at, over, got, round>>

PushFails(p, d) ==
  /\ CanPush(p) /\ Len(row_send[p][ColOf(d)]) >= RowItems
  /\ overflow' = [overflow EXCEPT ![p] = TRUE]
  /\ UNCHANGED <<steady, row_send, row_recv, quiet, columns, state, vote, at,
                 over, history>>

CanPull(p) == at[p] = "client" /\ state[p] # "dormant"

Unread(p) == {r \in Row : r >= pull_row[p]
                          /\ col_recv[p][r].next < Len(col_recv[p][r].items)}

Pull(p) ==
  /\ CanPull(p)
  /\ \E r \in Unread(p) :
       LET packet == col_recv[p][r].items[col_recv[p][r].next + 1]
       IN /\ \A x \in Unread(p) : r <= x
          /\ pull_row' = [pull_row EXCEPT ![p] = r]
          /\ col_recv' = [col_recv EXCEPT ![p][r].next = @ + 1]
          /\ got'      = [got EXCEPT ![p][packet.from] = Append(@, packet.item)]
  /\ UNCHANGED <<steady, rows, quiet, state, vote, at, over, pushed, round>>

PullNothing(p) ==
  /\ CanPull(p) /\ Unread(p) = {}
  /\ pull_row' = [pull_row EXCEPT ![p] = n_rows]
  /\ UNCHANGED <<steady, rows, quiet, col_recv, state, vote, at, over, history>>

Unpull(p) ==
  LET r == pull_row[p]
  IN /\ CanPull(p) /\ r < n_rows /\ col_recv[p][r].next > 0
     /\ col_recv' = [col_recv EXCEPT ![p][r].next = @ - 1]
     /\ got' = [got EXCEPT ![p][col_recv[p][r].items[col_recv[p][r].next].from] =
                  SubSeq(@, 1, Len(@) - 1)]
     /\ UNCHANGED <<steady, rows, quiet, pull_row, state, vote, at, over,
                    pushed, round>>

-----------------------------------------------------------------------------
(* convey_advance *)

need_pull(p) == pull_row[p] < n_rows

rows_nonempty(p) == \E c \in Col : row_send[p][c] # <<>>

\* What convey_advance does with the result of twohop_advance.
Outcome(p, result, done) ==
  CASE result = "NEAR" -> "cleanup"
    [] result = "DONE" -> "complete"
    [] result = "OK"   -> IF done /\ state[p] = "working" THEN "endgame"
                          ELSE state[p]

\* MUTANT: a steady conveyor forgets what is still to be pivoted.
DesireForRows(p, done) == done \/ overflow[p] \/ (steady /\ rows_nonempty(p))

Desire(p, done) == \/ done \/ overflow[p]
                   \/ steady /\ (~col_quiet[p] \/ rows_nonempty(p))

\* The clients considered: one that has nothing to push is done from the start,
\* or never if the conveyor is steady; one that nobody pushes to tries to pull
\* before it advances.
MayPass(p, d) == /\ over[p] => d
                 /\ (\A x \in PE : Quota[p][x] = 0) => d = ~steady
                 /\ (\A s \in PE : Quota[s][p] = 0) => pull_row[p] = n_rows

\* A call in state complete would change nothing.
StartAdvance(p, d) ==
  /\ at[p] = "client" /\ state[p] \notin {"dormant", "complete"}
  /\ MayPass(p, d)
  /\ over' = [over EXCEPT ![p] = d]
  /\ IF row_quiet[p] /\ col_quiet[p]
     THEN /\ state' = [state EXCEPT ![p] =
                         Outcome(p, IF need_pull(p) THEN "NEAR" ELSE "DONE", d)]
          /\ UNCHANGED <<vote, at>>
     ELSE /\ vote' = [vote EXCEPT ![p] = [cannot_comm  |-> need_pull(p),
                                          desire_comm  |-> Desire(p, d),
                                          further_comm |-> ~d]]
          /\ at'   = [at EXCEPT ![p] = "agree"]
          /\ UNCHANGED state
  /\ UNCHANGED <<steady, rows, quiet, columns, history>>

AllAt(place) == \A p \in PE : at[p] = place
cannot_comm  == \E p \in PE : vote[p].cannot_comm
desire_comm  == \E p \in PE : vote[p].desire_comm
further_comm == \E p \in PE : vote[p].further_comm

\* All return from convey_advance with this result.
Return(result) ==
  /\ at'    = [p \in PE |-> "client"]
  /\ vote'  = [p \in PE |-> NoVote]
  /\ state' = [p \in PE |-> Outcome(p, result, over[p])]

StayApart == cannot_comm \/ ~desire_comm

AgreeNot ==
  /\ AllAt("agree") /\ StayApart
  /\ Return("OK")
  /\ UNCHANGED <<steady, rows, quiet, columns, over, history>>

\* Each PE exchanges its row buffers with the PEs of its row, once it has
\* pivoted all that it received the last time.
RowExchange ==
  /\ AllAt("agree") /\ ~StayApart
  /\ at' = [p \in PE |-> "pivot"]
  /\ IF \A p \in PE : col_quiet[p]
     THEN /\ row_recv' = [p \in PE |-> [c \in Col |->
                            row_send[Rank(RowOf(p), c)][ColOf(p)]]]
          /\ row_send'  = [p \in PE |-> EmptyRow]
          /\ overflow'  = [p \in PE |-> FALSE]
          /\ row_quiet' = [p \in PE |-> ~further_comm]
     ELSE UNCHANGED <<rows, row_quiet>>
  /\ UNCHANGED <<steady, col_quiet, columns, state, vote, over, history>>

\* The row buffers are pivoted one after the other, each from its start: as slots
\* in one line, RowItems for each buffer.
Slots        == n_cols * RowItems
BufferOf(n)  == (n - 1) \div RowItems
PlaceOf(n)   == ((n - 1) % RowItems) + 1
Packet(p, n) == row_recv[p][BufferOf(n)][PlaceOf(n)]

\* The slots that hold packets for row r.
Goes(p, r) == {n \in 1 .. Slots :
                 /\ PlaceOf(n) <= Len(row_recv[p][BufferOf(n)])
                 /\ Packet(p, n).head.row = r}

\* How many packets in the first n slots go to row r.
ForRow(p, n, r) == Cardinality(Goes(p, r) \cap (1 .. n))

\* MUTANT: the limit is compared with > in place of >=.
MovedPastLimit(p) ==
  CHOOSE n \in 0 .. Slots :
    /\ \A r \in Row : ForRow(p, n, r) <= ColItems + 1
    /\ n < Slots => \E r \in Row : ForRow(p, n + 1, r) > ColItems + 1

\* pivot goes on until it meets a packet whose column buffer is full: it empties
\* the first Moved(p) slots.
Moved(p) == CHOOSE n \in 0 .. Slots :
              /\ \A r \in Row : ForRow(p, n, r) <= ColItems
              /\ n < Slots => \E r \in Row : ForRow(p, n + 1, r) > ColItems

\* The column buffer for row r after that: the header is the source now.
Pivoted(p, r) ==
  [k \in 1 .. ForRow(p, Moved(p), r) |->
     LET x == Packet(p, CHOOSE n \in Goes(p, r) : ForRow(p, n, r) = k)
     IN [from |-> Rank(RowOf(p), x.head.col), item |-> x.item]]

\* What is left in row_recv: each buffer loses the packets that were moved.
Unmoved(p) ==
  [c \in Col |->
     LET gone == Moved(p) - c * RowItems
     IN SubSeq(row_recv[p][c], IF gone > 0 THEN gone + 1 ELSE 1, Len(row_recv[p][c]))]

\* MUTANT: one PE that has moved all its packets speaks for all of them.
OneMoved == \E p \in PE : Moved(p) = Slots

AllMoved == \A p \in PE : Moved(p) = Slots

\* Each pivots what it can and exchanges its column buffers with the PEs of its
\* column; together they find whether any packet was left.
ColumnExchange ==
  /\ AllAt("pivot")
  /\ col_recv'  = [p \in PE |-> [r \in Row |->
                     [items |-> Pivoted(Rank(r, ColOf(p)), RowOf(p)), next |-> 0]]]
  /\ row_recv'  = [p \in PE |-> Unmoved(p)]
  /\ pull_row'  = [p \in PE |-> 0]
  /\ col_quiet' = [p \in PE |-> AllMoved]
  /\ Return(IF AllMoved /\ \A p \in PE : row_quiet[p] THEN "NEAR" ELSE "OK")
  /\ UNCHANGED <<steady, row_send, overflow, row_quiet, over, history>>

-----------------------------------------------------------------------------
(* convey_reset and convey_begin *)

Reset(p) ==
  /\ at[p] = "client" /\ state[p] = "complete" /\ round[p] < MaxRounds
  /\ state' = [state EXCEPT ![p] = "dormant"]
  /\ UNCHANGED <<steady, rows, quiet, columns, vote, at, over, history>>

\* twohop_begin, up to its barrier; pull_row stays where it is.
Begin(p) ==
  /\ at[p] = "client" /\ state[p] = "dormant"
  /\ row_send'  = [row_send EXCEPT ![p] = EmptyRow]
  /\ row_recv'  = [row_recv EXCEPT ![p] = EmptyRow]
  /\ col_recv'  = [col_recv EXCEPT ![p] = EmptyCol]
  /\ overflow'  = [overflow EXCEPT ![p] = FALSE]
  /\ row_quiet' = [row_quiet EXCEPT ![p] = FALSE]
  /\ col_quiet' = [col_quiet EXCEPT ![p] = TRUE]
  /\ at'        = [at EXCEPT ![p] = "begin"]
  /\ UNCHANGED <<steady, pull_row, state, vote, over, history>>

\* The barrier lets all of them into the new round.
FinishBegin ==
  /\ AllAt("begin")
  /\ at'     = [p \in PE |-> "client"]
  /\ state'  = [p \in PE |-> "working"]
  /\ over'   = [p \in PE |-> FALSE]
  /\ pushed' = [p \in PE |-> [d \in PE |-> 0]]
  /\ got'    = [p \in PE |-> [s \in PE |-> <<>>]]
  /\ round'  = [p \in PE |-> round[p] + 1]
  /\ UNCHANGED <<steady, rows, quiet, columns, vote>>

Finished == /\ \A p \in PE : state[p] = "complete" /\ round[p] = MaxRounds
            /\ UNCHANGED vars

-----------------------------------------------------------------------------
Next == \/ \E p \in PE : \/ \E d \in PE : Push(p, d) \/ PushFails(p, d)
                         \/ Pull(p) \/ PullNothing(p) \/ Unpull(p)
                         \/ \E d \in BOOLEAN : StartAdvance(p, d)
                         \/ Reset(p) \/ Begin(p)
        \/ AgreeNot \/ RowExchange \/ ColumnExchange \/ FinishBegin \/ Finished

Spec == Init /\ [][Next]_vars

\* The client goes on advancing, done or not, goes on pulling until there is
\* nothing to pull, and gives items back only so often.
Fairness ==
  /\ WF_vars(AgreeNot \/ RowExchange \/ ColumnExchange \/ FinishBegin)
  /\ \A p \in PE : /\ WF_vars(\E d \in BOOLEAN : StartAdvance(p, d))
                   /\ SF_vars(Pull(p) \/ PullNothing(p))
                   /\ <>[][~Unpull(p)]_vars

FairSpec == Spec /\ Fairness

-----------------------------------------------------------------------------
(* Properties *)

\* The types of the variables; no packet is written beyond the end of a buffer.
TypeOK ==
  /\ steady \in Steady
  /\ \A p \in PE : /\ \A c \in Col : /\ Len(row_send[p][c]) <= RowItems
                                     /\ Len(row_recv[p][c]) <= RowItems
                   /\ \A r \in Row : /\ Len(col_recv[p][r].items) <= ColItems
                                     /\ col_recv[p][r].next \in
                                          0 .. Len(col_recv[p][r].items)
  /\ pull_row \in [PE -> 0 .. n_rows]
  /\ overflow \in [PE -> BOOLEAN] /\ over \in [PE -> BOOLEAN]
  /\ row_quiet \in [PE -> BOOLEAN] /\ col_quiet \in [PE -> BOOLEAN]
  /\ state \in [PE -> {"dormant", "working", "endgame", "cleanup", "complete"}]
  /\ at \in [PE -> {"client", "agree", "pivot", "begin"}]

\* Between the PEs there are FIFO links: every item gets to its destination in
\* order, named by its source, also when a pivot stops half way, and
\* convey_DONE is returned only when no item is left in either dimension.
Links == INSTANCE FifoLinks WITH
  PE <- PE, Live <- PE, sent <- pushed, closed <- over,
  drained <- [p \in PE |-> state[p] \in {"complete", "dormant"}]
LinksSpec == Links!Spec

\* When all the clients are done, all get convey_DONE, though pivots that stop
\* half way ask for more column exchanges.
Completes == (\A p \in PE : over[p])
               ~> (\A p \in PE : state[p] \in {"complete", "dormant"})

\* A steady conveyor delivers an item though no client is done: a PE goes on
\* wishing to communicate for what waits to be sent or to be pivoted.
Sent(p, d)     == pushed[p][d] > Len(got[d][p])
SteadyDelivery == (steady /\ \E p, d \in PE : Sent(p, d))
                    ~> ~(\E p, d \in PE : Sent(p, d))

\* The conveyor always gets on, in the endgame and before it.
Progress == Completes /\ SteadyDelivery
=============================================================================
