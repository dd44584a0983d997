------------------------------- MODULE TopoSort -------------------------------
(***************************************************************************)
(* toposort_matrix_convey (apps/topo.cpp): row and column permutations     *)
(* that make a matrix upper triangular.  A row with one nonzero left is    *)
(* matched with its column, the column is deleted from the other rows, and *)
(* so on; nothing but the conveyor keeps the PEs together.  Rows and       *)
(* columns are spread over the PEs in turn.                                *)
(***************************************************************************)
EXTENDS Conveyor, FiniteSetsExt

CONSTANTS
  Size,          \* rows and columns of the matrix
  Matrices       \* sets of nonzeros <<row, column>>, permuted triangles

VARIABLE mat     \* the nonzeros of the matrix at hand

lnr(p) == (Size + THREADS - p - 1) \div THREADS
LocalRows(p) == 0 .. lnr(p)-1

\* The columns of local row i, and the rows of column c in ascending order.
RowOf(i, p) == {e[2] : e \in {x \in mat : x[1] = Global(i, p)}}
ColumnOf(c) == SelectSeq([r \in 1 .. Size |-> r - 1], LAMBDA r : <<r, c>> \in mat)

Ascending(S) == SelectSeq([i \in 1 .. Size |-> i - 1], LAMBDA i : i \in S)

TopoInit(items) ==
  /\ mat \in Matrices
  /\ conv = [main |-> New(TRUE, items), pos |-> New(FALSE, items)]
  /\ my = [p \in Thread |->
       [at |-> "advance", done |-> 0,              \* r_and_c_done
        rowqueue |-> Ascending({i \in LocalRows(p) : Cardinality(RowOf(i, p)) = 1}),
        colqueue |-> <<>>, curr_col |-> 0, col_level |-> 0, col_rows |-> <<>>,
        rowsum |-> [i \in LocalRows(p) |-> SumSet(RowOf(i, p))],
        rowcnt |-> [i \in LocalRows(p) |-> Cardinality(RowOf(i, p))],
        level  |-> [i \in LocalRows(p) |-> 0],
        matched_col |-> [i \in LocalRows(p) |-> 0],
        i |-> 0,
        rperm |-> [i \in LocalRows(p) |-> 0], cperm |-> [i \in LocalRows(p) |-> 0]]]

TopoAdvance(p) ==
  LET main == Advanced(conv.main, p, my[p].done = 2 * lnr(p))
  IN /\ At(p, "advance")
     /\ conv' = [conv EXCEPT !.main = main]
     /\ Set(p, [my[p] EXCEPT !.at = IF More(main, p) THEN "rows" ELSE "levels"])

CanPushRow(p) ==
  /\ my[p].rowqueue # <<>>
  /\ CanPush(conv.main, p, Owner(my[p].rowsum[Head(my[p].rowqueue)]))

\* The column of a row with one nonzero left is sent to its owner.
PushRow(p) ==
  LET row == Head(my[p].rowqueue)
      col == my[p].rowsum[row]
  IN /\ At(p, "rows") /\ CanPushRow(p)
     /\ conv' = [conv EXCEPT !.main = Pushed(@, p, Owner(col),
          [type |-> "row", col |-> col, level |-> my[p].level[row]])]
     /\ Set(p, [my[p] EXCEPT !.matched_col[row] = col, !.done = @ + 1,
                             !.rowqueue = Tail(@)])

EndRows(p) ==
  /\ At(p, "rows") /\ ~CanPushRow(p)
  /\ Goto(p, IF my[p].rowqueue = <<>> THEN "columns" ELSE "pull")

\* Turn to the next column in the queue.
NextColumn(p) ==
  LET next == Head(my[p].colqueue)
  IN /\ At(p, "columns") /\ my[p].col_rows = <<>> /\ my[p].colqueue # <<>>
     /\ Set(p, [my[p] EXCEPT !.curr_col = next.col, !.col_level = next.level,
                             !.col_rows = ColumnOf(next.col), !.colqueue = Tail(@)])
     /\ UNCHANGED conv

CanPushEntry(p) == /\ my[p].col_rows # <<>>
                   /\ CanPush(conv.main, p, Owner(Head(my[p].col_rows)))

\* A column is done with its last entry.
PushEntry(p) ==
  LET row == Head(my[p].col_rows)
  IN /\ At(p, "columns") /\ CanPushEntry(p)
     /\ conv' = [conv EXCEPT !.main = Pushed(@, p, Owner(row),
          [type |-> "entry", row |-> Local(row), col |-> my[p].curr_col,
           level |-> my[p].col_level])]
     /\ Set(p, [my[p] EXCEPT !.col_rows = Tail(@),
                             !.done = IF Len(my[p].col_rows) = 1 THEN @ + 1 ELSE @])

EndColumns(p) ==
  /\ At(p, "columns") /\ ~CanPushEntry(p)
  /\ my[p].col_rows = <<>> => my[p].colqueue = <<>>
  /\ Goto(p, "pull")

\* MUTANT: the level of a row is that of the last entry that was deleted.
RaisedLast(p, entry) == entry.level + 1

\* The level of a row, one more than that of any entry deleted from it.
Raised(p, entry) == IF entry.level >= my[p].level[entry.row]
                    THEN entry.level + 1 ELSE my[p].level[entry.row]

\* The entry is deleted from its row.
AfterEntry(p, entry) ==
  LET cnt == my[p].rowcnt[entry.row] - 1
  IN [my[p] EXCEPT !.rowsum[entry.row] = @ - entry.col,
                   !.rowcnt[entry.row] = cnt,
                   !.level[entry.row]  = Raised(p, entry),
                   !.rowqueue = IF cnt = 1 THEN Append(@, entry.row) ELSE @]

PullTopo(p) ==
  /\ At(p, "pull")
  /\ \E q \in Sources(conv.main, p) :
       LET item == First(conv.main, p, q)
       IN /\ conv' = [conv EXCEPT !.main = Pulled(@, p, q)]
          /\ Set(p, IF item.type = "row"
                    THEN [my[p] EXCEPT !.colqueue =
                            Append(@, [col |-> item.col, level |-> item.level])]
                    ELSE AfterEntry(p, item))

EndPullTopo(p) ==
  /\ At(p, "pull") /\ Sources(conv.main, p) = {}
  /\ Goto(p, "advance")

Placing == {"levels", "advance2", "send", "place", "done"}

\* How many rows get their positions before row i of PE p: those of lower
\* levels, of the same level at lower PEs, and those before it at PE p.
Before(i, p) ==
  Cardinality({r \in Thread \X (0 .. Size-1) :
    /\ r[2] \in LocalRows(r[1])
    /\ \/ my[r[1]].level[r[2]] < my[p].level[i]
       \/ /\ my[r[1]].level[r[2]] = my[p].level[i]
          /\ r[1] < p \/ (r[1] = p /\ r[2] < i)})

\* The reductions and prefix sums, which wait for all PEs.
Levels(p) ==
  /\ At(p, "levels") /\ AllThreadsAt(Placing)
  /\ Set(p, [my[p] EXCEPT !.at = "advance2",
               !.rperm = [i \in LocalRows(p) |-> (Size - 1) - Before(i, p)]])
  /\ UNCHANGED conv

PosAdvance(p) ==
  LET pos == Advanced(conv.pos, p, my[p].i = lnr(p))
  IN /\ At(p, "advance2")
     /\ conv' = [conv EXCEPT !.pos = pos]
     /\ Set(p, [my[p] EXCEPT !.at = IF More(pos, p) THEN "send" ELSE "done"])

CanSendPos(p) == /\ my[p].i < lnr(p)
                 /\ CanPush(conv.pos, p, Owner(my[p].matched_col[my[p].i]))

\* The position of a row is that of its column.
SendPos(p) ==
  LET col == my[p].matched_col[my[p].i]
  IN /\ At(p, "send") /\ CanSendPos(p)
     /\ conv' = [conv EXCEPT !.pos = Pushed(@, p, Owner(col),
                   [pos |-> my[p].rperm[my[p].i], col |-> Local(col)])]
     /\ Set(p, [my[p] EXCEPT !.i = @ + 1])

EndSendPos(p) == At(p, "send") /\ ~CanSendPos(p) /\ Goto(p, "place")

Place(p) ==
  /\ At(p, "place")
  /\ \E q \in Sources(conv.pos, p) :
       LET item == First(conv.pos, p, q)
       IN /\ conv' = [conv EXCEPT !.pos = Pulled(@, p, q)]
          /\ Set(p, [my[p] EXCEPT !.cperm[item.col] = item.pos])

EndPlace(p) ==
  /\ At(p, "place") /\ Sources(conv.pos, p) = {}
  /\ Goto(p, "advance2")

TopoStep(p) ==
  \/ TopoAdvance(p)
  \/ PushRow(p) \/ EndRows(p)
  \/ NextColumn(p) \/ PushEntry(p) \/ EndColumns(p)
  \/ PullTopo(p) \/ EndPullTopo(p)
  \/ Levels(p) \/ PosAdvance(p)
  \/ SendPos(p) \/ EndSendPos(p) \/ Place(p) \/ EndPlace(p)

\* check_is_triangle: both are permutations, and they take every nonzero to
\* the diagonal or above it, which is full.
NewRow(r)    == my[Owner(r)].rperm[Local(r)]
NewColumn(c) == my[Owner(c)].cperm[Local(c)]
Sorted ==
  LET all == 0 .. Size-1
  IN AllThreadsAt({"done"}) =>
       /\ {NewRow(r) : r \in all} = all /\ {NewColumn(c) : c \in all} = all
       /\ \A e \in mat : NewRow(e[1]) <= NewColumn(e[2])
       /\ \A i \in all : \E e \in mat : NewRow(e[1]) = i /\ NewColumn(e[2]) = i
=============================================================================
