-------------------------------- MODULE Accel --------------------------------
(***************************************************************************)
(* The specialised methods of an accelerated tensor conveyor               *)
(* (convey/accel.c, setup_methods of tensor.c): a session for items of a   *)
(* usual size replaces push and pull by functions compiled for that size   *)
(* and for the tags of the porters, and chooses the pivots likewise.  The  *)
(* end of the session puts the standard methods back.                      *)
(***************************************************************************)
EXTENDS Integers, Sequences

CONSTANTS
  Widths,     \* tag_bytes[] of the conveyors, from the first porter to the last
  ItemSizes   \* the sizes of the items of a session

VARIABLE conveyor   \* its tags, the size of its items, and its methods
accelVars == <<conveyor>>

NULL     == [name |-> "NULL"]
Standard == [name |-> "standard"]

order    == Len(conveyor.tags)
tags(k)  == conveyor.tags[k + 1]

\* porter_packet_size: the stride of the packets of a porter.
porter_stride(tag, item) ==
  IF tag = 0 THEN item ELSE tag + tag * ((item + tag - 1) \div tag)

-----------------------------------------------------------------------------
(* The functions that are compiled: what each takes for granted *)

Packet(tag, item) == IF tag = 0 THEN item ELSE tag * (1 + (item + tag - 1) \div tag)

\* vector_push, matrix_push and tensor_push, by the number of hops
Push(ord, tag, item) == [name |-> "push", order |-> ord, tag |-> tag,
                         item |-> item, stride |-> Packet(tag, item)]

\* vector_pull, matrix_pull and tensor_pull
Pull(ord, tag, item) == [name |-> "pull", order |-> ord, tag |-> tag,
                         item |-> item, stride |-> Packet(tag, item)]

\* pivot_mid, pivot_early and pivot_late: the tags that they read and write,
\* the size of the items (0 for any), and the stride at which they read (0
\* for that of the porter).
Pivot(name, tag, item) ==
  LET reads == IF name = "late" THEN tag ELSE 4
  IN [name |-> name, reads |-> reads, writes |-> IF name = "late" THEN 4 ELSE tag,
      item |-> item, stride |-> IF item = 0 THEN 0 ELSE Packet(reads, item)]

-----------------------------------------------------------------------------
(* The tables, and the functions that choose from them *)

Item(index) == 4 * (index + 1)

push_functions(i) == << Push(1, 0, Item(i)), Push(1, 4, Item(i)), Push(2, 1, Item(i)),
                        Push(2, 4, Item(i)), Push(3, 4, Item(i)) >>

pull_functions(i) == << Pull(1, 0, Item(i)), Pull(2, 4, Item(i)), Pull(3, 4, Item(i)),
                        Pull(2, 1, Item(i)) >>

pivot_functions(i) ==
  << Pivot("mid", 1, Item(i)), Pivot("mid", 4, Item(i)),
     Pivot("early", 1, Item(i)), Pivot("early", 2, Item(i)), Pivot("early", 4, Item(i)),
     Pivot("late", 1, Item(i)), Pivot("late", 2, Item(i)), Pivot("late", 4, Item(i)) >>

item_index(item) == IF item > 32 \/ item % 4 # 0 THEN -1 ELSE item \div 4 - 1

select_push(ord, tag, item) ==
  LET index == item_index(item)
  IN CASE index < 0             -> NULL
       [] index >= 0 /\ ord = 1 /\ tag = 0 -> push_functions(index)[1]
       [] index >= 0 /\ ord = 1 /\ tag = 4 -> push_functions(index)[2]
       [] index >= 0 /\ ord = 2 /\ tag = 1 -> push_functions(index)[3]
       [] index >= 0 /\ ord = 2 /\ tag = 4 -> push_functions(index)[4]
       [] index >= 0 /\ ord = 3 /\ tag = 4 -> push_functions(index)[5]
       [] OTHER -> NULL

select_pull(ord, tag, item) ==
  LET index == item_index(item)
  IN CASE index < 0                                      -> NULL
       [] index >= 0 /\ ord = 2 /\ tag = 1               -> pull_functions(index)[4]
       [] index >= 0 /\ tag = (IF ord = 1 THEN 0 ELSE 4) -> pull_functions(index)[ord]
       [] OTHER                                          -> NULL

select_pivot_mid(tag, item) ==
  LET index == item_index(item)
  IN CASE tag \notin {1, 4} -> NULL
       [] tag \in {1, 4} /\ index < 0  -> Pivot("mid", tag, 0)
       [] tag \in {1, 4} /\ index >= 0 -> pivot_functions(index)[IF tag = 4 THEN 2 ELSE 1]

\* _trailz of a power of two
log(tag) == CASE tag = 1 -> 0 [] tag = 2 -> 1 [] tag = 4 -> 2

select_pivot_early(tag, item) ==
  LET index == item_index(item)
  IN CASE tag \notin {1, 2, 4} -> NULL
       [] tag \in {1, 2, 4} /\ index < 0  -> Pivot("early", tag, 0)
       [] tag \in {1, 2, 4} /\ index >= 0 -> pivot_functions(index)[3 + log(tag)]

select_pivot_late(tag, item) ==
  LET index == item_index(item)
  IN CASE tag \notin {1, 2, 4} -> NULL
       [] tag \in {1, 2, 4} /\ index < 0  -> Pivot("late", tag, 0)
       [] tag \in {1, 2, 4} /\ index >= 0 -> pivot_functions(index)[6 + log(tag)]

-----------------------------------------------------------------------------
NoPivots == <<NULL, NULL>>

\* The pivots for tags t and items of a size (0 for any).
PivotsFor(t, item) ==
  CASE Len(t) = 1 -> NoPivots
    [] Len(t) = 2 -> <<select_pivot_mid(t[2], item), NULL>>
    [] Len(t) = 3 -> <<select_pivot_early(t[2], item), select_pivot_late(t[2], item)>>

AccelInit ==
  \E t \in Widths : conveyor = [tags |-> t, item |-> 0, push |-> Standard,
                                pull |-> Standard, pivots |-> PivotsFor(t, 0)]

\* The standard method, unless there is a better one.
Better(standard, method) == IF method = NULL THEN standard ELSE method

\* tensor_begin: setup_methods.
Begin ==
  /\ conveyor.item = 0
  /\ \E item \in ItemSizes :
       conveyor' = [conveyor EXCEPT
         !.item = item,
         !.push = Better(@, select_push(order, tags(0), item)),
         !.pull = Better(@, select_pull(order, tags(order - 1), item)),
         !.pivots = PivotsFor(conveyor.tags, item)]

\* MUTANT: the class of the methods is kept for the next session.
ResetLazily ==
  /\ conveyor.item # 0
  /\ conveyor' = [conveyor EXCEPT !.item = 0, !.pivots = NoPivots]

\* tensor_reset: reset_methods.
Reset ==
  /\ conveyor.item # 0
  /\ conveyor' = [conveyor EXCEPT !.item = 0, !.push = Standard, !.pull = Standard,
                                  !.pivots = NoPivots]

-----------------------------------------------------------------------------
(* Properties *)

\* During a session, every method that is specialised takes for granted what
\* the porters do: the size of the items, the width of their tags, the stride
\* of their packets; and no pivot that a hop needs is missing.
Fits(method, k) ==
  method # Standard => /\ method.order = order /\ method.tag = tags(k)
                       /\ method.item = conveyor.item
                       /\ method.stride = porter_stride(tags(k), conveyor.item)

PivotFits(pivot, name, k) ==
  /\ pivot # NULL /\ pivot.name = name
  /\ pivot.reads = tags(k) /\ pivot.writes = tags(k + 1)
  /\ pivot.item # 0 => /\ pivot.item = conveyor.item
                       /\ pivot.stride = porter_stride(tags(k), conveyor.item)

MethodsFit ==
  conveyor.item # 0 =>
    /\ Fits(conveyor.push, 0) /\ Fits(conveyor.pull, order - 1)
    /\ order = 2 => PivotFits(conveyor.pivots[1], "mid", 0)
    /\ order = 3 => /\ PivotFits(conveyor.pivots[1], "early", 0)
                    /\ PivotFits(conveyor.pivots[2], "late", 1)
=============================================================================
