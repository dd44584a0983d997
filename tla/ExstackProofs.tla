---------------------------- MODULE ExstackProofs ----------------------------
(***************************************************************************)
(* Theorems about Exstack for every number of PEs, buffer size and bound.  *)
(***************************************************************************)
EXTENDS Exstack, SequenceTheorems, TLAPS

(* Sequences *)

\* A sequence without its last element.
LEMMA Shorter ==
  ASSUME NEW q \in Seq(Nat), Len(q) > 0
  PROVE  /\ SubSeq(q, 1, Len(q) - 1) \in Seq(Nat)
         /\ Len(SubSeq(q, 1, Len(q) - 1)) = Len(q) - 1
         /\ \A i \in 1 .. Len(q) - 1 : SubSeq(q, 1, Len(q) - 1)[i] = q[i]
<1>1. Len(q) \in Nat /\ Len(q) - 1 \in Nat /\ \A i \in 1 .. Len(q) - 1 : q[i] \in Nat
  OBVIOUS
<1> DEFINE n == Len(q) - 1
           f == SubSeq(q, 1, n)
<1> HIDE DEF n
<1>2. n \in Nat /\ \A i \in 1 .. n : q[i] \in Nat
  BY <1>1 DEF n
<1>3. /\ f \in Seq(Nat) /\ Len(f) = IF 1 <= n THEN n - 1 + 1 ELSE 0
      /\ \A i \in 1 .. n - 1 + 1 : f[i] = q[1 + i - 1]
  BY <1>2, SubSeqProperties
<1>4. Len(f) = n
  BY <1>2, <1>3
<1>5. \A i \in 1 .. n : f[i] = q[i]
  BY <1>2, <1>3
<1> QED
  BY <1>3, <1>4, <1>5 DEF n

(* The inductive invariant *)

\* Where a PE stands between two barriers, given its stage and its half.
Segment(st, sec) ==
  IF st \in {"loop", "proceed"} \/ (st \in {"point", "pop"} /\ (sec <=> Answers))
  THEN "meet"
  ELSE IF \/ st \in {"decide", "push", "left", "reset"}
          \/ st \in {"exchanging", "exchange"} /\ ~sec
  THEN "first"
  ELSE IF st \in {"clear", "cleared"}
  THEN IF sec THEN "cleared again" ELSE "cleared"
  ELSE IF st \in {"exchange_start", "exchanging", "exchange"}
  THEN "second"
  ELSE "answer"

In(p) == Segment(stage[p], second[p])

\* Only a loop with answers has another half.
HalfOK == \A p \in Thread :
  /\ second[p] => Answers
  /\ stage[p] \in {"loop", "proceed", "decide", "push", "left", "reset"} => ~second[p]
  /\ stage[p] \in {"between", "exchange_start"} => second[p]

\* All PEs are between the same two barriers.
Together == \A p, q \in Thread : In(p) = In(q)

Stages == {"loop", "proceed", "decide", "push", "exchanging", "exchange", "clear",
           "cleared", "point", "pop", "between", "exchange_start", "left", "reset"}

ControlInv ==
  /\ stage \in [Thread -> Stages] /\ second \in [Thread -> BOOLEAN]
  /\ HalfOK /\ Together

LEMMA StagesAre ==
  /\ DOMAIN Passed = {"proceed", "exchange", "cleared", "between", "reset"}
  /\ Passed["proceed"] = "decide" /\ Passed["exchange"] = "clear"
  /\ Passed["cleared"] = "point" /\ Passed["between"] = "exchange_start"
  /\ Passed["reset"] = "loop"
  /\ Stages = DOMAIN Passed \cup {Passed[b] : b \in DOMAIN Passed}
                      \cup {"push", "exchanging", "pop", "left"}
<1>1. DOMAIN Passed = {"proceed", "exchange", "cleared", "between", "reset"}
  BY DEF Passed
<1>2. /\ Passed["proceed"] = "decide" /\ Passed["exchange"] = "clear"
      /\ Passed["cleared"] = "point" /\ Passed["between"] = "exchange_start"
      /\ Passed["reset"] = "loop"
  BY DEF Passed
<1>3. {Passed[b] : b \in DOMAIN Passed} = {"decide", "clear", "point", "exchange_start", "loop"}
  BY <1>1, <1>2
<1> QED
  BY <1>1, <1>2, <1>3 DEF Stages

\* What PE p does by itself keeps it in its segment.
LEMMA Alone ==
  ASSUME ControlInv, NEW p \in Thread,
         \/ Proceed(p) \/ Decide(p) \/ Exchange(p) \/ ResetEx(p)
         \/ Pop(p) \/ Unpop(p) \/ PopNone(p)
         \/ \E q \in Thread : PushEx(p, q) \/ PopThread(p, q)
  PROVE  /\ \A q \in Thread \ {p} : stage'[q] = stage[q] /\ second'[q] = second[q]
         /\ Segment(stage'[p], second'[p]) = In(p)
         /\ stage' \in [Thread -> Stages] /\ second' \in [Thread -> BOOLEAN]
         /\ second'[p] => Answers
         /\ stage'[p] \in {"loop", "proceed", "decide", "push", "left", "reset"} => ~second'[p]
         /\ stage'[p] \in {"between", "exchange_start"} => second'[p]
<1> USE DEF ControlInv, HalfOK, Goto, Stages
<1>1. CASE Proceed(p)
  BY <1>1 DEF Proceed, Meet, In, Segment
<1>2. CASE Decide(p)
  BY <1>2 DEF Decide, In, Segment
<1>3. CASE StartExchange(p)
  BY <1>3 DEF StartExchange, In, Segment
<1>4. CASE PutOne(p)
  BY <1>4 DEF PutOne, In, Segment
<1>5. CASE Clear(p)
  BY <1>5 DEF Clear, In, Segment
<1>6. CASE Point(p)
  BY <1>6 DEF Point, In, Segment
<1>7. CASE ResetEx(p)
  BY <1>7 DEF ResetEx, In, Segment
<1>8. CASE Pop(p) \/ Unpop(p) \/ \E q \in Thread : PushEx(p, q) \/ PopThread(p, q)
  BY <1>8 DEF Pop, Unpop, PushEx, PopThread, In
<1>9. CASE PopNone(p)
  BY <1>9 DEF PopNone, Between, In, Segment
<1> QED
  BY <1>1, <1>2, <1>3, <1>4, <1>5, <1>6, <1>7, <1>8, <1>9 DEF Exchange

\* Each of the five barriers is at the end of one segment.
LEMMA AtBarrier ==
  ASSUME ControlInv, NEW b \in DOMAIN Passed, Barrier(b)
  PROVE  /\ b \in {"proceed", "exchange", "cleared", "between", "reset"}
         /\ \A p \in Thread : stage[p] = b /\ stage'[p] = Passed[b]
         /\ stage' \in [Thread -> Stages] /\ second' = second
         /\ \A p, q \in Thread : b \in {"exchange", "cleared"} => second[p] = second[q]
<1>1. /\ b \in {"proceed", "exchange", "cleared", "between", "reset"}
      /\ Passed[b] \in Stages
  BY StagesAre
<1>2. /\ \A p \in Thread : stage[p] = b /\ stage'[p] = Passed[b]
      /\ stage' \in [Thread -> Stages] /\ second' = second
  BY <1>1 DEF Barrier
<1>3. ASSUME NEW p \in Thread, NEW q \in Thread, b \in {"exchange", "cleared"}
      PROVE  second[p] = second[q]
  <2>1. Segment(b, second[p]) = Segment(b, second[q])
    BY <1>2 DEF ControlInv, Together, In
  <2>2. (second[p] \in BOOLEAN) /\ (second[q] \in BOOLEAN)
    BY DEF ControlInv
  <2>3. second[p] <=> second[q]
    BY <1>3, <2>1 DEF Segment
  <2> QED
    BY <2>2, <2>3
<1> QED
  BY <1>1, <1>2, <1>3

LEMMA ControlBarrier ==
  ASSUME ControlInv, NEW b \in DOMAIN Passed, Barrier(b)
  PROVE  ControlInv'
<1>1. /\ b \in {"proceed", "exchange", "cleared", "between", "reset"}
      /\ \A p \in Thread : stage[p] = b /\ stage'[p] = Passed[b]
      /\ stage' \in [Thread -> Stages] /\ second' = second
      /\ \A p, q \in Thread : b \in {"exchange", "cleared"} => second[p] = second[q]
  BY AtBarrier
<1>2. HalfOK'
  BY <1>1, StagesAre DEF ControlInv, HalfOK
<1>3. ASSUME NEW p \in Thread, NEW q \in Thread
      PROVE  In(p)' = In(q)'
  <2>1. Segment(Passed[b], second[p]) = Segment(Passed[b], second[q])
    BY <1>1, StagesAre DEF Segment
  <2> QED
    BY <1>1, <2>1 DEF In
<1> QED
  BY <1>1, <1>2, <1>3 DEF ControlInv, Together

\* The stages and halves of the PEs stay in step.
LEMMA ControlNext ==
  ASSUME ControlInv, [NextEx]_exvars
  PROVE  ControlInv'
<1>1. ASSUME NEW p \in Thread,
             \/ Proceed(p) \/ Decide(p) \/ Exchange(p) \/ ResetEx(p)
             \/ Pop(p) \/ Unpop(p) \/ PopNone(p)
             \/ \E q \in Thread : PushEx(p, q) \/ PopThread(p, q)
      PROVE  ControlInv'
  <2>1. /\ \A q \in Thread \ {p} : stage'[q] = stage[q] /\ second'[q] = second[q]
        /\ Segment(stage'[p], second'[p]) = In(p)
        /\ stage' \in [Thread -> Stages] /\ second' \in [Thread -> BOOLEAN]
        /\ second'[p] => Answers
        /\ stage'[p] \in {"loop", "proceed", "decide", "push", "left", "reset"} => ~second'[p]
        /\ stage'[p] \in {"between", "exchange_start"} => second'[p]
    BY <1>1, Alone
  <2>2. HalfOK'
    BY <2>1 DEF ControlInv, HalfOK
  <2>3. \A q \in Thread : In(q)' = In(q)
    BY <2>1 DEF In
  <2> QED
    BY <2>1, <2>2, <2>3 DEF ControlInv, Together
<1>2. CASE \/ LandPut \/ LandFlag \/ FinishedEx \/ UNCHANGED exvars
  <2>1. stage' = stage /\ second' = second
    BY <1>2 DEF LandPut, LandFlag, FinishedEx, exvars
  <2> QED
    BY <2>1 DEF ControlInv, HalfOK, Together, In
<1>3. ASSUME NEW b \in DOMAIN Passed, Barrier(b) PROVE ControlInv'
  BY <1>3, ControlBarrier
<1> QED
  BY <1>1, <1>2, <1>3 DEF NextEx

-----------------------------------------------------------------------------
(* The end of the loop *)

\* Flags are on their way only before the barrier of exstack_proceed().
FlagsOK == flags # {} => \A q \in Thread : In(q) = "meet"

\* Until a PE leaves, wait_done says who has set notify_done.
NoticeOK == \A s, d \in Thread :
  notify_done[s] = 1 <=> (wait_done[d][s] = 1 \/ [from |-> s, to |-> d] \in flags)

Gone(p)  == stage[p] \in {"left", "reset"}
Leaving  == \E q \in Thread : Gone(q)

\* Once a PE leaves, all have decided to or will.
LeavingOK == \A p \in Thread :
  /\ stage[p] \in {"decide", "left", "reset"}
  /\ stage[p] # "reset" => Breakout(p)
  /\ stage[p] = "reset" => notify_done[p] = 0 /\ \A s \in Thread : wait_done[p][s] = 0

\* A PE that goes on saw that someone is not done, as will those who have yet
\* to decide.
DecideOK == \A p, q \in Thread :
  stage[p] = "decide" /\ stage[q] \in {"push", "exchanging", "exchange"}
    => \E s \in Thread : notify_done[s] = 0

EndgameInv ==
  /\ wait_done \in [Thread -> [Thread -> {0, 1}]] /\ notify_done \in [Thread -> {0, 1}]
  /\ flags \subseteq [from : Thread, to : Thread]
  /\ FlagsOK /\ (~Leaving => NoticeOK) /\ (Leaving => LeavingOK) /\ DecideOK

\* The actions that have nothing to do with the end of the loop.
LEMMA Busy ==
  ASSUME ControlInv, NEW p \in Thread,
         \/ Exchange(p) \/ Pop(p) \/ Unpop(p) \/ PopNone(p)
         \/ \E q \in Thread : PushEx(p, q) \/ PopThread(p, q)
  PROVE  /\ UNCHANGED <<wait_done, notify_done, flags>>
         /\ stage[p] \notin {"decide", "left", "reset"}
         /\ stage'[p] \notin {"decide", "left", "reset"}
         /\ stage'[p] \in {"push", "exchanging", "exchange"} =>
              stage[p] \in {"push", "exchanging", "exchange"} \/ In(p) = "second"
<1> USE DEF ControlInv, HalfOK, Goto, endgame
<1>1. CASE StartExchange(p)
  BY <1>1 DEF StartExchange, In, Segment, Stages
<1>2. CASE PutOne(p)
  BY <1>2 DEF PutOne
<1>3. CASE Clear(p)
  BY <1>3 DEF Clear
<1>4. CASE Point(p)
  BY <1>4 DEF Point
<1>5. CASE Pop(p) \/ Unpop(p) \/ \E q \in Thread : PopThread(p, q)
  BY <1>5 DEF Pop, Unpop, PopThread
<1>6. ASSUME NEW q \in Thread, PushEx(p, q)
      PROVE  /\ UNCHANGED <<wait_done, notify_done, flags>>
             /\ stage' = stage /\ stage[p] \in {"push", "pop"}
  BY <1>6 DEF PushEx, MayPush
<1>7. CASE PopNone(p)
  BY <1>7 DEF PopNone, Between
<1> QED
  BY <1>1, <1>2, <1>3, <1>4, <1>5, <1>6, <1>7 DEF Exchange

LEMMA BusyEndgame ==
  ASSUME ControlInv, EndgameInv, NEW p \in Thread,
         \/ Exchange(p) \/ Pop(p) \/ Unpop(p) \/ PopNone(p)
         \/ \E q \in Thread : PushEx(p, q) \/ PopThread(p, q)
  PROVE  EndgameInv'
<1>1. /\ UNCHANGED <<wait_done, notify_done, flags>>
      /\ stage[p] \notin {"decide", "left", "reset"}
      /\ stage'[p] \notin {"decide", "left", "reset"}
      /\ stage'[p] \in {"push", "exchanging", "exchange"} =>
           stage[p] \in {"push", "exchanging", "exchange"} \/ In(p) = "second"
  BY Busy
<1>2. /\ \A q \in Thread \ {p} : stage'[q] = stage[q] /\ second'[q] = second[q]
      /\ \A q \in Thread : In(q)' = In(q)
  BY Alone DEF In
<1>3. FlagsOK'
  BY <1>1, <1>2 DEF EndgameInv, FlagsOK
<1>4. ~Leaving /\ ~Leaving'
  BY <1>1, <1>2 DEF EndgameInv, Leaving, LeavingOK, Gone
<1>5. NoticeOK'
  BY <1>1, <1>4 DEF EndgameInv, NoticeOK
<1>6. ASSUME NEW q \in Thread, NEW r \in Thread, stage'[q] = "decide",
             stage'[r] \in {"push", "exchanging", "exchange"}
      PROVE  \E s \in Thread : notify_done'[s] = 0
  <2>1. stage[q] = "decide" /\ In(q) = "first"
    BY <1>1, <1>2, <1>6 DEF In, Segment
  <2>2. stage[r] \in {"push", "exchanging", "exchange"}
    BY <1>1, <1>2, <1>6, <2>1 DEF ControlInv, Together
  <2> QED
    BY <1>1, <2>1, <2>2 DEF EndgameInv, DecideOK
<1>7. DecideOK'
  BY <1>6 DEF DecideOK
<1> QED
  BY <1>1, <1>3, <1>4, <1>5, <1>7 DEF EndgameInv

LEMMA ProceedEndgame ==
  ASSUME ControlInv, EndgameInv, NEW p \in Thread, Proceed(p)
  PROVE  EndgameInv'
<1>1. /\ \A q \in Thread \ {p} : stage'[q] = stage[q]
      /\ \A q \in Thread : In(q)' = In(q)
  BY Alone DEF In
<1>2. stage[p] = "loop" /\ stage'[p] = "proceed" /\ wait_done' = wait_done
  BY DEF Proceed, Meet, Goto, ControlInv
<1>3. \A q \in Thread : In(q) = "meet"
  <2>1. In(p) = "meet"
    BY <1>2 DEF In, Segment
  <2> QED
    BY <2>1 DEF ControlInv, Together
<1>4. ~Leaving /\ ~Leaving'
  BY <1>1, <1>2 DEF EndgameInv, Leaving, LeavingOK, Gone
<1>5. FlagsOK' /\ DecideOK'
  BY <1>1, <1>3 DEF FlagsOK, DecideOK, In, Segment
<1>6. CASE UNCHANGED <<notify_done, flags>>
  BY <1>2, <1>4, <1>5, <1>6 DEF EndgameInv, NoticeOK
<1>7. CASE notify_done[p] = 1 /\ notify_done' = [notify_done EXCEPT ![p] = 1]
           /\ flags' = flags
  <2>1. notify_done' = notify_done
    BY <1>7 DEF EndgameInv
  <2> QED
    BY <1>6, <1>7, <2>1
<1>8. CASE notify_done[p] # 1 /\ notify_done' = [notify_done EXCEPT ![p] = 1]
           /\ flags' = flags \cup [from : {p}, to : Thread]
  <2>1. /\ notify_done' \in [Thread -> {0, 1}] /\ notify_done'[p] = 1
        /\ \A s \in Thread \ {p} : notify_done'[s] = notify_done[s]
    BY <1>8 DEF EndgameInv
  <2>2. flags' \subseteq [from : Thread, to : Thread]
    BY <1>8 DEF EndgameInv
  <2>3. ASSUME NEW s \in Thread, NEW d \in Thread
        PROVE  [from |-> s, to |-> d] \in flags'
                 <=> [from |-> s, to |-> d] \in flags \/ s = p
    BY <1>8
  <2>4. NoticeOK'
    BY <1>2, <1>4, <2>1, <2>3 DEF EndgameInv, NoticeOK
  <2> QED
    BY <1>2, <1>4, <1>5, <2>1, <2>2, <2>4 DEF EndgameInv
<1> QED
  BY <1>6, <1>7, <1>8 DEF Proceed

\* A PE that breaks out of the loop is not alone: flags have landed.
LEMMA DecideEndgame ==
  ASSUME ControlInv, EndgameInv, NEW p \in Thread, Decide(p)
  PROVE  EndgameInv'
<1>1. /\ \A q \in Thread \ {p} : stage'[q] = stage[q]
      /\ \A q \in Thread : In(q)' = In(q)
  BY Alone DEF In
<1>2. /\ stage[p] = "decide" /\ UNCHANGED <<wait_done, notify_done, flags>>
      /\ stage'[p] = IF Breakout(p) THEN "left" ELSE "push"
  BY DEF Decide, Goto, ControlInv, endgame
<1>3. \A q \in Thread : In(q) = "first"
  <2>1. In(p) = "first"
    BY <1>2 DEF In, Segment
  <2> QED
    BY <2>1 DEF ControlInv, Together
<1>4. flags = {} /\ FlagsOK'
  BY <1>2, <1>3 DEF EndgameInv, FlagsOK
<1>5. ~Leaving => \A q, s \in Thread : notify_done[s] = 1 <=> wait_done[q][s] = 1
  BY <1>4 DEF EndgameInv, NoticeOK
<1>6. CASE Breakout(p)
  <2>1. LeavingOK
    <3>1. CASE Leaving
      BY <3>1 DEF EndgameInv
    <3>2. CASE ~Leaving
      <4>1. \A s \in Thread : notify_done[s] = 1
        BY <1>5, <1>6, <3>2 DEF Breakout, EveryoneDone
      <4>2. \A q \in Thread : Breakout(q)
        BY <1>5, <3>2, <4>1 DEF Breakout, EveryoneDone
      <4>3. \A q \in Thread : stage[q] = "decide"
        <5> SUFFICES ASSUME NEW q \in Thread PROVE stage[q] = "decide"
          OBVIOUS
        <5>1. stage[q] \notin {"push", "exchanging", "exchange"}
          BY <1>2, <4>1 DEF EndgameInv, DecideOK
        <5>2. stage[q] \notin {"left", "reset"}
          BY <3>2 DEF Leaving, Gone
        <5>3. stage[q] \in {"decide", "push", "left", "reset", "exchanging", "exchange"}
          BY <1>3 DEF In, Segment
        <5> QED
          BY <5>1, <5>2, <5>3
      <4> QED
        BY <4>2, <4>3 DEF LeavingOK
    <3> QED
      BY <3>1, <3>2
  <2>2. LeavingOK' /\ Leaving'
    BY <1>1, <1>2, <1>6, <2>1 DEF LeavingOK, Leaving, Gone, Breakout, EveryoneDone
  <2>3. DecideOK'
    BY <2>2 DEF LeavingOK, DecideOK
  <2> QED
    BY <1>2, <1>4, <2>2, <2>3 DEF EndgameInv
<1>7. CASE ~Breakout(p)
  <2>1. ~Leaving /\ ~Leaving'
    BY <1>1, <1>2, <1>7 DEF EndgameInv, LeavingOK, Leaving, Gone
  <2>2. \E s \in Thread : notify_done[s] = 0
    BY <1>5, <1>7, <2>1 DEF EndgameInv, Breakout, EveryoneDone
  <2>3. NoticeOK' /\ DecideOK'
    BY <1>2, <2>1, <2>2 DEF EndgameInv, NoticeOK, DecideOK
  <2> QED
    BY <1>2, <1>4, <2>1, <2>3 DEF EndgameInv
<1> QED
  BY <1>6, <1>7

LEMMA ResetEndgame ==
  ASSUME ControlInv, EndgameInv, NEW p \in Thread, ResetEx(p)
  PROVE  EndgameInv'
<1>1. /\ \A q \in Thread \ {p} : stage'[q] = stage[q]
      /\ \A q \in Thread : In(q)' = In(q)
  BY Alone DEF In
<1>2. /\ stage[p] = "left" /\ stage'[p] = "reset" /\ flags' = flags
      /\ wait_done' = [wait_done EXCEPT ![p] = [s \in Thread |-> 0]]
      /\ notify_done' = [notify_done EXCEPT ![p] = 0]
  BY DEF ResetEx, Goto, ControlInv
<1>3. /\ wait_done' \in [Thread -> [Thread -> {0, 1}]] /\ notify_done' \in [Thread -> {0, 1}]
      /\ notify_done'[p] = 0 /\ \A s \in Thread : wait_done'[p][s] = 0
      /\ \A q \in Thread \ {p} : notify_done'[q] = notify_done[q] /\ wait_done'[q] = wait_done[q]
  BY <1>2 DEF EndgameInv
<1>4. LeavingOK
  BY <1>2 DEF EndgameInv, Leaving, Gone
<1>5. Leaving'
  BY <1>2 DEF Leaving, Gone
<1>6. LeavingOK'
  <2> SUFFICES ASSUME NEW q \in Thread
               PROVE  (/\ stage[q] \in {"decide", "left", "reset"}
                       /\ stage[q] # "reset" => Breakout(q)
                       /\ stage[q] = "reset" =>
                            notify_done[q] = 0 /\ \A s \in Thread : wait_done[q][s] = 0)'
    BY DEF LeavingOK
  <2>1. CASE q = p
    BY <1>2, <1>3, <2>1
  <2>2. CASE q # p
    BY <1>1, <1>3, <1>4, <2>2 DEF LeavingOK, Breakout, EveryoneDone
  <2> QED
    BY <2>1, <2>2
<1>7. FlagsOK' /\ DecideOK'
  BY <1>1, <1>2, <1>6 DEF EndgameInv, FlagsOK, LeavingOK, DecideOK
<1> QED
  BY <1>2, <1>3, <1>5, <1>6, <1>7 DEF EndgameInv

LEMMA LandFlagEndgame ==
  ASSUME ControlInv, EndgameInv, LandFlag
  PROVE  EndgameInv'
<1>1. PICK f \in flags : /\ wait_done' = [wait_done EXCEPT ![f.to][f.from] = 1]
                         /\ flags' = flags \ {f}
  BY DEF LandFlag
<1>2. stage' = stage /\ second' = second /\ notify_done' = notify_done
  BY DEF LandFlag
<1>3. f.from \in Thread /\ f.to \in Thread /\ f = [from |-> f.from, to |-> f.to]
  BY DEF EndgameInv
<1>4. ~Leaving /\ ~Leaving'
  <2>1. \A q \in Thread : In(q) = "meet"
    BY DEF EndgameInv, FlagsOK
  <2> QED
    BY <1>2, <2>1 DEF Leaving, Gone, In, Segment
<1>5. /\ wait_done' \in [Thread -> [Thread -> {0, 1}]]
      /\ \A d, s \in Thread : wait_done'[d][s] =
           IF d = f.to /\ s = f.from THEN 1 ELSE wait_done[d][s]
  BY <1>1, <1>3 DEF EndgameInv
<1>6. ASSUME NEW s \in Thread, NEW d \in Thread
      PROVE  [from |-> s, to |-> d] \in flags'
               <=> [from |-> s, to |-> d] \in flags /\ ~(d = f.to /\ s = f.from)
  BY <1>1, <1>3
<1>7. NoticeOK'
  <2> SUFFICES ASSUME NEW s \in Thread, NEW d \in Thread
               PROVE  notify_done'[s] = 1 <=>
                        (wait_done'[d][s] = 1 \/ [from |-> s, to |-> d] \in flags')
    BY DEF NoticeOK
  <2>1. notify_done[s] = 1 <=> (wait_done[d][s] = 1 \/ [from |-> s, to |-> d] \in flags)
    BY <1>4 DEF EndgameInv, NoticeOK
  <2>2. CASE d = f.to /\ s = f.from
    BY <1>2, <1>3, <1>5, <2>1, <2>2
  <2>3. CASE ~(d = f.to /\ s = f.from)
    BY <1>2, <1>5, <1>6, <2>1, <2>3
  <2> QED
    BY <2>2, <2>3
<1>8. FlagsOK' /\ DecideOK'
  BY <1>1, <1>2 DEF EndgameInv, FlagsOK, DecideOK, In
<1> QED
  BY <1>1, <1>2, <1>4, <1>5, <1>7, <1>8 DEF EndgameInv

LEMMA BarrierEndgame ==
  ASSUME ControlInv, EndgameInv, NEW b \in DOMAIN Passed, Barrier(b)
  PROVE  EndgameInv'
<1>1. /\ b \in {"proceed", "exchange", "cleared", "between", "reset"}
      /\ \A p \in Thread : stage[p] = b /\ stage'[p] = Passed[b]
  BY AtBarrier
<1>2. UNCHANGED <<wait_done, notify_done, flags>> /\ flags = {}
  BY DEF Barrier, endgame
<1>3. NoticeOK
  <2>1. CASE b = "reset"
    <3>1. \A p \in Thread : notify_done[p] = 0 /\ \A s \in Thread : wait_done[p][s] = 0
      BY <1>1, <2>1 DEF EndgameInv, Leaving, Gone, LeavingOK
    <3> QED
      BY <1>2, <3>1 DEF NoticeOK
  <2>2. CASE b # "reset"
    BY <1>1, <2>2 DEF EndgameInv, Leaving, Gone
  <2> QED
    BY <2>1, <2>2
<1>4. ~Leaving' /\ DecideOK'
  BY <1>1, StagesAre DEF Leaving, Gone, DecideOK
<1> QED
  BY <1>2, <1>3, <1>4 DEF EndgameInv, FlagsOK, NoticeOK

LEMMA EndgameNext ==
  ASSUME ControlInv, EndgameInv, [NextEx]_exvars
  PROVE  EndgameInv'
<1>1. ASSUME NEW p \in Thread,
             \/ Proceed(p) \/ Decide(p) \/ Exchange(p) \/ ResetEx(p)
             \/ Pop(p) \/ Unpop(p) \/ PopNone(p)
             \/ \E q \in Thread : PushEx(p, q) \/ PopThread(p, q)
      PROVE  EndgameInv'
  BY <1>1, BusyEndgame, ProceedEndgame, DecideEndgame, ResetEndgame
<1>2. CASE LandPut \/ FinishedEx \/ UNCHANGED exvars
  <2>1. UNCHANGED <<stage, second, wait_done, notify_done, flags>>
    BY <1>2 DEF LandPut, FinishedEx, exvars, endgame
  <2> QED
    BY <2>1 DEF EndgameInv, FlagsOK, NoticeOK, LeavingOK, Leaving, Gone, DecideOK,
                In, Breakout, EveryoneDone
<1> QED
  BY <1>1, <1>2, LandFlagEndgame, BarrierEndgame DEF NextEx

-----------------------------------------------------------------------------
(* Sending *)

\* No buffer holds more than it can, and none that is empty is sent.
SendInv ==
  /\ snd \in [Thread -> [Thread -> Seq(Nat)]] /\ items_pushed \in [Thread -> [Thread -> Nat]]
  /\ todo \in [Thread -> SUBSET Thread]
  /\ puts \subseteq [from : Thread, to : Thread, pkgs : Seq(Nat)]
  /\ \A p, d \in Thread : Len(snd[p][d]) <= BufCnt
  /\ \A m \in puts : Len(m.pkgs) \in 1 .. BufCnt

LEMMA PushSend ==
  ASSUME SendInv, NEW p \in Thread, NEW d \in Thread, PushEx(p, d)
  PROVE  /\ SendInv'
         /\ \A q, e \in Thread : (q # p \/ e # d) =>
              snd'[q][e] = snd[q][e] /\ items_pushed'[q][e] = items_pushed[q][e]
         /\ snd'[p][d] = Append(snd[p][d], items_pushed[p][d] + 1)
         /\ items_pushed'[p][d] = items_pushed[p][d] + 1
<1> DEFINE s == Append(snd[p][d], items_pushed[p][d] + 1)
<1>1. /\ snd' = [snd EXCEPT ![p][d] = s] /\ items_pushed' = [items_pushed EXCEPT ![p][d] = @ + 1]
      /\ UNCHANGED <<todo, puts>>
  BY DEF PushEx
<1>2. s \in Seq(Nat) /\ Len(s) = Len(snd[p][d]) + 1
  BY DEF SendInv
<1>3. Len(s) <= BufCnt
  <2>1. BufCnt - Len(snd[p][d]) # 0
    BY DEF PushEx, Room, exstack_headroom
  <2> QED
    BY <1>2, <2>1, ExBufCntAssumption DEF SendInv
<1> HIDE DEF s
<1>4. /\ snd' \in [Thread -> [Thread -> Seq(Nat)]] /\ snd'[p][d] = s
      /\ \A q, e \in Thread : (q # p \/ e # d) => snd'[q][e] = snd[q][e]
  BY <1>1, <1>2 DEF SendInv
<1>5. /\ items_pushed' \in [Thread -> [Thread -> Nat]] /\ items_pushed'[p][d] = items_pushed[p][d] + 1
      /\ \A q, e \in Thread : (q # p \/ e # d) => items_pushed'[q][e] = items_pushed[q][e]
  BY <1>1 DEF SendInv
<1>6. \A q, e \in Thread : Len(snd'[q][e]) <= BufCnt
  BY <1>3, <1>4 DEF SendInv
<1> QED
  BY <1>1, <1>4, <1>5, <1>6 DEF SendInv, s

LEMMA PutOneSend ==
  ASSUME SendInv, NEW p \in Thread, PutOne(p)
  PROVE  SendInv'
<1>1. PICK d \in todo[p] :
        /\ puts' = IF Nonempty(p, d)
                   THEN puts \cup {[from |-> p, to |-> d, pkgs |-> snd[p][d]]}
                   ELSE puts
        /\ todo' = [todo EXCEPT ![p] = @ \ {d}]
  BY DEF PutOne
<1>2. UNCHANGED <<snd, items_pushed>> /\ d \in Thread
  BY DEF PutOne, client, SendInv
<1>3. /\ snd[p][d] \in Seq(Nat) /\ Len(snd[p][d]) <= BufCnt
      /\ Nonempty(p, d) => Len(snd[p][d]) \in 1 .. BufCnt
  BY <1>2, ExBufCntAssumption DEF SendInv, Nonempty
<1>4. todo' \in [Thread -> SUBSET Thread]
  BY <1>1 DEF SendInv
<1>5. /\ puts' \subseteq [from : Thread, to : Thread, pkgs : Seq(Nat)]
      /\ \A m \in puts' : Len(m.pkgs) \in 1 .. BufCnt
  BY <1>1, <1>2, <1>3 DEF SendInv
<1> QED
  BY <1>2, <1>4, <1>5 DEF SendInv

LEMMA EmptySend ==
  ASSUME SendInv, NEW p \in Thread, snd' = [snd EXCEPT ![p] = [d \in Thread |-> <<>>]]
  PROVE  /\ snd' \in [Thread -> [Thread -> Seq(Nat)]]
         /\ \A q, e \in Thread : snd'[q][e] = IF q = p THEN <<>> ELSE snd[q][e]
         /\ \A q, e \in Thread : Len(snd'[q][e]) <= BufCnt
<1>1. /\ snd' \in [Thread -> [Thread -> Seq(Nat)]]
      /\ \A q, e \in Thread : snd'[q][e] = IF q = p THEN <<>> ELSE snd[q][e]
  BY DEF SendInv
<1>2. Len(<<>>) <= BufCnt
  BY ExBufCntAssumption
<1> QED
  BY <1>1, <1>2 DEF SendInv

LEMMA SendNext ==
  ASSUME SendInv, [NextEx]_exvars
  PROVE  SendInv'
<1>1. ASSUME NEW p \in Thread, \/ Proceed(p) \/ Decide(p) \/ Point(p) \/ Pop(p)
                               \/ Unpop(p) \/ PopNone(p) \/ \E q \in Thread : PopThread(p, q)
      PROVE  SendInv'
  <2>1. UNCHANGED <<snd, items_pushed, todo, puts>>
    BY <1>1 DEF Proceed, Decide, Point, Pop, Unpop, PopNone, PopThread, client
  <2> QED
    BY <2>1 DEF SendInv
<1>2. ASSUME NEW p \in Thread, StartExchange(p) PROVE SendInv'
  <2>1. UNCHANGED <<snd, items_pushed, puts>> /\ todo' = [todo EXCEPT ![p] = Thread]
    BY <1>2 DEF StartExchange, client
  <2> QED
    BY <2>1 DEF SendInv
<1>3. ASSUME NEW p \in Thread, Clear(p) PROVE SendInv'
  <2>1. UNCHANGED <<items_pushed, todo, puts>>
    BY <1>3 DEF Clear, client
  <2>2. snd' = [snd EXCEPT ![p] = [d \in Thread |-> <<>>]]
    BY <1>3 DEF Clear
  <2> QED
    BY <2>1, <2>2, EmptySend DEF SendInv
<1>4. ASSUME NEW p \in Thread, ResetEx(p) PROVE SendInv'
  <2>1. UNCHANGED <<todo, puts>> /\ items_pushed' = [items_pushed EXCEPT ![p] = [d \in Thread |-> 0]]
    BY <1>4 DEF ResetEx
  <2>2. snd' = [snd EXCEPT ![p] = [d \in Thread |-> <<>>]]
    BY <1>4 DEF ResetEx
  <2>3. items_pushed' \in [Thread -> [Thread -> Nat]]
    BY <2>1 DEF SendInv
  <2> QED
    BY <2>1, <2>2, <2>3, EmptySend DEF SendInv
<1>5. CASE LandPut
  <2>1. UNCHANGED <<snd, items_pushed, todo>> /\ puts' \subseteq puts
    BY <1>5 DEF LandPut, client
  <2> QED
    BY <2>1 DEF SendInv
<1>6. ASSUME NEW b \in DOMAIN Passed, Barrier(b) PROVE SendInv'
  <2>1. UNCHANGED <<snd, items_pushed, todo, puts>>
    BY <1>6 DEF Barrier, client
  <2> QED
    BY <2>1 DEF SendInv
<1>7. CASE LandFlag \/ FinishedEx \/ UNCHANGED exvars
  <2>1. UNCHANGED <<snd, items_pushed, todo, puts>>
    BY <1>7 DEF LandFlag, FinishedEx, exvars, client
  <2> QED
    BY <2>1 DEF SendInv
<1> QED
  BY <1>1, <1>2, <1>3, <1>4, <1>5, <1>6, <1>7, PushSend, PutOneSend DEF NextEx, Exchange

-----------------------------------------------------------------------------
(* Receiving *)

\* Has p put its buffer for d in the exchange that it is in?
DidPut(p, d) == \/ stage[p] = "exchanging" /\ d \notin todo[p]
                \/ stage[p] = "exchange"

\* A put carries the buffer of its sender, and lands on an empty one.  A buffer
\* that is not empty has just been put, or is there to be popped.
PutsOK ==
  /\ \A m \in puts : /\ DidPut(m.from, m.to) /\ count[m.to][m.from] = 0
                     /\ m.pkgs = snd[m.from][m.to]
  /\ \A q, s \in Thread : count[q][s] # 0 =>
       stage[q] \in {"clear", "cleared", "point", "pop"} \/ DidPut(s, q)

\* The read pointers stay in their buffers.
SpaceOK == \A p, s \in Thread : /\ fifo[p][s] + count[p][s] <= BufCnt
                                /\ fifo[p][s] <= Len(items_popped[p][s])

\* What has been passed over is empty, and what was popped can be given back.
Popping(p) ==
  /\ stage[p] = "pop" =>
       /\ \A s \in Thread : s < first_ne_rcv[p] => count[p][s] = 0
       /\ popped[p] # None => popped[p] >= first_ne_rcv[p] /\ fifo[p][popped[p]] > 0
  /\ stage[p] # "pop" => popped[p] = None /\ \A s \in Thread : fifo[p][s] = 0
  /\ stage[p] \in {"cleared", "point"} => first_ne_rcv[p] = 0
PoppingOK == \A p \in Thread : Popping(p)

RecvTypes ==
  /\ rcv \in [Thread -> [Thread -> [Slot -> Nat]]]
  /\ count \in [Thread -> [Thread -> 0 .. BufCnt]] /\ fifo \in [Thread -> [Thread -> 0 .. BufCnt]]
  /\ first_ne_rcv \in [Thread -> Thread] /\ popped \in [Thread -> Thread \cup {None}]
  /\ unpops \in [Thread -> Nat] /\ items_popped \in [Thread -> [Thread -> Seq(Nat)]]

RecvInv == RecvTypes /\ SpaceOK /\ PoppingOK /\ PutsOK

\* Taking an item from a buffer that has one.
LEMMA TakeIs ==
  ASSUME RecvTypes, SpaceOK, NEW p \in Thread, NEW s \in Thread, count[p][s] # 0, Take(p, s)
  PROVE  /\ items_popped' \in [Thread -> [Thread -> Seq(Nat)]]
         /\ count' \in [Thread -> [Thread -> 0 .. BufCnt]]
         /\ fifo' \in [Thread -> [Thread -> 0 .. BufCnt]]
         /\ \A q, t \in Thread : (q # p \/ t # s) =>
              /\ items_popped'[q][t] = items_popped[q][t] /\ count'[q][t] = count[q][t]
              /\ fifo'[q][t] = fifo[q][t]
         /\ fifo[p][s] + 1 \in Slot
         /\ items_popped'[p][s] = Append(items_popped[p][s], rcv[p][s][fifo[p][s] + 1])
         /\ count'[p][s] = count[p][s] - 1 /\ fifo'[p][s] = fifo[p][s] + 1
         /\ SpaceOK'
<1>1. /\ fifo[p][s] \in Nat /\ count[p][s] \in Nat /\ items_popped[p][s] \in Seq(Nat)
      /\ fifo[p][s] + count[p][s] <= BufCnt /\ fifo[p][s] <= Len(items_popped[p][s])
  BY DEF RecvTypes, SpaceOK
<1>2. fifo[p][s] + 1 \in Slot /\ fifo[p][s] + 1 \in 0 .. BufCnt /\ count[p][s] - 1 \in 0 .. BufCnt
  <2> DEFINE f == fifo[p][s]
             c == count[p][s]
  <2>1. f \in Nat /\ c \in Nat /\ f + c <= BufCnt /\ c # 0
    BY <1>1
  <2> HIDE DEF f, c
  <2>2. f + 1 \in 1 .. BufCnt /\ f + 1 \in 0 .. BufCnt /\ c - 1 \in 0 .. BufCnt
    BY <2>1, ExBufCntAssumption
  <2> QED
    BY <2>2 DEF f, c, Slot
<1>3. rcv[p][s][fifo[p][s] + 1] \in Nat
  BY <1>2 DEF RecvTypes
<1> DEFINE g == Append(items_popped[p][s], rcv[p][s][fifo[p][s] + 1])
<1>4. g \in Seq(Nat) /\ Len(g) = Len(items_popped[p][s]) + 1
  BY <1>1, <1>3
<1>5. items_popped' = [items_popped EXCEPT ![p][s] = g]
  BY DEF Take
<1> HIDE DEF g
<1>6. /\ items_popped' \in [Thread -> [Thread -> Seq(Nat)]] /\ items_popped'[p][s] = g
      /\ \A q, t \in Thread : (q # p \/ t # s) => items_popped'[q][t] = items_popped[q][t]
  BY <1>4, <1>5 DEF RecvTypes
<1>7. /\ count' \in [Thread -> [Thread -> 0 .. BufCnt]] /\ count'[p][s] = count[p][s] - 1
      /\ \A q, t \in Thread : (q # p \/ t # s) => count'[q][t] = count[q][t]
  BY <1>2 DEF Take, RecvTypes
<1>8. /\ fifo' \in [Thread -> [Thread -> 0 .. BufCnt]] /\ fifo'[p][s] = fifo[p][s] + 1
      /\ \A q, t \in Thread : (q # p \/ t # s) => fifo'[q][t] = fifo[q][t]
  BY <1>2 DEF Take, RecvTypes
<1>9. SpaceOK'
  <2> SUFFICES ASSUME NEW q \in Thread, NEW t \in Thread
               PROVE  /\ fifo'[q][t] + count'[q][t] <= BufCnt
                      /\ fifo'[q][t] <= Len(items_popped'[q][t])
    BY DEF SpaceOK
  <2>1. /\ fifo'[p][s] + count'[p][s] <= BufCnt
        /\ fifo'[p][s] <= Len(items_popped'[p][s])
    <3>1. fifo'[p][s] + count'[p][s] = fifo[p][s] + count[p][s]
      <4> DEFINE f == fifo[p][s]
                 c == count[p][s]
      <4>1. f \in Nat /\ c \in Nat /\ fifo'[p][s] = f + 1 /\ count'[p][s] = c - 1
        BY <1>1, <1>7, <1>8
      <4> HIDE DEF f, c
      <4>2. fifo'[p][s] + count'[p][s] = f + c
        BY <4>1
      <4> QED
        BY <4>2 DEF f, c
    <3>2. fifo'[p][s] <= Len(items_popped'[p][s])
      <4>1. fifo'[p][s] = fifo[p][s] + 1 /\ Len(items_popped'[p][s]) = Len(items_popped[p][s]) + 1
        BY <1>4, <1>6, <1>8
      <4>2. Len(items_popped[p][s]) \in Nat
        BY <1>1
      <4> QED
        BY <1>1, <4>1, <4>2
    <3> QED
      BY <1>1, <3>1, <3>2
  <2>2. CASE q # p \/ t # s
    <3>1. /\ fifo'[q][t] = fifo[q][t] /\ count'[q][t] = count[q][t]
          /\ items_popped'[q][t] = items_popped[q][t]
      BY <1>6, <1>7, <1>8, <2>2
    <3>2. fifo[q][t] + count[q][t] <= BufCnt /\ fifo[q][t] <= Len(items_popped[q][t])
      BY DEF SpaceOK
    <3> QED
      BY <3>1, <3>2
  <2> QED
    BY <2>1, <2>2
<1> QED
  BY <1>2, <1>6, <1>7, <1>8, <1>9 DEF g

\* Giving back the item that was popped last.
LEMMA GiveBackIs ==
  ASSUME RecvTypes, SpaceOK, NEW p \in Thread, NEW s \in Thread, fifo[p][s] > 0, GiveBack(p, s)
  PROVE  /\ items_popped' \in [Thread -> [Thread -> Seq(Nat)]]
         /\ count' \in [Thread -> [Thread -> 0 .. BufCnt]]
         /\ fifo' \in [Thread -> [Thread -> 0 .. BufCnt]]
         /\ \A q, t \in Thread : (q # p \/ t # s) =>
              /\ items_popped'[q][t] = items_popped[q][t] /\ count'[q][t] = count[q][t]
              /\ fifo'[q][t] = fifo[q][t]
         /\ Len(items_popped[p][s]) > 0
         /\ items_popped'[p][s] = SubSeq(items_popped[p][s], 1, Len(items_popped[p][s]) - 1)
         /\ Len(items_popped'[p][s]) = Len(items_popped[p][s]) - 1
         /\ count'[p][s] = count[p][s] + 1 /\ fifo'[p][s] = fifo[p][s] - 1
         /\ SpaceOK'
<1>1. /\ fifo[p][s] \in Nat /\ count[p][s] \in Nat /\ items_popped[p][s] \in Seq(Nat)
      /\ fifo[p][s] + count[p][s] <= BufCnt /\ fifo[p][s] <= Len(items_popped[p][s])
  BY DEF RecvTypes, SpaceOK
<1>2. /\ fifo[p][s] - 1 \in 0 .. BufCnt /\ count[p][s] + 1 \in 0 .. BufCnt
      /\ Len(items_popped[p][s]) > 0 /\ Len(items_popped[p][s]) \in Nat
  <2>1. Len(items_popped[p][s]) \in Nat
    BY <1>1
  <2>2. \A a, c, l, n \in Nat : a > 0 /\ a + c <= n /\ a <= l =>
          a - 1 \in 0 .. n /\ c + 1 \in 0 .. n /\ l > 0
    OBVIOUS
  <2> QED
    BY <1>1, <2>1, <2>2, ExBufCntAssumption
<1> DEFINE g == SubSeq(items_popped[p][s], 1, Len(items_popped[p][s]) - 1)
<1>4. g \in Seq(Nat) /\ Len(g) = Len(items_popped[p][s]) - 1
  BY <1>1, <1>2, Shorter
<1>5. items_popped' = [items_popped EXCEPT ![p][s] = g]
  BY DEF GiveBack
<1> HIDE DEF g
<1>6. /\ items_popped' \in [Thread -> [Thread -> Seq(Nat)]] /\ items_popped'[p][s] = g
      /\ \A q, t \in Thread : (q # p \/ t # s) => items_popped'[q][t] = items_popped[q][t]
  BY <1>4, <1>5 DEF RecvTypes
<1>7. /\ count' \in [Thread -> [Thread -> 0 .. BufCnt]] /\ count'[p][s] = count[p][s] + 1
      /\ \A q, t \in Thread : (q # p \/ t # s) => count'[q][t] = count[q][t]
  BY <1>2 DEF GiveBack, RecvTypes
<1>8. /\ fifo' \in [Thread -> [Thread -> 0 .. BufCnt]] /\ fifo'[p][s] = fifo[p][s] - 1
      /\ \A q, t \in Thread : (q # p \/ t # s) => fifo'[q][t] = fifo[q][t]
  BY <1>2 DEF GiveBack, RecvTypes
<1>9. SpaceOK'
  <2> SUFFICES ASSUME NEW q \in Thread, NEW t \in Thread
               PROVE  /\ fifo'[q][t] + count'[q][t] <= BufCnt
                      /\ fifo'[q][t] <= Len(items_popped'[q][t])
    BY DEF SpaceOK
  <2>1. /\ fifo'[p][s] + count'[p][s] <= BufCnt
        /\ fifo'[p][s] <= Len(items_popped'[p][s])
    <3>1. fifo'[p][s] + count'[p][s] = fifo[p][s] + count[p][s]
      <4> DEFINE f == fifo[p][s]
                 c == count[p][s]
      <4>1. f \in Nat /\ c \in Nat /\ fifo'[p][s] = f - 1 /\ count'[p][s] = c + 1
        BY <1>1, <1>7, <1>8
      <4> HIDE DEF f, c
      <4>2. fifo'[p][s] + count'[p][s] = f + c
        BY <4>1
      <4> QED
        BY <4>2 DEF f, c
    <3>2. fifo'[p][s] <= Len(items_popped'[p][s])
      <4>1. fifo'[p][s] = fifo[p][s] - 1 /\ Len(items_popped'[p][s]) = Len(items_popped[p][s]) - 1
        BY <1>4, <1>6, <1>8
      <4>2. Len(items_popped[p][s]) \in Nat
        BY <1>1
      <4> QED
        BY <1>1, <4>1, <4>2
    <3> QED
      BY <1>1, <3>1, <3>2
  <2>2. CASE q # p \/ t # s
    <3>1. /\ fifo'[q][t] = fifo[q][t] /\ count'[q][t] = count[q][t]
          /\ items_popped'[q][t] = items_popped[q][t]
      BY <1>6, <1>7, <1>8, <2>2
    <3>2. fifo[q][t] + count[q][t] <= BufCnt /\ fifo[q][t] <= Len(items_popped[q][t])
      BY DEF SpaceOK
    <3> QED
      BY <3>1, <3>2
  <2> QED
    BY <2>1, <2>2
<1> QED
  BY <1>2, <1>4, <1>6, <1>7, <1>8, <1>9 DEF g

\* While a put is on its way, every PE is on the way to its exchange.
LEMMA PutsAre ==
  ASSUME ControlInv, SendInv, PutsOK, NEW m \in puts, NEW q \in Thread
  PROVE  /\ m.from \in Thread /\ m.to \in Thread
         /\ stage[m.from] \in {"exchanging", "exchange"}
         /\ stage[q] \in {"decide", "push", "left", "reset", "exchange_start",
                           "exchanging", "exchange"}
<1>1. m.from \in Thread /\ m.to \in Thread
  BY DEF SendInv
<1>2. stage[m.from] \in {"exchanging", "exchange"}
  BY DEF PutsOK, DidPut
<1>3. In(m.from) \in {"first", "second"}
  BY <1>2 DEF In, Segment
<1>4. In(q) \in {"first", "second"}
  BY <1>1, <1>3 DEF ControlInv, Together
<1>5. stage[q] \in Stages
  BY DEF ControlInv
<1>6. stage[q] \in {"decide", "push", "left", "reset", "exchange_start",
                    "exchanging", "exchange"}
  BY <1>4, <1>5 DEF In, Segment, Stages
<1> QED
  BY <1>1, <1>2, <1>6

\* A step of p that does not touch what it has received, and takes back no put.
LEMMA IdleRecv ==
  ASSUME ControlInv, SendInv, RecvInv, NEW p \in Thread,
         UNCHANGED <<rcv, count, fifo, first_ne_rcv, popped, unpops, items_popped, puts>>,
         \A q \in Thread \ {p} : stage'[q] = stage[q] /\ todo'[q] = todo[q],
         stage[p] \notin {"clear", "cleared", "point", "pop"},
         stage'[p] \notin {"clear", "cleared", "point", "pop"},
         \A d \in Thread : DidPut(p, d) => DidPut(p, d)',
         \A m \in puts : snd'[m.from][m.to] = snd[m.from][m.to]
  PROVE  RecvInv'
<1>1. RecvTypes' /\ SpaceOK'
  BY DEF RecvInv, RecvTypes, SpaceOK
<1>2. PoppingOK'
  BY DEF RecvInv, PoppingOK, Popping
<1>3. \A q, d \in Thread : DidPut(q, d) => DidPut(q, d)'
  BY DEF DidPut
<1>4. PutsOK'
  <2>1. ASSUME NEW m \in puts
        PROVE  /\ DidPut(m.from, m.to)' /\ count[m.to][m.from] = 0
               /\ m.pkgs = snd'[m.from][m.to]
    <3>1. m.from \in Thread /\ m.to \in Thread
      BY DEF SendInv
    <3> QED
      BY <1>3, <3>1 DEF RecvInv, PutsOK
  <2>2. ASSUME NEW q \in Thread, NEW s \in Thread, count[q][s] # 0
        PROVE  stage'[q] \in {"clear", "cleared", "point", "pop"} \/ DidPut(s, q)'
    <3>1. stage[q] \in {"clear", "cleared", "point", "pop"} \/ DidPut(s, q)
      BY <2>2 DEF RecvInv, PutsOK
    <3>2. CASE stage[q] \in {"clear", "cleared", "point", "pop"}
      BY <3>2
    <3> QED
      BY <1>3, <3>1, <3>2
  <2> QED
    BY <2>1, <2>2 DEF PutsOK
<1> QED
  BY <1>1, <1>2, <1>4 DEF RecvInv

LEMMA SimpleRecv ==
  ASSUME ControlInv, SendInv, RecvInv, NEW p \in Thread,
         Proceed(p) \/ Decide(p) \/ StartExchange(p)
  PROVE  RecvInv'
<1>1. /\ UNCHANGED <<rcv, count, fifo, first_ne_rcv, popped, unpops, items_popped, puts, snd>>
      /\ stage[p] \in {"loop", "decide", "push", "exchange_start"}
  BY DEF Proceed, Decide, StartExchange, rcving, client
<1>2. stage'[p] \in {"proceed", "left", "push", "exchanging"}
  BY DEF Proceed, Meet, Decide, StartExchange, Goto, ControlInv
<1>3. \A q \in Thread \ {p} : stage'[q] = stage[q]
  BY Alone DEF Exchange
<1>4. \A q \in Thread \ {p} : todo'[q] = todo[q]
  BY DEF Proceed, Decide, StartExchange, SendInv
<1>5. \A d \in Thread : ~DidPut(p, d)
  BY <1>1 DEF DidPut
<1> QED
  BY <1>1, <1>2, <1>3, <1>4, <1>5, IdleRecv

LEMMA PutOneRecv ==
  ASSUME ControlInv, SendInv, RecvInv, NEW p \in Thread, PutOne(p)
  PROVE  RecvInv'
<1>1. PICK d \in todo[p] :
        /\ puts' = IF Nonempty(p, d)
                   THEN puts \cup {[from |-> p, to |-> d, pkgs |-> snd[p][d]]}
                   ELSE puts
        /\ todo' = [todo EXCEPT ![p] = @ \ {d}]
        /\ stage' = [stage EXCEPT ![p] = IF todo[p] = {d} THEN "exchange" ELSE "exchanging"]
  BY DEF PutOne, Goto
<1>2. /\ UNCHANGED <<rcv, count, fifo, first_ne_rcv, popped, unpops, items_popped, snd>>
      /\ stage[p] = "exchanging" /\ d \in Thread
  BY DEF PutOne, rcving, client, SendInv
<1>3. /\ \A q \in Thread \ {p} : stage'[q] = stage[q] /\ todo'[q] = todo[q]
      /\ stage'[p] \in {"exchanging", "exchange"} /\ todo'[p] = todo[p] \ {d}
  BY <1>1 DEF ControlInv, SendInv
<1>4. (\A q, e \in Thread : DidPut(q, e) => DidPut(q, e)') /\ DidPut(p, d)' /\ ~DidPut(p, d)
  BY <1>2, <1>3 DEF DidPut
<1>5. RecvTypes' /\ SpaceOK' /\ PoppingOK'
  <2>1. RecvTypes' /\ SpaceOK'
    BY <1>2 DEF RecvInv, RecvTypes, SpaceOK
  <2>2. ASSUME NEW q \in Thread PROVE Popping(q)'
    <3>1. Popping(q) /\ (stage'[q] = stage[q] \/ (q = p /\ stage'[q] \in {"exchanging", "exchange"}))
      BY <1>3 DEF RecvInv, PoppingOK
    <3> QED
      BY <1>2, <3>1 DEF Popping
  <2> QED
    BY <2>1, <2>2 DEF PoppingOK
<1>6. count[d][p] = 0
  <2>1. In(p) \in {"first", "second"} /\ In(d) = In(p)
    BY <1>2 DEF ControlInv, Together, In, Segment
  <2>2. stage[d] \notin {"clear", "cleared", "point", "pop"}
    BY <2>1 DEF In, Segment
  <2> QED
    BY <1>2, <1>4, <2>2 DEF RecvInv, PutsOK
<1>7. PutsOK'
  <2>1. ASSUME NEW m \in puts'
        PROVE  /\ DidPut(m.from, m.to)' /\ count[m.to][m.from] = 0
               /\ m.pkgs = snd[m.from][m.to]
    <3>1. CASE m \in puts
      <4>1. m.from \in Thread /\ m.to \in Thread
        BY <3>1 DEF SendInv
      <4> QED
        BY <1>4, <3>1, <4>1 DEF RecvInv, PutsOK
    <3>2. CASE m = [from |-> p, to |-> d, pkgs |-> snd[p][d]]
      BY <1>4, <1>6, <3>2
    <3> QED
      BY <1>1, <3>1, <3>2
  <2>2. ASSUME NEW q \in Thread, NEW s \in Thread, count[q][s] # 0
        PROVE  stage'[q] \in {"clear", "cleared", "point", "pop"} \/ DidPut(s, q)'
    BY <1>2, <1>3, <1>4, <2>2 DEF RecvInv, PutsOK
  <2> QED
    BY <1>2, <2>1, <2>2 DEF PutsOK
<1> QED
  BY <1>5, <1>7 DEF RecvInv

LEMMA PushRecv ==
  ASSUME ControlInv, SendInv, RecvInv, NEW p \in Thread, NEW d \in Thread, PushEx(p, d)
  PROVE  RecvInv'
<1>1. /\ UNCHANGED <<rcv, count, fifo, first_ne_rcv, unpops, items_popped, puts, stage, todo>>
      /\ stage[p] \in {"push", "pop"} /\ popped' = [popped EXCEPT ![p] = None]
  BY DEF PushEx, MayPush, rcving
<1>2. /\ popped' \in [Thread -> Thread \cup {None}] /\ popped'[p] = None
      /\ \A q \in Thread \ {p} : popped'[q] = popped[q]
  BY <1>1 DEF RecvInv, RecvTypes
<1>3. RecvTypes' /\ SpaceOK'
  BY <1>1, <1>2 DEF RecvInv, RecvTypes, SpaceOK
<1>6. PoppingOK'
  <2> SUFFICES ASSUME NEW q \in Thread PROVE Popping(q)'
    BY DEF PoppingOK
  <2>1. Popping(q)
    BY DEF RecvInv, PoppingOK
  <2>2. CASE q = p
    BY <1>1, <1>2, <2>1, <2>2 DEF Popping
  <2>3. CASE q # p
    BY <1>1, <1>2, <2>1, <2>3 DEF Popping
  <2> QED
    BY <2>2, <2>3
<1>4. \A m \in puts : snd'[m.from][m.to] = snd[m.from][m.to]
  <2> SUFFICES ASSUME NEW m \in puts PROVE snd'[m.from][m.to] = snd[m.from][m.to]
    OBVIOUS
  <2>1. m.from \in Thread /\ m.to \in Thread /\ m.from # p
    BY <1>1, PutsAre DEF RecvInv
  <2> QED
    BY <2>1, PushSend
<1>5. PutsOK'
  BY <1>1, <1>4 DEF RecvInv, PutsOK, DidPut
<1> QED
  BY <1>3, <1>5, <1>6 DEF RecvInv

LEMMA Values ==
  ASSUME RecvTypes
  PROVE  /\ 0 \in Thread /\ None \notin Thread /\ \A p \in Thread : p \in Nat
         /\ \A p \in Thread : first_ne_rcv[p] \in Thread
         /\ \A p, s \in Thread : /\ fifo[p][s] \in Nat /\ count[p][s] \in Nat
                                 /\ items_popped[p][s] \in Seq(Nat)
<1>1. 0 \in Thread /\ None \notin Thread /\ \A p \in Thread : p \in Nat
  BY ExNAssumption DEF Thread, None
<1>2. \A p \in Thread : first_ne_rcv[p] \in Thread
  BY DEF RecvTypes
<1>3. \A p, s \in Thread : /\ fifo[p][s] \in 0 .. BufCnt /\ count[p][s] \in 0 .. BufCnt
                           /\ items_popped[p][s] \in Seq(Nat)
  BY DEF RecvTypes
<1> QED
  BY <1>1, <1>2, <1>3, ExBufCntAssumption

\* A PE that nothing happens to.
LEMMA PoppingFrame ==
  ASSUME RecvTypes, NEW q \in Thread, Popping(q),
         stage'[q] = stage[q], first_ne_rcv'[q] = first_ne_rcv[q], popped'[q] = popped[q],
         \A t \in Thread : count'[q][t] = count[q][t] /\ fifo'[q][t] = fifo[q][t]
  PROVE  Popping(q)'
<1>1. popped[q] = None \/ popped[q] \in Thread
  BY DEF RecvTypes
<1> QED
  BY <1>1 DEF Popping

\* What p pops, or gives back, is not on its way to it.
LEMMA PoppedPuts ==
  ASSUME ControlInv, SendInv, RecvInv, NEW p \in Thread, stage[p] = "pop",
         UNCHANGED <<puts, stage, todo, snd>>,
         \A q, t \in Thread : q # p => count'[q][t] = count[q][t]
  PROVE  PutsOK'
<1>1. puts = {}
  <2> SUFFICES ASSUME NEW m \in puts PROVE FALSE
    OBVIOUS
  <2> QED
    BY PutsAre DEF RecvInv
<1>2. ASSUME NEW q \in Thread, NEW s \in Thread, count'[q][s] # 0
      PROVE  stage[q] \in {"clear", "cleared", "point", "pop"} \/ DidPut(s, q)
  BY <1>2 DEF RecvInv, PutsOK
<1> QED
  BY <1>1, <1>2 DEF PutsOK, DidPut

LEMMA PopRecv ==
  ASSUME ControlInv, SendInv, RecvInv, NEW p \in Thread, NEW s \in Thread,
         stage[p] = "pop", count[p][s] # 0, Take(p, s),
         popped' = [popped EXCEPT ![p] = s],
         UNCHANGED <<snd, rcv, stage, todo, puts, unpops>>,
         \/ UNCHANGED first_ne_rcv
         \/ /\ \A t \in Found(p) : s <= t
            /\ s >= first_ne_rcv[p] /\ first_ne_rcv' = [first_ne_rcv EXCEPT ![p] = s]
  PROVE  RecvInv'
<1>1. /\ items_popped' \in [Thread -> [Thread -> Seq(Nat)]]
      /\ count' \in [Thread -> [Thread -> 0 .. BufCnt]] /\ fifo' \in [Thread -> [Thread -> 0 .. BufCnt]]
      /\ \A q, t \in Thread : (q # p \/ t # s) =>
           /\ items_popped'[q][t] = items_popped[q][t] /\ count'[q][t] = count[q][t]
           /\ fifo'[q][t] = fifo[q][t]
      /\ fifo'[p][s] = fifo[p][s] + 1 /\ SpaceOK'
  BY TakeIs DEF RecvInv
<1>2. /\ popped' \in [Thread -> Thread \cup {None}] /\ popped'[p] = s
      /\ \A q \in Thread \ {p} : popped'[q] = popped[q]
  BY DEF RecvInv, RecvTypes
<1>3. /\ first_ne_rcv' \in [Thread -> Thread]
      /\ \A q \in Thread \ {p} : first_ne_rcv'[q] = first_ne_rcv[q]
  <2>1. first_ne_rcv \in [Thread -> Thread]
    BY DEF RecvInv, RecvTypes
  <2>2. UNCHANGED first_ne_rcv \/ first_ne_rcv' = [first_ne_rcv EXCEPT ![p] = s]
    OBVIOUS
  <2> QED
    BY <2>1, <2>2
<1>4. RecvTypes'
  BY <1>1, <1>2, <1>3 DEF RecvInv, RecvTypes
<1>5. fifo[p][s] \in Nat /\ s \in Int /\ first_ne_rcv[p] \in Int
  BY Values DEF RecvInv
<1>6. fifo'[p][s] > 0
  <2> DEFINE f == fifo[p][s]
  <2>1. f \in Nat /\ fifo'[p][s] = f + 1
    BY <1>1, <1>5
  <2> HIDE DEF f
  <2> QED
    BY <2>1
<1>7. s >= first_ne_rcv[p]
  <2>1. ~(s < first_ne_rcv[p])
    BY DEF RecvInv, PoppingOK, Popping
  <2> QED
    BY <1>5, <2>1
<1>8. s >= first_ne_rcv'[p] /\ \A t \in Thread : t < first_ne_rcv'[p] => count[p][t] = 0
  <2>1. CASE UNCHANGED first_ne_rcv
    BY <1>7, <2>1 DEF RecvInv, PoppingOK, Popping
  <2>2. CASE /\ \A t \in Found(p) : s <= t
             /\ first_ne_rcv' = [first_ne_rcv EXCEPT ![p] = s]
    <3>1. first_ne_rcv'[p] = s
      BY <2>2 DEF RecvInv, RecvTypes
    <3>2. ASSUME NEW t \in Thread, t < s PROVE count[p][t] = 0
      <4>1. t \in Int /\ t \notin Found(p)
        BY <1>5, <2>2, <3>2 DEF Thread
      <4>2. CASE ~(t >= first_ne_rcv[p])
        BY <1>5, <4>1, <4>2 DEF RecvInv, PoppingOK, Popping
      <4>3. CASE t >= first_ne_rcv[p]
        BY <4>1, <4>3 DEF Found
      <4> QED
        BY <4>2, <4>3
    <3> QED
      BY <1>5, <3>1, <3>2
  <2> QED
    BY <2>1, <2>2
<1>9. PoppingOK'
  <2> SUFFICES ASSUME NEW q \in Thread PROVE Popping(q)'
    BY DEF PoppingOK
  <2>1. Popping(q)
    BY DEF RecvInv, PoppingOK
  <2>2. CASE q = p
    <3>1. \A t \in Thread : t < first_ne_rcv'[p] => count'[p][t] = 0
      <4> SUFFICES ASSUME NEW t \in Thread, t < first_ne_rcv'[p] PROVE count'[p][t] = 0
        OBVIOUS
      <4>1. t # s
        BY <1>8
      <4> QED
        BY <1>1, <1>8, <4>1
    <3> QED
      BY <1>2, <1>6, <1>8, <2>2, <3>1 DEF Popping
  <2>3. CASE q # p
    <3>1. \A t \in Thread : count'[q][t] = count[q][t] /\ fifo'[q][t] = fifo[q][t]
      BY <1>1, <2>3
    <3> QED
      BY <1>2, <1>3, <2>1, <2>3, <3>1, PoppingFrame DEF RecvInv
  <2> QED
    BY <2>2, <2>3
<1>10. PutsOK'
  BY <1>1, PoppedPuts
<1> QED
  BY <1>1, <1>4, <1>9, <1>10 DEF RecvInv

LEMMA UnpopRecv ==
  ASSUME ControlInv, SendInv, RecvInv, NEW p \in Thread, Unpop(p)
  PROVE  /\ RecvInv'
         /\ popped[p] \in Thread /\ fifo[p][popped[p]] > 0
<1> DEFINE s == popped[p]
<1>1. /\ stage[p] = "pop" /\ s # None /\ GiveBack(p, s)
      /\ popped' = [popped EXCEPT ![p] = None]
      /\ unpops' = [unpops EXCEPT ![p] = @ + 1]
      /\ UNCHANGED <<snd, rcv, first_ne_rcv, stage, todo, puts>>
  BY DEF Unpop
<1>2. s \in Thread /\ fifo[p][s] > 0 /\ s >= first_ne_rcv[p]
  BY <1>1 DEF RecvInv, RecvTypes, PoppingOK, Popping
<1>3. /\ items_popped' \in [Thread -> [Thread -> Seq(Nat)]]
      /\ count' \in [Thread -> [Thread -> 0 .. BufCnt]] /\ fifo' \in [Thread -> [Thread -> 0 .. BufCnt]]
      /\ \A q, t \in Thread : (q # p \/ t # s) =>
           /\ items_popped'[q][t] = items_popped[q][t] /\ count'[q][t] = count[q][t]
           /\ fifo'[q][t] = fifo[q][t]
      /\ SpaceOK'
  BY <1>1, <1>2, GiveBackIs DEF RecvInv
<1>4. /\ popped' \in [Thread -> Thread \cup {None}] /\ popped'[p] = None
      /\ \A q \in Thread \ {p} : popped'[q] = popped[q]
      /\ unpops' \in [Thread -> Nat]
  <2>1. popped \in [Thread -> Thread \cup {None}] /\ unpops \in [Thread -> Nat]
    BY DEF RecvInv, RecvTypes
  <2>2. unpops' \in [Thread -> Nat]
    BY <1>1, <2>1
  <2>3. /\ popped' \in [Thread -> Thread \cup {None}] /\ popped'[p] = None
        /\ \A q \in Thread \ {p} : popped'[q] = popped[q]
    BY <1>1, <2>1
  <2> QED
    BY <2>2, <2>3
<1>5. RecvTypes'
  BY <1>1, <1>3, <1>4 DEF RecvInv, RecvTypes
<1>6. PoppingOK'
  <2> SUFFICES ASSUME NEW q \in Thread PROVE Popping(q)'
    BY DEF PoppingOK
  <2>1. Popping(q)
    BY DEF RecvInv, PoppingOK
  <2>2. CASE q = p
    <3>1. ASSUME NEW t \in Thread, t < first_ne_rcv[p] PROVE count'[p][t] = 0
      <4>1. t # s
        BY <1>2, <3>1, Values DEF RecvInv
      <4> QED
        BY <1>1, <1>3, <2>1, <2>2, <3>1, <4>1 DEF Popping
    <3> QED
      BY <1>1, <1>4, <2>2, <3>1 DEF Popping
  <2>3. CASE q # p
    <3>1. \A t \in Thread : count'[q][t] = count[q][t] /\ fifo'[q][t] = fifo[q][t]
      BY <1>3, <2>3
    <3> QED
      BY <1>1, <1>4, <2>1, <2>3, <3>1, PoppingFrame DEF RecvInv
  <2> QED
    BY <2>2, <2>3
<1>7. PutsOK'
  BY <1>1, <1>3, PoppedPuts
<1> QED
  BY <1>2, <1>3, <1>5, <1>6, <1>7 DEF RecvInv

\* There is nothing left to pop when exstack_pop finds nothing.
LEMMA NothingLeft ==
  ASSUME RecvInv, NEW p \in Thread, stage[p] = "pop", Found(p) = {}, NEW s \in Thread
  PROVE  count[p][s] = 0
<1>1. s \in Int /\ first_ne_rcv[p] \in Int
  BY Values DEF RecvInv
<1>2. CASE s < first_ne_rcv[p]
  BY <1>2 DEF RecvInv, PoppingOK, Popping
<1>3. CASE s >= first_ne_rcv[p]
  BY <1>3 DEF Found
<1> QED
  BY <1>1, <1>2, <1>3

\* A step of p alone while no put is on its way.
LEMMA QuietRecv ==
  ASSUME ControlInv, SendInv, RecvInv, NEW p \in Thread,
         stage[p] \in {"clear", "point", "pop"},
         UNCHANGED <<rcv, count, unpops, items_popped, puts, todo>>,
         \A q \in Thread \ {p} :
           /\ stage'[q] = stage[q] /\ first_ne_rcv'[q] = first_ne_rcv[q]
           /\ popped'[q] = popped[q] /\ fifo'[q] = fifo[q],
         fifo' \in [Thread -> [Thread -> 0 .. BufCnt]], first_ne_rcv' \in [Thread -> Thread],
         popped' \in [Thread -> Thread \cup {None}],
         \A s \in Thread : fifo'[p][s] = 0,
         stage'[p] \in {"cleared", "pop"} \/ \A s \in Thread : count[p][s] = 0,
         first_ne_rcv'[p] = 0, popped'[p] = None
  PROVE  RecvInv'
<1>1. RecvTypes'
  BY DEF RecvInv, RecvTypes
<1>2. SpaceOK'
  <2> SUFFICES ASSUME NEW q \in Thread, NEW s \in Thread
               PROVE  fifo'[q][s] + count[q][s] <= BufCnt /\ fifo'[q][s] <= Len(items_popped[q][s])
    BY DEF SpaceOK
  <2>1. /\ count[q][s] \in 0 .. BufCnt /\ Len(items_popped[q][s]) \in Nat
        /\ fifo[q][s] + count[q][s] <= BufCnt /\ fifo[q][s] <= Len(items_popped[q][s])
    BY DEF RecvInv, RecvTypes, SpaceOK
  <2>2. fifo'[q][s] = 0 \/ fifo'[q][s] = fifo[q][s]
    OBVIOUS
  <2>3. CASE fifo'[q][s] = 0
    BY <2>1, <2>3, ExBufCntAssumption
  <2>4. CASE fifo'[q][s] = fifo[q][s]
    BY <2>1, <2>4
  <2> QED
    BY <2>2, <2>3, <2>4
<1>3. PoppingOK'
  <2> SUFFICES ASSUME NEW q \in Thread PROVE Popping(q)'
    BY DEF PoppingOK
  <2>1. Popping(q)
    BY DEF RecvInv, PoppingOK
  <2>2. CASE q = p
    <3>1. \A t \in Thread : ~(t < 0)
      BY Values DEF RecvInv
    <3> QED
      BY <2>2, <3>1 DEF Popping
  <2>3. CASE q # p
    BY <2>1, <2>3, PoppingFrame DEF RecvInv
  <2> QED
    BY <2>2, <2>3
<1>4. puts = {}
  <2> SUFFICES ASSUME NEW m \in puts PROVE FALSE
    OBVIOUS
  <2> QED
    BY PutsAre DEF RecvInv
<1>5. ASSUME NEW q \in Thread, NEW s \in Thread, count[q][s] # 0
      PROVE  stage'[q] \in {"clear", "cleared", "point", "pop"} \/ DidPut(s, q)'
  <2>1. stage[q] \in {"clear", "cleared", "point", "pop"} \/ DidPut(s, q)
    BY <1>5 DEF RecvInv, PutsOK
  <2>2. ~DidPut(p, q)
    BY DEF DidPut
  <2>3. DidPut(s, q) => DidPut(s, q)'
    BY <2>2 DEF DidPut
  <2> QED
    BY <1>5, <2>1, <2>3
<1>6. PutsOK'
  BY <1>4, <1>5 DEF PutsOK
<1> QED
  BY <1>1, <1>2, <1>3, <1>6 DEF RecvInv

LEMMA RewoundIs ==
  ASSUME RecvTypes, NEW p \in Thread, fifo' = Rewound(p)
  PROVE  /\ fifo' \in [Thread -> [Thread -> 0 .. BufCnt]]
         /\ \A s \in Thread : fifo'[p][s] = 0
         /\ \A q \in Thread \ {p} : fifo'[q] = fifo[q]
<1>1. 0 \in 0 .. BufCnt
  BY ExBufCntAssumption
<1> QED
  BY <1>1 DEF RecvTypes, Rewound

LEMMA AfterExchangeRecv ==
  ASSUME ControlInv, SendInv, RecvInv, NEW p \in Thread, Clear(p) \/ Point(p) \/ PopNone(p)
  PROVE  RecvInv'
<1>1. UNCHANGED <<rcv, count, unpops, items_popped, puts, todo>>
  BY DEF Clear, Point, PopNone, client
<1>2. \A q \in Thread \ {p} : stage'[q] = stage[q]
  BY Alone DEF Exchange
<1>3. 0 \in Thread
  BY Values DEF RecvInv
<1>4. CASE Clear(p)
  <2>1. /\ stage[p] = "clear" /\ stage'[p] = "cleared"
        /\ first_ne_rcv' = [first_ne_rcv EXCEPT ![p] = 0]
        /\ UNCHANGED <<popped, fifo>>
    BY <1>4 DEF Clear, Goto, ControlInv, client
  <2>2. /\ first_ne_rcv' \in [Thread -> Thread] /\ first_ne_rcv'[p] = 0
        /\ \A q \in Thread \ {p} : first_ne_rcv'[q] = first_ne_rcv[q]
    BY <1>3, <2>1 DEF RecvInv, RecvTypes
  <2>3. popped[p] = None /\ \A s \in Thread : fifo[p][s] = 0
    BY <2>1 DEF RecvInv, PoppingOK, Popping
  <2>4. fifo \in [Thread -> [Thread -> 0 .. BufCnt]] /\ popped \in [Thread -> Thread \cup {None}]
    BY DEF RecvInv, RecvTypes
  <2> QED
    BY <1>1, <1>2, <2>1, <2>2, <2>3, <2>4, QuietRecv
<1>5. CASE Point(p)
  <2>1. /\ stage[p] = "point" /\ stage'[p] = "pop" /\ fifo' = Rewound(p)
        /\ UNCHANGED <<popped, first_ne_rcv>>
    BY <1>5 DEF Point, Goto, ControlInv, client
  <2>2. popped[p] = None /\ first_ne_rcv[p] = 0
    BY <2>1 DEF RecvInv, PoppingOK, Popping
  <2>3. first_ne_rcv \in [Thread -> Thread] /\ popped \in [Thread -> Thread \cup {None}]
    BY DEF RecvInv, RecvTypes
  <2>4. /\ fifo' \in [Thread -> [Thread -> 0 .. BufCnt]] /\ \A s \in Thread : fifo'[p][s] = 0
        /\ \A q \in Thread \ {p} : fifo'[q] = fifo[q]
    BY <2>1, RewoundIs DEF RecvInv
  <2> QED
    BY <1>1, <1>2, <2>1, <2>2, <2>3, <2>4, QuietRecv
<1>6. CASE PopNone(p)
  <2>1. /\ stage[p] = "pop" /\ Found(p) = {} /\ fifo' = Rewound(p)
        /\ first_ne_rcv' = [first_ne_rcv EXCEPT ![p] = 0]
        /\ popped' = [popped EXCEPT ![p] = None]
    BY <1>6 DEF PopNone
  <2>2. \A s \in Thread : count[p][s] = 0
    BY <2>1, NothingLeft
  <2>3. /\ first_ne_rcv' \in [Thread -> Thread] /\ first_ne_rcv'[p] = 0
        /\ \A q \in Thread \ {p} : first_ne_rcv'[q] = first_ne_rcv[q]
        /\ popped' \in [Thread -> Thread \cup {None}] /\ popped'[p] = None
        /\ \A q \in Thread \ {p} : popped'[q] = popped[q]
    BY <1>3, <2>1 DEF RecvInv, RecvTypes
  <2>4. /\ fifo' \in [Thread -> [Thread -> 0 .. BufCnt]] /\ \A s \in Thread : fifo'[p][s] = 0
        /\ \A q \in Thread \ {p} : fifo'[q] = fifo[q]
    BY <2>1, RewoundIs DEF RecvInv
  <2> QED
    BY <1>1, <1>2, <2>1, <2>2, <2>3, <2>4, QuietRecv
<1> QED
  BY <1>4, <1>5, <1>6

LEMMA PoppedRecv ==
  ASSUME ControlInv, SendInv, RecvInv, NEW p \in Thread,
         Pop(p) \/ \E s \in Thread : PopThread(p, s)
  PROVE  RecvInv'
<1>1. CASE Pop(p)
  <2>1. PICK s \in Found(p) :
          /\ \A t \in Found(p) : s <= t
          /\ Take(p, s)
          /\ first_ne_rcv' = [first_ne_rcv EXCEPT ![p] = s]
          /\ popped' = [popped EXCEPT ![p] = s]
    BY <1>1 DEF Pop
  <2>2. s \in Thread /\ s >= first_ne_rcv[p] /\ count[p][s] # 0
    BY DEF Found
  <2>3. stage[p] = "pop" /\ UNCHANGED <<snd, rcv, stage, todo, puts, unpops>>
    BY <1>1 DEF Pop
  <2> QED
    BY <2>1, <2>2, <2>3, PopRecv
<1>2. ASSUME NEW s \in Thread, PopThread(p, s) PROVE RecvInv'
  <2>1. /\ stage[p] = "pop" /\ count[p][s] # 0 /\ Take(p, s)
        /\ popped' = [popped EXCEPT ![p] = s]
        /\ UNCHANGED <<snd, rcv, stage, todo, puts, unpops, first_ne_rcv>>
    BY <1>2 DEF PopThread
  <2> QED
    BY <2>1, PopRecv
<1> QED
  BY <1>1, <1>2

\* The buffers of a PE that leaves are empty, and nothing is on its way to it.
LEMMA ResetRecv ==
  ASSUME ControlInv, SendInv, RecvInv, NEW p \in Thread, ResetEx(p)
  PROVE  RecvInv'
<1>1. /\ stage[p] = "left" /\ UNCHANGED <<rcv, todo, puts, popped>>
      /\ snd' = [snd EXCEPT ![p] = [d \in Thread |-> <<>>]]
      /\ count' = [count EXCEPT ![p] = [s \in Thread |-> 0]]
      /\ fifo' = Rewound(p)
      /\ first_ne_rcv' = [first_ne_rcv EXCEPT ![p] = 0]
      /\ unpops' = [unpops EXCEPT ![p] = 0]
      /\ items_popped' = [items_popped EXCEPT ![p] = [s \in Thread |-> <<>>]]
  BY DEF ResetEx
<1>2. stage'[p] = "reset" /\ \A q \in Thread \ {p} : stage'[q] = stage[q]
  BY DEF ResetEx, Goto, ControlInv
<1>3. /\ fifo' \in [Thread -> [Thread -> 0 .. BufCnt]] /\ \A s \in Thread : fifo'[p][s] = 0
      /\ \A q \in Thread \ {p} : fifo'[q] = fifo[q]
  BY <1>1, RewoundIs DEF RecvInv
<1>4. 0 \in 0 .. BufCnt /\ 0 \in Thread /\ <<>> \in Seq(Nat) /\ Len(<<>>) = 0
  BY Values, ExBufCntAssumption DEF RecvInv
<1>5. /\ count' \in [Thread -> [Thread -> 0 .. BufCnt]]
      /\ \A q, s \in Thread : count'[q][s] = IF q = p THEN 0 ELSE count[q][s]
  BY <1>1, <1>4 DEF RecvInv, RecvTypes
<1>6. /\ items_popped' \in [Thread -> [Thread -> Seq(Nat)]]
      /\ \A q, s \in Thread : items_popped'[q][s] = IF q = p THEN <<>> ELSE items_popped[q][s]
  BY <1>1, <1>4 DEF RecvInv, RecvTypes
<1>7. /\ first_ne_rcv' \in [Thread -> Thread] /\ unpops' \in [Thread -> Nat]
      /\ \A q \in Thread \ {p} : first_ne_rcv'[q] = first_ne_rcv[q]
  BY <1>1, <1>4 DEF RecvInv, RecvTypes
<1>8. RecvTypes'
  BY <1>1, <1>3, <1>5, <1>6, <1>7 DEF RecvInv, RecvTypes
<1>9. SpaceOK'
  <2> SUFFICES ASSUME NEW q \in Thread, NEW s \in Thread
               PROVE  /\ fifo'[q][s] + count'[q][s] <= BufCnt
                      /\ fifo'[q][s] <= Len(items_popped'[q][s])
    BY DEF SpaceOK
  <2>1. CASE q = p
    <3>1. fifo'[q][s] = 0 /\ count'[q][s] = 0 /\ items_popped'[q][s] = <<>>
      BY <1>3, <1>5, <1>6, <2>1
    <3> QED
      BY <1>4, <3>1, ExBufCntAssumption
  <2>2. CASE q # p
    <3>1. fifo'[q][s] = fifo[q][s] /\ count'[q][s] = count[q][s] /\ items_popped'[q][s] = items_popped[q][s]
      BY <1>3, <1>5, <1>6, <2>2
    <3> QED
      BY <3>1 DEF RecvInv, SpaceOK
  <2> QED
    BY <2>1, <2>2
<1>10. PoppingOK'
  <2> SUFFICES ASSUME NEW q \in Thread PROVE Popping(q)'
    BY DEF PoppingOK
  <2>1. Popping(q)
    BY DEF RecvInv, PoppingOK
  <2>2. CASE q = p
    BY <1>1, <1>2, <1>3, <2>1, <2>2 DEF Popping
  <2>3. CASE q # p
    <3>1. \A t \in Thread : count'[q][t] = count[q][t] /\ fifo'[q][t] = fifo[q][t]
      BY <1>3, <1>5, <2>3
    <3> QED
      BY <1>1, <1>2, <1>7, <2>1, <2>3, <3>1, PoppingFrame DEF RecvInv
  <2> QED
    BY <2>2, <2>3
<1>11. \A q, d \in Thread : DidPut(q, d) => q # p /\ DidPut(q, d)'
  BY <1>1, <1>2 DEF DidPut
<1>12. PutsOK'
  <2>1. ASSUME NEW m \in puts
        PROVE  /\ DidPut(m.from, m.to)' /\ count'[m.to][m.from] = 0
               /\ m.pkgs = snd'[m.from][m.to]
    <3>1. m.from \in Thread /\ m.to \in Thread
      BY DEF SendInv
    <3>2. /\ DidPut(m.from, m.to) /\ count[m.to][m.from] = 0
          /\ m.pkgs = snd[m.from][m.to]
      BY DEF RecvInv, PutsOK
    <3>3. DidPut(m.from, m.to)' /\ m.from # p /\ count'[m.to][m.from] = 0
      BY <1>5, <1>11, <3>1, <3>2
    <3>4. snd'[m.from][m.to] = snd[m.from][m.to]
      BY <1>1, <3>1, <3>3, EmptySend
    <3> QED
      BY <3>2, <3>3, <3>4
  <2>2. ASSUME NEW q \in Thread, NEW s \in Thread, count'[q][s] # 0
        PROVE  stage'[q] \in {"clear", "cleared", "point", "pop"} \/ DidPut(s, q)'
    <3>1. q # p /\ count[q][s] # 0
      BY <1>5, <2>2
    <3>2. stage[q] \in {"clear", "cleared", "point", "pop"} \/ DidPut(s, q)
      BY <3>1 DEF RecvInv, PutsOK
    <3> QED
      BY <1>2, <1>11, <3>1, <3>2
  <2> QED
    BY <1>1, <2>1, <2>2 DEF PutsOK
<1> QED
  BY <1>8, <1>9, <1>10, <1>12 DEF RecvInv

\* What a put leaves in the receive buffer: its packages, then what was there.
LEMMA Landed ==
  ASSUME NEW k \in Seq(Nat), Len(k) \in 1 .. BufCnt, NEW r \in [Slot -> Nat]
  PROVE  /\ k \o SubSeq(r, Len(k) + 1, BufCnt) \in [Slot -> Nat]
         /\ \A i \in 1 .. Len(k) : (k \o SubSeq(r, Len(k) + 1, BufCnt))[i] = k[i]
<1>1. Len(k) \in Nat /\ Len(k) <= BufCnt /\ BufCnt \in Nat
  BY ExBufCntAssumption
<1>2. r \in Seq(Nat) /\ Len(r) = BufCnt
  BY <1>1 DEF Slot
<1> DEFINE t == SubSeq(r, Len(k) + 1, BufCnt)
           n == Len(k)
<1>3. n \in Nat /\ n + 1 \in 1 .. BufCnt + 1 /\ n <= BufCnt
  BY <1>1
<1> HIDE DEF n
<1>4. \A i \in n + 1 .. BufCnt : r[i] \in Nat
  BY <1>3 DEF Slot
<1>5. SubSeq(r, n + 1, BufCnt) \in Seq(Nat) /\ Len(SubSeq(r, n + 1, BufCnt)) = BufCnt - n
  <2>1. /\ SubSeq(r, n + 1, BufCnt) \in Seq(Nat)
        /\ Len(SubSeq(r, n + 1, BufCnt)) =
             IF n + 1 <= BufCnt THEN BufCnt - (n + 1) + 1 ELSE 0
    BY <1>1, <1>3, <1>4, SubSeqProperties
  <2> QED
    BY <1>1, <1>3, <2>1
<1>6. t \in Seq(Nat) /\ Len(t) = BufCnt - Len(k)
  BY <1>5 DEF n
<1> HIDE DEF t
<1>7. k \o t \in Seq(Nat) /\ Len(k \o t) = Len(k) + Len(t)
  BY <1>6, ConcatProperties
<1>8. \A i \in 1 .. Len(k) : (k \o t)[i] = k[i]
  BY <1>6
<1>9. Len(k \o t) = BufCnt
  BY <1>1, <1>6, <1>7
<1>10. k \o t \in [Slot -> Nat]
  BY <1>7, <1>9, LenProperties DEF Slot
<1> QED
  BY <1>8, <1>10 DEF t

\* What the landing of m changes.
Lands(m) ==
  /\ m.from \in Thread /\ m.to \in Thread /\ puts' = puts \ {m}
  /\ count' \in [Thread -> [Thread -> 0 .. BufCnt]] /\ rcv' \in [Thread -> [Thread -> [Slot -> Nat]]]
  /\ \A q, s \in Thread : (q # m.to \/ s # m.from) =>
       count'[q][s] = count[q][s] /\ rcv'[q][s] = rcv[q][s]
  /\ count[m.to][m.from] = 0 /\ fifo[m.to][m.from] = 0
  /\ count'[m.to][m.from] = Len(snd[m.from][m.to])
  /\ Len(snd[m.from][m.to]) \in 1 .. BufCnt
  /\ \A i \in 1 .. Len(snd[m.from][m.to]) : rcv'[m.to][m.from][i] = snd[m.from][m.to][i]
  /\ DidPut(m.from, m.to)
  /\ \A w \in puts' : w.to # m.to \/ w.from # m.from

LEMMA LandIs ==
  ASSUME ControlInv, SendInv, RecvInv, LandPut
  PROVE  \E m \in puts : Lands(m)
<1>1. PICK m \in puts :
        /\ rcv' = [rcv EXCEPT ![m.to][m.from] = m.pkgs \o SubSeq(@, Len(m.pkgs) + 1, BufCnt)]
        /\ count' = [count EXCEPT ![m.to][m.from] = Len(m.pkgs)]
        /\ puts' = puts \ {m}
  BY DEF LandPut
<1>2. /\ m.from \in Thread /\ m.to \in Thread /\ m.pkgs = snd[m.from][m.to]
      /\ DidPut(m.from, m.to) /\ count[m.to][m.from] = 0
      /\ m.pkgs \in Seq(Nat) /\ Len(m.pkgs) \in 1 .. BufCnt
  BY DEF RecvInv, PutsOK, SendInv
<1> DEFINE q == m.to
           s == m.from
           k == m.pkgs
           v == k \o SubSeq(rcv[q][s], Len(k) + 1, BufCnt)
<1>3. v \in [Slot -> Nat] /\ \A i \in 1 .. Len(k) : v[i] = k[i]
  <2>1. rcv[q][s] \in [Slot -> Nat]
    BY <1>2 DEF RecvInv, RecvTypes
  <2> QED
    BY <1>2, <2>1, Landed
<1>4. rcv' = [rcv EXCEPT ![q][s] = v]
  BY <1>1
<1> HIDE DEF v
<1>5. /\ rcv' \in [Thread -> [Thread -> [Slot -> Nat]]] /\ rcv'[q][s] = v
      /\ \A x, y \in Thread : (x # q \/ y # s) => rcv'[x][y] = rcv[x][y]
  BY <1>2, <1>3, <1>4 DEF RecvInv, RecvTypes
<1>6. Len(k) \in 0 .. BufCnt
  BY <1>2, ExBufCntAssumption
<1>7. /\ count' \in [Thread -> [Thread -> 0 .. BufCnt]] /\ count'[q][s] = Len(k)
      /\ \A x, y \in Thread : (x # q \/ y # s) => count'[x][y] = count[x][y]
  BY <1>1, <1>2, <1>6 DEF RecvInv, RecvTypes
<1>8. fifo[q][s] = 0
  BY <1>2, PutsAre DEF RecvInv, PoppingOK, Popping
<1>9. \A w \in puts' : w.to # q \/ w.from # s
  <2> SUFFICES ASSUME NEW w \in puts', w.to = q, w.from = s PROVE FALSE
    OBVIOUS
  <2>1. w.pkgs = k
    BY <1>1, <1>2 DEF RecvInv, PutsOK
  <2>2. w \in [from : Thread, to : Thread, pkgs : Seq(Nat)] /\ m \in [from : Thread, to : Thread, pkgs : Seq(Nat)]
    BY <1>1 DEF SendInv
  <2>3. w = m
    BY <2>1, <2>2
  <2> QED
    BY <1>1, <2>3
<1>10. /\ count'[q][s] = Len(snd[s][q]) /\ Len(snd[s][q]) \in 1 .. BufCnt
       /\ \A i \in 1 .. Len(snd[s][q]) : rcv'[q][s][i] = snd[s][q][i]
  BY <1>2, <1>3, <1>5, <1>7
<1>11. \A x, y \in Thread : (x # q \/ y # s) =>
         count'[x][y] = count[x][y] /\ rcv'[x][y] = rcv[x][y]
  BY <1>5, <1>7
<1>12. Lands(m)
  BY <1>1, <1>2, <1>5, <1>7, <1>8, <1>9, <1>10, <1>11 DEF Lands
<1> QED
  BY <1>12

LEMMA LandRecv ==
  ASSUME ControlInv, SendInv, RecvInv, LandPut
  PROVE  RecvInv'
<1>1. PICK m \in puts :
           /\ m.from \in Thread /\ m.to \in Thread /\ puts' = puts \ {m}
           /\ count' \in [Thread -> [Thread -> 0 .. BufCnt]] /\ rcv' \in [Thread -> [Thread -> [Slot -> Nat]]]
           /\ \A q, s \in Thread : (q # m.to \/ s # m.from) => count'[q][s] = count[q][s]
           /\ fifo[m.to][m.from] = 0
           /\ DidPut(m.from, m.to)
           /\ \A w \in puts' : w.to # m.to \/ w.from # m.from
  <2>1. PICK m \in puts : Lands(m)
    BY LandIs
  <2>2. \A q, s \in Thread : (q # m.to \/ s # m.from) => count'[q][s] = count[q][s]
    BY <2>1 DEF Lands
  <2> QED
    BY <2>1, <2>2 DEF Lands
<1>2. UNCHANGED <<fifo, first_ne_rcv, popped, unpops, items_popped, snd, stage, todo>>
  BY DEF LandPut, client
<1>3. RecvTypes'
  BY <1>1, <1>2 DEF RecvInv, RecvTypes
<1>4. SpaceOK'
  <2> SUFFICES ASSUME NEW q \in Thread, NEW s \in Thread PROVE fifo[q][s] + count'[q][s] <= BufCnt
    BY <1>2 DEF RecvInv, SpaceOK
  <2>1. CASE q = m.to /\ s = m.from
    <3>1. fifo[q][s] = 0 /\ count'[q][s] \in 0 .. BufCnt
      BY <1>1, <2>1
    <3> QED
      BY <3>1, ExBufCntAssumption
  <2>2. CASE q # m.to \/ s # m.from
    BY <1>1, <2>2 DEF RecvInv, SpaceOK
  <2> QED
    BY <2>1, <2>2
<1>5. PoppingOK'
  <2> SUFFICES ASSUME NEW q \in Thread PROVE Popping(q)'
    BY DEF PoppingOK
  <2>1. Popping(q) /\ stage[q] # "pop"
    BY PutsAre DEF RecvInv, PoppingOK
  <2> QED
    BY <1>2, <2>1 DEF Popping
<1>6. PutsOK'
  <2>1. ASSUME NEW w \in puts'
        PROVE  /\ DidPut(w.from, w.to)' /\ count'[w.to][w.from] = 0
               /\ w.pkgs = snd[w.from][w.to]
    <3>1. w \in puts /\ w.from \in Thread /\ w.to \in Thread
      BY <1>1 DEF SendInv
    <3>2. /\ DidPut(w.from, w.to) /\ count[w.to][w.from] = 0
          /\ w.pkgs = snd[w.from][w.to]
      BY <3>1 DEF RecvInv, PutsOK
    <3>3. count'[w.to][w.from] = count[w.to][w.from]
      BY <1>1, <3>1
    <3> QED
      BY <1>2, <3>2, <3>3 DEF DidPut
  <2>2. ASSUME NEW q \in Thread, NEW s \in Thread, count'[q][s] # 0
        PROVE  stage[q] \in {"clear", "cleared", "point", "pop"} \/ DidPut(s, q)
    BY <1>1, <2>2 DEF RecvInv, PutsOK
  <2> QED
    BY <1>2, <2>1, <2>2 DEF PutsOK, DidPut
<1> QED
  BY <1>3, <1>4, <1>5, <1>6 DEF RecvInv

LEMMA BarrierRecv ==
  ASSUME ControlInv, SendInv, RecvInv, NEW b \in DOMAIN Passed, Barrier(b)
  PROVE  RecvInv'
<1>1. /\ b \in {"proceed", "exchange", "cleared", "between", "reset"}
      /\ \A p \in Thread : stage[p] = b /\ stage'[p] = Passed[b]
  BY AtBarrier
<1>2. /\ UNCHANGED <<rcv, count, fifo, first_ne_rcv, popped, unpops, items_popped>>
      /\ puts' = {}
  BY DEF Barrier, rcving, client
<1>3. RecvTypes' /\ SpaceOK'
  BY <1>2 DEF RecvInv, RecvTypes, SpaceOK
<1>4. PoppingOK'
  <2> SUFFICES ASSUME NEW q \in Thread PROVE Popping(q)'
    BY DEF PoppingOK
  <2>1. Popping(q)
    BY DEF RecvInv, PoppingOK
  <2> QED
    BY <1>1, <1>2, <2>1, StagesAre DEF Popping
<1>5. ASSUME NEW q \in Thread, NEW s \in Thread, count[q][s] # 0
      PROVE  stage'[q] \in {"clear", "cleared", "point", "pop"}
  <2>1. stage[q] \in {"clear", "cleared", "point", "pop"} \/ DidPut(s, q)
    BY <1>5 DEF RecvInv, PutsOK
  <2>2. b \in {"cleared", "exchange"}
    BY <1>1, <2>1 DEF DidPut
  <2> QED
    BY <1>1, <2>2, StagesAre
<1>6. PutsOK'
  BY <1>2, <1>5 DEF PutsOK
<1> QED
  BY <1>3, <1>4, <1>6 DEF RecvInv

LEMMA RecvNext ==
  ASSUME ControlInv, SendInv, RecvInv, [NextEx]_exvars
  PROVE  RecvInv'
<1>1. ASSUME NEW p \in Thread, \/ Proceed(p) \/ Decide(p) \/ Exchange(p) \/ ResetEx(p)
                               \/ Pop(p) \/ Unpop(p) \/ PopNone(p)
                               \/ \E q \in Thread : PushEx(p, q) \/ PopThread(p, q)
      PROVE  RecvInv'
  BY <1>1, SimpleRecv, PutOneRecv, AfterExchangeRecv, ResetRecv, PoppedRecv, UnpopRecv,
     PushRecv DEF Exchange
<1>2. ASSUME NEW b \in DOMAIN Passed, Barrier(b) PROVE RecvInv'
  BY <1>2, BarrierRecv
<1>3. CASE LandFlag \/ FinishedEx \/ UNCHANGED exvars
  <2>1. UNCHANGED <<rcv, count, fifo, first_ne_rcv, popped, unpops, items_popped, puts, snd, stage, todo>>
    BY <1>3 DEF LandFlag, FinishedEx, exvars, client, rcving
  <2> QED
    BY <2>1 DEF RecvInv, RecvTypes, SpaceOK, PoppingOK, Popping, PutsOK, DidPut
<1> QED
  BY <1>1, <1>2, <1>3, LandRecv DEF NextEx

-----------------------------------------------------------------------------
(* Rounds, and the buffers of a PE that waits *)

\* A PE that has reset is one round ahead of a PE that has not.
RoundsOK == \A p, q \in Thread :
  /\ (stage[p] = "reset" <=> stage[q] = "reset") => ex_round[p] = ex_round[q]
  /\ stage[p] = "reset" /\ stage[q] # "reset" => ex_round[p] = ex_round[q] + 1

FreshOK == \A p, d \in Thread : stage[p] = "reset" => items_pushed[p][d] = 0 /\ items_popped[p][d] = <<>>

RoundInv == ex_round \in [Thread -> Nat] /\ RoundsOK /\ FreshOK

\* Items are held from a push to the exchange that sends them.
HeldOK == \A p, d \in Thread : snd[p][d] # <<>> =>
  \/ stage[p] \in {"push", "exchanging", "exchange", "clear", "between", "exchange_start"}
  \/ stage[p] = "pop" /\ Answers /\ ~second[p]

\* What a PE does in the loop leaves the others' data alone.
LEMMA InLoop ==
  ASSUME ControlInv, SendInv, RecvInv, NEW p \in Thread,
         \/ Proceed(p) \/ Decide(p) \/ Exchange(p)
         \/ Pop(p) \/ Unpop(p) \/ PopNone(p)
         \/ \E q \in Thread : PushEx(p, q) \/ PopThread(p, q)
  PROVE  /\ UNCHANGED ex_round
         /\ stage[p] # "reset" /\ stage'[p] # "reset"
         /\ \A q \in Thread \ {p} : stage'[q] = stage[q] /\ second'[q] = second[q]
         /\ \A q \in Thread \ {p}, d \in Thread :
              /\ items_pushed'[q][d] = items_pushed[q][d] /\ items_popped'[q][d] = items_popped[q][d]
              /\ snd'[q][d] = snd[q][d]
<1>1. \A q \in Thread \ {p} : stage'[q] = stage[q] /\ second'[q] = second[q]
  BY Alone
<1>2. CASE Proceed(p) \/ Decide(p) \/ StartExchange(p) \/ PutOne(p) \/ Point(p) \/ PopNone(p)
  <2>1. UNCHANGED <<ex_round, items_pushed, items_popped, snd>>
    BY <1>2 DEF Proceed, Decide, StartExchange, PutOne, Point, PopNone, client
  <2>2. stage[p] # "reset" /\ stage'[p] # "reset"
    BY <1>2 DEF Proceed, Meet, Decide, StartExchange, PutOne, Point, PopNone, Between, Goto,
                ControlInv
  <2> QED
    BY <1>1, <2>1, <2>2
<1>3. CASE Clear(p)
  <2>1. /\ UNCHANGED <<ex_round, items_pushed, items_popped>> /\ stage[p] = "clear" /\ stage'[p] = "cleared"
        /\ snd' = [snd EXCEPT ![p] = [d \in Thread |-> <<>>]]
    BY <1>3 DEF Clear, client, Goto, ControlInv
  <2>2. \A q \in Thread \ {p}, d \in Thread : snd'[q][d] = snd[q][d]
    BY <2>1, EmptySend
  <2> QED
    BY <1>1, <2>1, <2>2
<1>4. ASSUME NEW s \in Thread, PushEx(p, s)
      PROVE  /\ UNCHANGED <<ex_round, items_popped, stage>> /\ stage[p] \in {"push", "pop"}
             /\ \A q \in Thread \ {p}, d \in Thread : /\ snd'[q][d] = snd[q][d]
                                                      /\ items_pushed'[q][d] = items_pushed[q][d]
  <2>1. UNCHANGED <<ex_round, items_popped, stage>> /\ stage[p] \in {"push", "pop"}
    BY <1>4 DEF PushEx, MayPush
  <2>2. \A q, d \in Thread : (q # p \/ d # s) =>
          snd'[q][d] = snd[q][d] /\ items_pushed'[q][d] = items_pushed[q][d]
    BY <1>4, PushSend
  <2> QED
    BY <2>1, <2>2
<1>5. CASE Pop(p) \/ Unpop(p) \/ \E s \in Thread : PopThread(p, s)
  <2>1. UNCHANGED <<ex_round, items_pushed, snd, stage>> /\ stage[p] = "pop"
    BY <1>5 DEF Pop, Unpop, PopThread
  <2>2. PICK s \in Thread : Take(p, s) \/ GiveBack(p, s)
    <3>1. CASE Unpop(p)
      BY <3>1, UnpopRecv DEF Unpop
    <3>2. CASE Pop(p)
      BY <3>2 DEF Pop, Found
    <3>3. CASE \E s \in Thread : PopThread(p, s)
      BY <3>3 DEF PopThread
    <3> QED
      BY <1>5, <3>1, <3>2, <3>3
  <2>3. PICK g : items_popped' = [items_popped EXCEPT ![p][s] = g]
    BY <2>2 DEF Take, GiveBack
  <2>4. \A q \in Thread \ {p}, d \in Thread : items_popped'[q][d] = items_popped[q][d]
    BY <2>3 DEF RecvInv, RecvTypes
  <2> QED
    BY <2>1, <2>4, <1>1
<1> QED
  BY <1>1, <1>2, <1>3, <1>4, <1>5 DEF Exchange

LEMMA RoundNext ==
  ASSUME ControlInv, SendInv, RecvInv, RoundInv, [NextEx]_exvars
  PROVE  RoundInv'
<1>1. ASSUME NEW p \in Thread, \/ Proceed(p) \/ Decide(p) \/ Exchange(p)
                               \/ Pop(p) \/ Unpop(p) \/ PopNone(p)
                               \/ \E q \in Thread : PushEx(p, q) \/ PopThread(p, q)
      PROVE  RoundInv'
  <2>1. /\ UNCHANGED ex_round
        /\ stage[p] # "reset" /\ stage'[p] # "reset"
        /\ \A q \in Thread \ {p} : stage'[q] = stage[q]
        /\ \A q \in Thread \ {p}, d \in Thread : items_pushed'[q][d] = items_pushed[q][d] /\ items_popped'[q][d] = items_popped[q][d]
    BY <1>1, InLoop
  <2>2. \A q \in Thread : stage'[q] = "reset" <=> stage[q] = "reset"
    BY <2>1
  <2>3. RoundsOK'
    BY <2>1, <2>2 DEF RoundInv, RoundsOK
  <2>4. FreshOK'
    BY <2>1, <2>2 DEF RoundInv, FreshOK
  <2> QED
    BY <2>1, <2>3, <2>4 DEF RoundInv
<1>2. ASSUME NEW p \in Thread, ResetEx(p) PROVE RoundInv'
  <2>1. /\ stage[p] = "left" /\ stage'[p] = "reset" /\ ex_round' = [ex_round EXCEPT ![p] = @ + 1]
        /\ items_pushed' = [items_pushed EXCEPT ![p] = [d \in Thread |-> 0]]
        /\ items_popped' = [items_popped EXCEPT ![p] = [s \in Thread |-> <<>>]]
        /\ \A q \in Thread \ {p} : stage'[q] = stage[q]
    BY <1>2 DEF ResetEx, Goto, ControlInv
  <2>2. /\ ex_round' \in [Thread -> Nat] /\ ex_round'[p] = ex_round[p] + 1 /\ ex_round[p] \in Nat
        /\ \A q \in Thread \ {p} : ex_round'[q] = ex_round[q] /\ ex_round[q] \in Nat
    BY <2>1 DEF RoundInv
  <2>3. \A q, d \in Thread : /\ items_pushed'[q][d] = IF q = p THEN 0 ELSE items_pushed[q][d]
                             /\ items_popped'[q][d] = IF q = p THEN <<>> ELSE items_popped[q][d]
    BY <2>1 DEF SendInv, RecvInv, RecvTypes
  <2>4. FreshOK'
    BY <2>1, <2>3 DEF RoundInv, FreshOK
  <2>5. \A q \in Thread \ {p} : /\ stage[q] # "reset" => ex_round[q] = ex_round[p]
                                /\ stage[q] = "reset" => ex_round[q] = ex_round[p] + 1
    BY <2>1 DEF RoundInv, RoundsOK
  <2>6. RoundsOK'
    BY <2>1, <2>2, <2>5 DEF RoundInv, RoundsOK
  <2> QED
    BY <2>2, <2>4, <2>6 DEF RoundInv
<1>3. ASSUME NEW b \in DOMAIN Passed, Barrier(b) PROVE RoundInv'
  <2>1. \A p \in Thread : stage[p] = b /\ stage'[p] = Passed[b] /\ stage'[p] # "reset"
    BY <1>3, AtBarrier, StagesAre
  <2>2. UNCHANGED <<ex_round, items_pushed, items_popped>>
    BY <1>3 DEF Barrier, client
  <2> QED
    BY <2>1, <2>2 DEF RoundInv, RoundsOK, FreshOK
<1>4. CASE LandPut \/ LandFlag \/ FinishedEx \/ UNCHANGED exvars
  <2>1. UNCHANGED <<stage, ex_round, items_pushed, items_popped>>
    BY <1>4 DEF LandPut, LandFlag, FinishedEx, exvars, client
  <2> QED
    BY <2>1 DEF RoundInv, RoundsOK, FreshOK
<1> QED
  BY <1>1, <1>2, <1>3, <1>4 DEF NextEx

LEMMA HeldNext ==
  ASSUME ControlInv, SendInv, RecvInv, HeldOK, [NextEx]_exvars
  PROVE  HeldOK'
<1> DEFINE Holds(st, sec) ==
             \/ st \in {"push", "exchanging", "exchange", "clear", "between", "exchange_start"}
             \/ st = "pop" /\ Answers /\ ~sec
<1>1. ASSUME NEW p \in Thread, \/ Proceed(p) \/ Decide(p) \/ Exchange(p)
                               \/ Pop(p) \/ Unpop(p) \/ PopNone(p)
                               \/ \E q \in Thread : PushEx(p, q) \/ PopThread(p, q)
      PROVE  HeldOK'
  <2>1. /\ \A q \in Thread \ {p} : stage'[q] = stage[q] /\ second'[q] = second[q]
        /\ \A q \in Thread \ {p}, d \in Thread : snd'[q][d] = snd[q][d]
    BY <1>1, InLoop
  <2>2. ASSUME NEW d \in Thread, snd'[p][d] # <<>> PROVE Holds(stage'[p], second'[p])
    <3> USE DEF Goto, ControlInv
    <3>1. CASE Proceed(p) \/ Decide(p) \/ Point(p)
      <4>1. UNCHANGED snd /\ stage[p] \in {"loop", "decide", "point"}
        BY <3>1 DEF Proceed, Decide, Point
      <4> QED
        BY <2>2, <4>1 DEF HeldOK
    <3>2. CASE StartExchange(p) \/ PutOne(p)
      BY <3>2 DEF StartExchange, PutOne
    <3>3. CASE Clear(p)
      BY <2>2, <3>3, EmptySend DEF Clear
    <3>4. CASE Pop(p) \/ Unpop(p) \/ \E q \in Thread : PopThread(p, q)
      <4>1. UNCHANGED <<snd, stage, second>>
        BY <3>4 DEF Pop, Unpop, PopThread
      <4> QED
        BY <2>2, <4>1 DEF HeldOK
    <3>5. ASSUME NEW q \in Thread, PushEx(p, q) PROVE Holds(stage'[p], second'[p])
      BY <3>5 DEF PushEx, MayPush
    <3>6. CASE PopNone(p)
      <4>1. /\ UNCHANGED snd /\ stage[p] = "pop"
            /\ stage' = [stage EXCEPT ![p] = IF Answers /\ ~second[p] THEN "between" ELSE "loop"]
        BY <3>6 DEF PopNone, Between
      <4>2. Answers /\ ~second[p]
        BY <2>2, <4>1 DEF HeldOK
      <4> QED
        BY <4>1, <4>2
    <3> QED
      BY <1>1, <3>1, <3>2, <3>3, <3>4, <3>5, <3>6 DEF Exchange
  <2>3. ASSUME NEW q \in Thread, NEW d \in Thread, snd'[q][d] # <<>> PROVE Holds(stage'[q], second'[q])
    BY <2>1, <2>2, <2>3 DEF HeldOK
  <2> QED
    BY <2>3 DEF HeldOK
<1>2. ASSUME NEW p \in Thread, ResetEx(p) PROVE HeldOK'
  <2>1. /\ \A q \in Thread \ {p} : stage'[q] = stage[q] /\ second'[q] = second[q]
        /\ snd' = [snd EXCEPT ![p] = [d \in Thread |-> <<>>]]
    BY <1>2, Alone DEF ResetEx
  <2>2. \A q, d \in Thread : snd'[q][d] = IF q = p THEN <<>> ELSE snd[q][d]
    BY <2>1, EmptySend
  <2> QED
    BY <2>1, <2>2 DEF HeldOK
<1>3. ASSUME NEW b \in DOMAIN Passed, Barrier(b) PROVE HeldOK'
  <2>1. /\ b \in {"proceed", "exchange", "cleared", "between", "reset"}
        /\ \A p \in Thread : stage[p] = b /\ stage'[p] = Passed[b]
    BY <1>3, AtBarrier
  <2>2. UNCHANGED snd
    BY <1>3 DEF Barrier
  <2> QED
    BY <2>1, <2>2, StagesAre DEF HeldOK
<1>4. CASE LandPut \/ LandFlag \/ FinishedEx \/ UNCHANGED exvars
  <2>1. UNCHANGED <<stage, second, snd>>
    BY <1>4 DEF LandPut, LandFlag, FinishedEx, exvars
  <2> QED
    BY <2>1 DEF HeldOK
<1> QED
  BY <1>1, <1>2, <1>3, <1>4 DEF NextEx

-----------------------------------------------------------------------------
(* What is pushed is popped *)

InFlight(p, d) == \E m \in puts : m.from = p /\ m.to = d

\* Has the buffer of p for d landed, although p has not emptied it yet?
Sent(p, d) == (DidPut(p, d) \/ stage[p] = "clear") /\ ~InFlight(p, d)

Unsent(p, d) == IF Sent(p, d) THEN 0 ELSE Len(snd[p][d])

\* What p has pushed to d has been popped, can be popped, or has yet to land.
Account(p, d) == ex_round[p] = ex_round[d] =>
  Len(items_popped[d][p]) + count[d][p] + Unsent(p, d) = items_pushed[p][d]

\* The items of a send buffer are the last that were pushed, and those of a
\* receive buffer follow, and precede, what has been popped.
HeldValues(p, d) == \A i \in 1 .. Len(snd[p][d]) :
  snd[p][d][i] = items_pushed[p][d] - Len(snd[p][d]) + i

BufferValues(p, d) == \A j \in 1 .. fifo[d][p] + count[d][p] :
  rcv[d][p][j] = Len(items_popped[d][p]) - fifo[d][p] + j

GotValues(p, d) == \A i \in 1 .. Len(items_popped[d][p]) : items_popped[d][p][i] = i

Pair(p, d) == /\ Account(p, d) /\ HeldValues(p, d)
              /\ BufferValues(p, d) /\ GotValues(p, d)

PairsOK == \A p, d \in Thread : Pair(p, d)

\* The invariant of the loop.
LoopInv == ControlInv /\ EndgameInv /\ SendInv /\ RecvInv /\ RoundInv /\ HeldOK

\* A pair of PEs that nothing happens to.
LEMMA PairFrame ==
  ASSUME NEW p \in Thread, NEW d \in Thread, Pair(p, d),
         ex_round'[p] = ex_round'[d] => ex_round[p] = ex_round[d],
         snd'[p][d] = snd[p][d], items_pushed'[p][d] = items_pushed[p][d],
         items_popped'[d][p] = items_popped[d][p], count'[d][p] = count[d][p],
         fifo'[d][p] = fifo[d][p], rcv'[d][p] = rcv[d][p],
         Unsent(p, d)' = Unsent(p, d)
  PROVE  Pair(p, d)'
<1>1. Account(p, d)'
  BY DEF Pair, Account
<1>2. HeldValues(p, d)' /\ BufferValues(p, d)' /\ GotValues(p, d)'
  BY DEF Pair, HeldValues, BufferValues, GotValues
<1> QED
  BY <1>1, <1>2 DEF Pair

LEMMA PairTypes ==
  ASSUME LoopInv, NEW p \in Thread, NEW d \in Thread
  PROVE  /\ snd[p][d] \in Seq(Nat) /\ Len(snd[p][d]) \in Nat /\ items_pushed[p][d] \in Nat
         /\ items_popped[d][p] \in Seq(Nat) /\ Len(items_popped[d][p]) \in Nat
         /\ count[d][p] \in Nat /\ fifo[d][p] \in Nat
         /\ fifo[d][p] <= Len(items_popped[d][p]) /\ fifo[d][p] + count[d][p] <= BufCnt
         /\ Unsent(p, d) \in Nat
<1>1. snd[p][d] \in Seq(Nat) /\ items_pushed[p][d] \in Nat
  BY DEF LoopInv, SendInv
<1>2. items_popped[d][p] \in Seq(Nat) /\ count[d][p] \in Nat /\ fifo[d][p] \in Nat
  BY Values DEF LoopInv, RecvInv
<1>3. fifo[d][p] <= Len(items_popped[d][p]) /\ fifo[d][p] + count[d][p] <= BufCnt
  BY DEF LoopInv, RecvInv, SpaceOK
<1>4. Len(snd[p][d]) \in Nat /\ Len(items_popped[d][p]) \in Nat
  BY <1>1, <1>2
<1> QED
  BY <1>1, <1>2, <1>3, <1>4 DEF Unsent

\* Outside the exchange a buffer is as its client left it.
LEMMA UnsentIs ==
  ASSUME NEW p \in Thread, NEW d \in Thread
  PROVE  /\ stage[p] \notin {"exchanging", "exchange", "clear"} =>
              Unsent(p, d) = Len(snd[p][d])
         /\ stage'[p] \notin {"exchanging", "exchange", "clear"} =>
              Unsent(p, d)' = Len(snd[p][d])'
BY DEF Unsent, Sent, DidPut

\* Steps that move no item.
LEMMA StillPairs ==
  ASSUME LoopInv, PairsOK, UNCHANGED <<snd, items_pushed, items_popped, count, fifo, rcv, ex_round, puts>>,
         \A p, d \in Thread : (DidPut(p, d) \/ stage[p] = "clear")' =
                          (DidPut(p, d) \/ stage[p] = "clear")
  PROVE  PairsOK'
<1> SUFFICES ASSUME NEW p \in Thread, NEW d \in Thread PROVE Pair(p, d)'
  BY DEF PairsOK
<1>1. Sent(p, d)' = Sent(p, d)
  BY DEF Sent, InFlight
<1>2. Unsent(p, d)' = Unsent(p, d)
  BY <1>1 DEF Unsent
<1> QED
  BY <1>2, PairFrame DEF PairsOK

LEMMA SimplePairs ==
  ASSUME LoopInv, PairsOK, NEW p \in Thread, Proceed(p) \/ Decide(p) \/ StartExchange(p) \/ Point(p)
  PROVE  PairsOK'
<1>1. /\ UNCHANGED <<snd, items_pushed, items_popped, count, rcv, ex_round, puts>>
      /\ stage[p] \in {"loop", "decide", "push", "exchange_start", "point"}
  BY DEF Proceed, Decide, StartExchange, Point, rcving, client
<1>2. UNCHANGED fifo
  <2>1. CASE Point(p)
    <3>1. fifo' = Rewound(p) /\ \A s \in Thread : fifo[p][s] = 0
      BY <2>1 DEF Point, LoopInv, RecvInv, PoppingOK, Popping
    <3>2. fifo \in [Thread -> [Thread -> 0 .. BufCnt]] /\ fifo[p] \in [Thread -> 0 .. BufCnt]
      BY DEF LoopInv, RecvInv, RecvTypes
    <3>3. fifo[p] = [s \in Thread |-> 0]
      BY <3>1, <3>2
    <3> QED
      BY <3>1, <3>2, <3>3 DEF Rewound
  <2> QED
    BY <2>1 DEF Proceed, Decide, StartExchange, rcving
<1>3. \A q \in Thread \ {p} : stage'[q] = stage[q]
  BY Alone DEF LoopInv, Exchange
<1>4. \A q \in Thread \ {p} : todo'[q] = todo[q]
  BY DEF Proceed, Decide, StartExchange, Point, LoopInv, SendInv
<1>5. \A d \in Thread : ~DidPut(p, d) /\ stage[p] # "clear"
  BY <1>1 DEF DidPut
<1>6. \A d \in Thread : ~DidPut(p, d)' /\ stage'[p] # "clear"
  <2>1. CASE StartExchange(p)
    <3>1. stage'[p] = "exchanging" /\ todo'[p] = Thread
      BY <2>1 DEF StartExchange, Goto, LoopInv, ControlInv, SendInv
    <3> QED
      BY <3>1 DEF DidPut
  <2>2. CASE Proceed(p) \/ Decide(p) \/ Point(p)
    <3>1. stage'[p] \in {"proceed", "left", "push", "pop"}
      BY <2>2 DEF Proceed, Meet, Decide, Point, Goto, LoopInv, ControlInv
    <3> QED
      BY <3>1 DEF DidPut
  <2> QED
    BY <2>1, <2>2
<1>7. \A q, d \in Thread : (DidPut(q, d) \/ stage[q] = "clear")' =
                       (DidPut(q, d) \/ stage[q] = "clear")
  <2> SUFFICES ASSUME NEW q \in Thread, NEW d \in Thread
               PROVE  (DidPut(q, d) \/ stage[q] = "clear")' =
                      (DidPut(q, d) \/ stage[q] = "clear")
    OBVIOUS
  <2>1. CASE q = p
    BY <1>5, <1>6, <2>1
  <2>2. CASE q # p
    BY <1>3, <1>4, <2>2 DEF DidPut
  <2> QED
    BY <2>1, <2>2
<1> QED
  BY <1>1, <1>2, <1>7, StillPairs

LEMMA PutOnePairs ==
  ASSUME LoopInv, PairsOK, NEW p \in Thread, PutOne(p)
  PROVE  PairsOK'
<1>1. PICK d \in todo[p] :
        /\ puts' = IF Nonempty(p, d)
                   THEN puts \cup {[from |-> p, to |-> d, pkgs |-> snd[p][d]]}
                   ELSE puts
        /\ todo' = [todo EXCEPT ![p] = @ \ {d}]
        /\ stage' = [stage EXCEPT ![p] = IF todo[p] = {d} THEN "exchange" ELSE "exchanging"]
  BY DEF PutOne, Goto
<1>2. /\ UNCHANGED <<snd, items_pushed, items_popped, count, fifo, rcv, ex_round>>
      /\ stage[p] = "exchanging" /\ d \in Thread
  BY DEF PutOne, rcving, client, LoopInv, SendInv
<1>3. /\ \A q \in Thread \ {p} : stage'[q] = stage[q] /\ todo'[q] = todo[q]
      /\ stage'[p] = IF todo[p] = {d} THEN "exchange" ELSE "exchanging"
      /\ todo'[p] = todo[p] \ {d} /\ todo[p] \subseteq Thread
  BY <1>1 DEF LoopInv, ControlInv, SendInv
<1> SUFFICES ASSUME NEW q \in Thread, NEW e \in Thread PROVE Pair(q, e)'
  BY DEF PairsOK
<1>4. Unsent(q, e)' = Unsent(q, e)
  <2>1. CASE q = p /\ e = d
    <3>1. Unsent(p, d) = Len(snd[p][d])
      BY <1>2 DEF Unsent, Sent, DidPut
    <3>2. CASE Nonempty(p, d)
      <4>1. [from |-> p, to |-> d, pkgs |-> snd[p][d]] \in puts'
        BY <1>1, <3>2
      <4>2. InFlight(p, d)'
        BY <4>1 DEF InFlight
      <4> QED
        BY <1>2, <2>1, <3>1, <4>2 DEF Unsent, Sent
    <3>3. CASE ~Nonempty(p, d)
      <4>1. Len(snd[p][d]) = 0
        BY <3>3 DEF Nonempty
      <4> QED
        BY <1>2, <2>1, <3>1, <4>1 DEF Unsent
    <3> QED
      BY <3>2, <3>3
  <2>2. CASE q # p \/ e # d
    <3>1. InFlight(q, e)' <=> InFlight(q, e)
      BY <1>1, <2>2 DEF InFlight
    <3>2. DidPut(q, e)' <=> DidPut(q, e)
      BY <1>2, <1>3, <2>2 DEF DidPut
    <3>3. stage'[q] = "clear" <=> stage[q] = "clear"
      BY <1>2, <1>3
    <3>4. Sent(q, e)' <=> Sent(q, e)
      BY <3>1, <3>2, <3>3 DEF Sent
    <3> QED
      BY <1>2, <3>4 DEF Unsent
  <2> QED
    BY <2>1, <2>2
<1> QED
  BY <1>2, <1>4, PairFrame DEF PairsOK

LEMMA ClearPairs ==
  ASSUME LoopInv, PairsOK, NEW p \in Thread, Clear(p)
  PROVE  PairsOK'
<1>1. /\ UNCHANGED <<items_pushed, items_popped, count, fifo, rcv, ex_round, puts, todo>>
      /\ stage[p] = "clear" /\ stage'[p] = "cleared"
      /\ \A q \in Thread \ {p} : stage'[q] = stage[q]
      /\ \A q, d \in Thread : snd'[q][d] = IF q = p THEN <<>> ELSE snd[q][d]
  BY EmptySend DEF Clear, client, Goto, LoopInv, ControlInv
<1> SUFFICES ASSUME NEW q \in Thread, NEW d \in Thread PROVE Pair(q, d)'
  BY DEF PairsOK
<1>2. Pair(q, d)
  BY DEF PairsOK
<1>3. CASE q = p
  <2>1. ~InFlight(p, d)
    BY <1>1, PutsAre DEF InFlight, LoopInv, RecvInv
  <2>2. Unsent(p, d) = 0
    BY <1>1, <2>1 DEF Unsent, Sent
  <2>3. snd'[p][d] = <<>> /\ Len(<<>>) = 0
    BY <1>1
  <2>4. Unsent(p, d)' = 0
    BY <1>1, <2>3 DEF Unsent
  <2>5. Account(p, d)'
    BY <1>1, <1>2, <1>3, <2>2, <2>4 DEF Pair, Account
  <2>6. HeldValues(p, d)'
    BY <2>3 DEF HeldValues
  <2>7. BufferValues(p, d)' /\ GotValues(p, d)'
    BY <1>1, <1>2, <1>3 DEF Pair, BufferValues, GotValues
  <2> QED
    BY <1>3, <2>5, <2>6, <2>7 DEF Pair
<1>4. CASE q # p
  <2>1. Unsent(q, d)' = Unsent(q, d)
    BY <1>1, <1>4 DEF Unsent, Sent, InFlight, DidPut
  <2> QED
    BY <1>1, <1>2, <1>4, <2>1, PairFrame
<1> QED
  BY <1>3, <1>4

LEMMA PushPairs ==
  ASSUME LoopInv, PairsOK, NEW p \in Thread, NEW d \in Thread, PushEx(p, d)
  PROVE  PairsOK'
<1>1. /\ UNCHANGED <<rcv, count, fifo, items_popped, puts, stage, todo, ex_round>>
      /\ stage[p] \in {"push", "pop"}
  BY DEF PushEx, MayPush, rcving
<1>2. /\ \A q, e \in Thread : (q # p \/ e # d) =>
           snd'[q][e] = snd[q][e] /\ items_pushed'[q][e] = items_pushed[q][e]
      /\ snd'[p][d] = Append(snd[p][d], items_pushed[p][d] + 1)
      /\ items_pushed'[p][d] = items_pushed[p][d] + 1
  BY PushSend DEF LoopInv
<1>3. Pair(p, d)'
  <2> DEFINE n == Len(snd[p][d])
             x == items_pushed[p][d]
             g == Len(items_popped[d][p])
             c == count[d][p]
  <2>1. snd[p][d] \in Seq(Nat) /\ n \in Nat /\ x \in Nat /\ g \in Nat /\ c \in Nat
    BY PairTypes
  <2>2. Pair(p, d)
    BY DEF PairsOK
  <2>3. Len(snd'[p][d]) = n + 1
    BY <1>2, <2>1
  <2>4. Unsent(p, d) = n /\ Unsent(p, d)' = n + 1
    BY <1>1, <2>3, UnsentIs
  <2>5. Account(p, d)'
    <3> SUFFICES ASSUME ex_round[p] = ex_round[d] PROVE g + c + (n + 1) = x + 1
      BY <1>1, <1>2, <2>4 DEF Account
    <3>1. g + c + n = x
      BY <2>2, <2>4 DEF Pair, Account
    <3> HIDE DEF g, c, n, x
    <3> QED
      BY <2>1, <3>1
  <2>6. HeldValues(p, d)'
    <3> SUFFICES ASSUME NEW i \in 1 .. Len(snd'[p][d])
                 PROVE  snd'[p][d][i] = items_pushed'[p][d] - Len(snd'[p][d]) + i
      BY DEF HeldValues
    <3>1. i \in 1 .. n + 1 /\ items_pushed'[p][d] = x + 1
      BY <1>2, <2>3
    <3>2. snd'[p][d][n + 1] = x + 1
      BY <1>2, <2>1
    <3>3. \A k \in 1 .. n : snd'[p][d][k] = snd[p][d][k]
      BY <1>2, <2>1
    <3>4. \A k \in 1 .. n : snd[p][d][k] = x - n + k
      BY <2>2 DEF Pair, HeldValues
    <3> HIDE DEF n, x
    <3>7. i \in Nat /\ n \in Nat /\ x \in Nat
      BY <2>1, <3>1
    <3>5. (i = n + 1 \/ i \in 1 .. n) /\ (x + 1) - (n + 1) + i = x - n + i
      <4>1. i = n + 1 \/ i \in 1 .. n
        BY <3>1, <3>7
      <4>2. (x + 1) - (n + 1) + i = x - n + i
        BY <3>7
      <4> QED
        BY <4>1, <4>2
    <3>6. snd'[p][d][i] = x - n + i
      <4>1. CASE i = n + 1
        BY <2>1, <3>2, <4>1
      <4>2. CASE i \in 1 .. n
        BY <3>3, <3>4, <4>2
      <4> QED
        BY <3>5, <4>1, <4>2
    <3> QED
      BY <2>3, <3>1, <3>5, <3>6
  <2>7. BufferValues(p, d)' /\ GotValues(p, d)'
    BY <1>1, <2>2 DEF Pair, BufferValues, GotValues
  <2> QED
    BY <2>5, <2>6, <2>7 DEF Pair
<1>4. ASSUME NEW q \in Thread, NEW e \in Thread, q # p \/ e # d PROVE Pair(q, e)'
  <2>1. Pair(q, e) /\ snd'[q][e] = snd[q][e] /\ items_pushed'[q][e] = items_pushed[q][e]
    BY <1>2, <1>4 DEF PairsOK
  <2>2. Unsent(q, e)' = Unsent(q, e)
    BY <1>1, <2>1 DEF Unsent, Sent, InFlight, DidPut
  <2> QED
    BY <1>1, <2>1, <2>2, PairFrame
<1> QED
  BY <1>3, <1>4 DEF PairsOK

LEMMA TakePairs ==
  ASSUME LoopInv, PairsOK, NEW p \in Thread, NEW s \in Thread, count[p][s] # 0, Take(p, s),
         UNCHANGED <<snd, items_pushed, rcv, ex_round, puts, stage, todo>>
  PROVE  PairsOK'
<1>1. /\ \A q, t \in Thread : (q # p \/ t # s) =>
           /\ items_popped'[q][t] = items_popped[q][t] /\ count'[q][t] = count[q][t]
           /\ fifo'[q][t] = fifo[q][t]
      /\ fifo[p][s] + 1 \in Slot
      /\ items_popped'[p][s] = Append(items_popped[p][s], rcv[p][s][fifo[p][s] + 1])
      /\ count'[p][s] = count[p][s] - 1 /\ fifo'[p][s] = fifo[p][s] + 1
  BY TakeIs DEF LoopInv, RecvInv
<1>2. \A q, e \in Thread : Unsent(q, e)' = Unsent(q, e)
  BY DEF Unsent, Sent, InFlight, DidPut
<1>3. Pair(s, p)'
  <2> DEFINE g == Len(items_popped[p][s])
             c == count[p][s]
             f == fifo[p][s]
             u == Unsent(s, p)
             y == items_pushed[s][p]
  <2>1. items_popped[p][s] \in Seq(Nat) /\ g \in Nat /\ c \in Nat /\ f \in Nat /\ u \in Nat /\ y \in Nat
    BY PairTypes
  <2>2. Pair(s, p)
    BY DEF PairsOK
  <2>3. \A j \in 1 .. f + c : rcv[p][s][j] = g - f + j
    BY <2>2 DEF Pair, BufferValues
  <2>4. rcv[p][s][f + 1] = g + 1
    <3>1. c # 0
      OBVIOUS
    <3> HIDE DEF g, c, f
    <3>2. f + 1 \in 1 .. f + c
      BY <2>1, <3>1
    <3>3. g - f + (f + 1) = g + 1
      BY <2>1
    <3> QED
      BY <2>3, <3>2, <3>3
  <2>5. items_popped'[p][s] = Append(items_popped[p][s], g + 1) /\ Len(items_popped'[p][s]) = g + 1
    BY <1>1, <2>1, <2>4
  <2>6. Account(s, p)'
    <3> SUFFICES ASSUME ex_round[s] = ex_round[p] PROVE g + 1 + (c - 1) + u = y
      BY <1>1, <1>2, <2>5 DEF Account
    <3>1. g + c + u = y
      BY <2>2 DEF Pair, Account
    <3> HIDE DEF g, c, u, y
    <3> QED
      BY <2>1, <3>1
  <2>7. HeldValues(s, p)'
    BY <2>2 DEF Pair, HeldValues
  <2>8. BufferValues(s, p)'
    <3> SUFFICES ASSUME NEW j \in 1 .. fifo'[p][s] + count'[p][s]
                 PROVE  rcv[p][s][j] = Len(items_popped'[p][s]) - fifo'[p][s] + j
      BY DEF BufferValues
    <3>1. fifo'[p][s] = f + 1 /\ count'[p][s] = c - 1
      BY <1>1
    <3> HIDE DEF g, c, f
    <3>2. j \in 1 .. (f + 1) + (c - 1)
      BY <3>1
    <3>3. j \in Nat /\ g \in Nat /\ f \in Nat /\ c \in Nat
      BY <2>1, <3>2
    <3>4. j \in 1 .. f + c
      BY <3>2, <3>3
    <3>5. (g + 1) - (f + 1) + j = g - f + j
      BY <3>3
    <3> QED
      BY <2>3, <2>5, <3>1, <3>4, <3>5
  <2>9. GotValues(s, p)'
    <3> SUFFICES ASSUME NEW i \in 1 .. Len(items_popped'[p][s]) PROVE items_popped'[p][s][i] = i
      BY DEF GotValues
    <3>1. i \in 1 .. g + 1
      BY <2>5
    <3>2. items_popped'[p][s][g + 1] = g + 1 /\ \A k \in 1 .. g : items_popped'[p][s][k] = items_popped[p][s][k]
      BY <2>1, <2>5
    <3>3. \A k \in 1 .. g : items_popped[p][s][k] = k
      BY <2>2 DEF Pair, GotValues
    <3> HIDE DEF g
    <3>4. i = g + 1 \/ i \in 1 .. g
      BY <2>1, <3>1
    <3> QED
      BY <3>2, <3>3, <3>4
  <2> QED
    BY <2>6, <2>7, <2>8, <2>9 DEF Pair
<1>4. ASSUME NEW q \in Thread, NEW e \in Thread, q # s \/ e # p PROVE Pair(q, e)'
  BY <1>1, <1>2, <1>4, PairFrame DEF PairsOK
<1> QED
  BY <1>3, <1>4 DEF PairsOK

LEMMA PoppedPairs ==
  ASSUME LoopInv, PairsOK, NEW p \in Thread, Pop(p) \/ \E s \in Thread : PopThread(p, s)
  PROVE  PairsOK'
<1>1. UNCHANGED <<snd, items_pushed, rcv, ex_round, puts, stage, todo>>
  BY DEF Pop, PopThread
<1>2. PICK s \in Thread : count[p][s] # 0 /\ Take(p, s)
  BY DEF Pop, PopThread, Found
<1> QED
  BY <1>1, <1>2, TakePairs

LEMMA UnpopPairs ==
  ASSUME LoopInv, PairsOK, NEW p \in Thread, Unpop(p)
  PROVE  PairsOK'
<1>0. PICK s \in Thread :
        /\ s = popped[p] /\ fifo[p][s] > 0 /\ GiveBack(p, s)
        /\ UNCHANGED <<snd, items_pushed, rcv, ex_round, puts, stage, todo>>
  BY UnpopRecv DEF Unpop, LoopInv
<1>1. /\ \A q, t \in Thread : (q # p \/ t # s) =>
           /\ items_popped'[q][t] = items_popped[q][t] /\ count'[q][t] = count[q][t]
           /\ fifo'[q][t] = fifo[q][t]
      /\ Len(items_popped[p][s]) > 0
      /\ items_popped'[p][s] = SubSeq(items_popped[p][s], 1, Len(items_popped[p][s]) - 1)
      /\ Len(items_popped'[p][s]) = Len(items_popped[p][s]) - 1
      /\ count'[p][s] = count[p][s] + 1 /\ fifo'[p][s] = fifo[p][s] - 1
  <2>1. RecvTypes /\ SpaceOK
    BY DEF LoopInv, RecvInv
  <2> QED
    BY <1>0, <2>1, GiveBackIs
<1>2. \A q, e \in Thread : Unsent(q, e)' = Unsent(q, e)
  BY <1>0 DEF Unsent, Sent, InFlight, DidPut
<1>3. Pair(s, p)'
  <2> DEFINE g == Len(items_popped[p][s])
             c == count[p][s]
             f == fifo[p][s]
             u == Unsent(s, p)
             y == items_pushed[s][p]
  <2>1. /\ items_popped[p][s] \in Seq(Nat) /\ g \in Nat /\ c \in Nat /\ f \in Nat /\ u \in Nat /\ y \in Nat
        /\ Len(items_popped'[p][s]) = g - 1 /\ count'[p][s] = c + 1 /\ fifo'[p][s] = f - 1
    BY <1>1, PairTypes
  <2>2. Pair(s, p)
    BY DEF PairsOK
  <2>3. Account(s, p)'
    <3> SUFFICES ASSUME ex_round[s] = ex_round[p] PROVE g - 1 + (c + 1) + u = y
      BY <1>0, <1>1, <1>2 DEF Account
    <3>1. g + c + u = y
      BY <2>2 DEF Pair, Account
    <3> HIDE DEF g, c, u, y
    <3> QED
      BY <2>1, <3>1
  <2>4. HeldValues(s, p)'
    BY <1>0, <2>2 DEF Pair, HeldValues
  <2>5. BufferValues(s, p)'
    <3> SUFFICES ASSUME NEW j \in 1 .. fifo'[p][s] + count'[p][s]
                 PROVE  rcv[p][s][j] = Len(items_popped'[p][s]) - fifo'[p][s] + j
      BY <1>0 DEF BufferValues
    <3>1. \A k \in 1 .. f + c : rcv[p][s][k] = g - f + k
      BY <2>2 DEF Pair, BufferValues
    <3> HIDE DEF g, c, f
    <3>2. j \in 1 .. (f - 1) + (c + 1)
      BY <2>1
    <3>3. j \in Nat /\ g \in Nat /\ f \in Nat /\ c \in Nat
      BY <2>1, <3>2
    <3>4. j \in 1 .. f + c
      BY <3>2, <3>3
    <3>5. (g - 1) - (f - 1) + j = g - f + j
      BY <3>3
    <3> QED
      BY <2>1, <3>1, <3>4, <3>5
  <2>6. GotValues(s, p)'
    <3> SUFFICES ASSUME NEW i \in 1 .. Len(items_popped'[p][s]) PROVE items_popped'[p][s][i] = i
      BY DEF GotValues
    <3>1. \A k \in 1 .. g - 1 : items_popped'[p][s][k] = items_popped[p][s][k]
      BY <1>1, <2>1, Shorter
    <3>2. \A k \in 1 .. g : items_popped[p][s][k] = k
      BY <2>2 DEF Pair, GotValues
    <3> HIDE DEF g
    <3>3. i \in 1 .. g - 1 /\ i \in 1 .. g
      BY <2>1
    <3> QED
      BY <3>1, <3>2, <3>3
  <2> QED
    BY <2>3, <2>4, <2>5, <2>6 DEF Pair
<1>4. ASSUME NEW q \in Thread, NEW e \in Thread, q # s \/ e # p PROVE Pair(q, e)'
  BY <1>0, <1>1, <1>2, <1>4, PairFrame DEF PairsOK
<1> QED
  BY <1>3, <1>4 DEF PairsOK

LEMMA PopNonePairs ==
  ASSUME LoopInv, PairsOK, NEW p \in Thread, PopNone(p)
  PROVE  PairsOK'
<1>1. /\ stage[p] = "pop" /\ Found(p) = {} /\ fifo' = Rewound(p)
      /\ UNCHANGED <<snd, items_pushed, items_popped, count, rcv, ex_round, puts, todo>>
      /\ stage'[p] \in {"between", "loop"}
  BY DEF PopNone, Between, Goto, LoopInv, ControlInv
<1>2. \A q \in Thread \ {p} : stage'[q] = stage[q]
  BY Alone DEF LoopInv
<1>3. /\ \A s \in Thread : fifo'[p][s] = 0 /\ count[p][s] = 0
      /\ \A q \in Thread \ {p} : fifo'[q] = fifo[q]
  BY <1>1, RewoundIs, NothingLeft DEF LoopInv, RecvInv
<1>4. \A q, e \in Thread : Unsent(q, e)' = Unsent(q, e)
  <2> SUFFICES ASSUME NEW q \in Thread, NEW e \in Thread PROVE Unsent(q, e)' = Unsent(q, e)
    OBVIOUS
  <2>1. CASE q = p
    BY <1>1, <2>1, UnsentIs
  <2>2. CASE q # p
    BY <1>1, <1>2, <2>2 DEF Unsent, Sent, InFlight, DidPut
  <2> QED
    BY <2>1, <2>2
<1> SUFFICES ASSUME NEW q \in Thread, NEW e \in Thread PROVE Pair(q, e)'
  BY DEF PairsOK
<1>5. Pair(q, e)
  BY DEF PairsOK
<1>6. CASE e = p
  <2>1. Account(q, e)' /\ HeldValues(q, e)' /\ GotValues(q, e)'
    BY <1>1, <1>4, <1>5 DEF Pair, Account, HeldValues, GotValues
  <2>2. fifo'[e][q] + count'[e][q] = 0
    BY <1>1, <1>3, <1>6
  <2>3. BufferValues(q, e)'
    BY <2>2 DEF BufferValues
  <2> QED
    BY <2>1, <2>3 DEF Pair
<1>7. CASE e # p
  BY <1>1, <1>3, <1>4, <1>5, <1>7, PairFrame
<1> QED
  BY <1>6, <1>7

\* The counts of a round start again at both ends of a link.
LEMMA ResetPairs ==
  ASSUME LoopInv, PairsOK, NEW p \in Thread, ResetEx(p)
  PROVE  PairsOK'
<1>1. /\ stage[p] = "left" /\ stage'[p] = "reset" /\ UNCHANGED <<rcv, todo, puts>>
      /\ \A q \in Thread \ {p} : stage'[q] = stage[q]
      /\ \A q, d \in Thread : snd'[q][d] = IF q = p THEN <<>> ELSE snd[q][d]
  BY EmptySend DEF ResetEx, Goto, LoopInv, ControlInv
<1>2. /\ fifo' = Rewound(p)
      /\ count' = [count EXCEPT ![p] = [s \in Thread |-> 0]]
      /\ items_pushed' = [items_pushed EXCEPT ![p] = [d \in Thread |-> 0]]
      /\ items_popped' = [items_popped EXCEPT ![p] = [s \in Thread |-> <<>>]]
      /\ ex_round' = [ex_round EXCEPT ![p] = @ + 1]
  BY DEF ResetEx
<1>3. /\ \A q, s \in Thread : count'[q][s] = IF q = p THEN 0 ELSE count[q][s]
      /\ \A q, s \in Thread : items_popped'[q][s] = IF q = p THEN <<>> ELSE items_popped[q][s]
      /\ \A q, d \in Thread : items_pushed'[q][d] = IF q = p THEN 0 ELSE items_pushed[q][d]
      /\ \A q, s \in Thread : fifo'[q][s] = IF q = p THEN 0 ELSE fifo[q][s]
  <2>1. \A q, s \in Thread : fifo'[q][s] = IF q = p THEN 0 ELSE fifo[q][s]
    BY <1>2, RewoundIs DEF LoopInv, RecvInv
  <2>2. \A q, s \in Thread : count'[q][s] = IF q = p THEN 0 ELSE count[q][s]
    BY <1>2 DEF LoopInv, RecvInv, RecvTypes
  <2>3. \A q, s \in Thread : items_popped'[q][s] = IF q = p THEN <<>> ELSE items_popped[q][s]
    BY <1>2 DEF LoopInv, RecvInv, RecvTypes
  <2>4. \A q, d \in Thread : items_pushed'[q][d] = IF q = p THEN 0 ELSE items_pushed[q][d]
    BY <1>2 DEF LoopInv, SendInv
  <2> QED
    BY <2>1, <2>2, <2>3, <2>4
<1>4. ASSUME NEW q \in Thread, q # p, ex_round'[q] = ex_round'[p] PROVE stage[q] = "reset"
  <2>1. /\ ex_round'[q] = ex_round[q] /\ ex_round'[p] = ex_round[p] + 1
        /\ ex_round[q] \in Nat /\ ex_round[p] \in Nat
    BY <1>2, <1>4 DEF LoopInv, RoundInv
  <2>2. ex_round[q] # ex_round[p]
    <3>1. ex_round[q] = ex_round[p] + 1
      BY <1>4, <2>1
    <3>2. \A n \in Nat : n + 1 # n
      OBVIOUS
    <3> QED
      BY <2>1, <3>1, <3>2
  <2> QED
    BY <1>1, <2>2 DEF LoopInv, RoundInv, RoundsOK
<1>5. \A q, e \in Thread : q # p => Unsent(q, e)' = Unsent(q, e)
  BY <1>1 DEF Unsent, Sent, InFlight, DidPut
<1>6. \A d \in Thread : Unsent(p, d)' = 0
  <2> SUFFICES ASSUME NEW d \in Thread PROVE Unsent(p, d)' = 0
    OBVIOUS
  <2>1. snd'[p][d] = <<>> /\ Len(<<>>) = 0
    BY <1>1
  <2> QED
    BY <2>1 DEF Unsent
<1> SUFFICES ASSUME NEW q \in Thread, NEW e \in Thread PROVE Pair(q, e)'
  BY DEF PairsOK
<1>7. Pair(q, e) /\ Len(<<>>) = 0
  BY DEF PairsOK
<1>8. Account(q, e)'
  <2> SUFFICES ASSUME ex_round'[q] = ex_round'[e]
               PROVE  Len(items_popped'[e][q]) + count'[e][q] + Unsent(q, e)' = items_pushed'[q][e]
    BY DEF Account
  <2>1. CASE q # p /\ e # p
    <3>1. ex_round[q] = ex_round[e]
      BY <1>2, <2>1 DEF LoopInv, RoundInv
    <3> QED
      BY <1>3, <1>5, <1>7, <2>1, <3>1 DEF Pair, Account
  <2>2. CASE q = p \/ e = p
    <3>1. Len(items_popped'[e][q]) = 0
      <4>1. CASE e = p
        BY <1>3, <1>7, <4>1
      <4>2. CASE e # p
        <5>1. stage[e] = "reset"
          BY <1>4, <2>2, <4>2
        <5> QED
          BY <1>3, <1>7, <4>2, <5>1 DEF LoopInv, RoundInv, FreshOK
      <4> QED
        BY <4>1, <4>2
    <3>2. count'[e][q] = 0
      <4>1. CASE e = p
        BY <1>3, <4>1
      <4>2. CASE e # p
        <5>1. stage[e] = "reset" /\ q = p
          BY <1>4, <2>2, <4>2
        <5>2. count[e][q] = 0
          BY <1>1, <5>1 DEF LoopInv, RecvInv, PutsOK, DidPut
        <5> QED
          BY <1>3, <4>2, <5>2
      <4> QED
        BY <4>1, <4>2
    <3>3. Unsent(q, e)' = 0 /\ items_pushed'[q][e] = 0
      <4>1. CASE q = p
        BY <1>3, <1>6, <4>1
      <4>2. CASE q # p
        <5>1. stage[q] = "reset"
          BY <1>4, <2>2, <4>2
        <5>2. items_pushed[q][e] = 0
          BY <5>1 DEF LoopInv, RoundInv, FreshOK
        <5>3. Unsent(q, e) = Len(snd[q][e]) /\ snd[q][e] = <<>>
          BY <5>1, UnsentIs DEF LoopInv, HeldOK
        <5> QED
          BY <1>3, <1>5, <1>7, <4>2, <5>2, <5>3
      <4> QED
        BY <4>1, <4>2
    <3> QED
      BY <3>1, <3>2, <3>3
  <2> QED
    BY <2>1, <2>2
<1>9. HeldValues(q, e)'
  <2>1. CASE q = p
    BY <1>1, <1>7, <2>1 DEF HeldValues
  <2>2. CASE q # p
    BY <1>1, <1>3, <1>7, <2>2 DEF Pair, HeldValues
  <2> QED
    BY <2>1, <2>2
<1>10. BufferValues(q, e)' /\ GotValues(q, e)'
  <2>1. CASE e = p
    <3>1. fifo'[e][q] + count'[e][q] = 0 /\ Len(items_popped'[e][q]) = 0
      BY <1>3, <1>7, <2>1
    <3> QED
      BY <3>1 DEF BufferValues, GotValues
  <2>2. CASE e # p
    BY <1>1, <1>3, <1>7, <2>2 DEF Pair, BufferValues, GotValues
  <2> QED
    BY <2>1, <2>2
<1> QED
  BY <1>8, <1>9, <1>10 DEF Pair

\* A put that lands is of the round that its receiver is in.
LEMMA LandPairs ==
  ASSUME LoopInv, PairsOK, LandPut
  PROVE  PairsOK'
<1>1. PICK m \in puts : Lands(m)
  BY LandIs DEF LoopInv
<1>2. UNCHANGED <<snd, fifo, items_pushed, items_popped, stage, todo, ex_round>>
  BY DEF LandPut, client
<1>3. PICK p \in Thread, d \in Thread : p = m.from /\ d = m.to
  BY <1>1 DEF Lands
<1> DEFINE n == Len(snd[p][d])
           g == Len(items_popped[d][p])
           x == items_pushed[p][d]
<1>4. /\ puts' = puts \ {m}
      /\ \A q, s \in Thread : (q # d \/ s # p) =>
           count'[q][s] = count[q][s] /\ rcv'[q][s] = rcv[q][s]
      /\ count[d][p] = 0 /\ fifo[d][p] = 0
      /\ count'[d][p] = n
      /\ \A i \in 1 .. n : rcv'[d][p][i] = snd[p][d][i]
      /\ DidPut(p, d)
      /\ \A w \in puts' : w.to # d \/ w.from # p
  BY <1>1, <1>3 DEF Lands
<1>5. ex_round[p] = ex_round[d]
  <2>1. stage[p] \in {"exchanging", "exchange"}
    BY <1>4 DEF DidPut
  <2>2. ~Leaving
    BY <2>1 DEF LoopInv, EndgameInv, LeavingOK
  <2>3. stage[d] # "reset"
    BY <2>2 DEF Leaving, Gone
  <2> QED
    BY <2>1, <2>3 DEF LoopInv, RoundInv, RoundsOK
<1>6. /\ n \in Nat /\ g \in Nat /\ x \in Nat
  BY PairTypes
<1>7. Pair(p, d)
  BY DEF PairsOK
<1>8. Unsent(p, d) = n /\ Unsent(p, d)' = 0
  <2>1. InFlight(p, d) /\ ~InFlight(p, d)'
    BY <1>3, <1>4 DEF InFlight
  <2>2. DidPut(p, d)'
    BY <1>2, <1>4 DEF DidPut
  <2> QED
    BY <2>1, <2>2 DEF Unsent, Sent
<1>9. g + n = x
  <2>1. g + 0 + n = x
    BY <1>4, <1>5, <1>7, <1>8 DEF Pair, Account
  <2> HIDE DEF g, n, x
  <2> QED
    BY <1>6, <2>1
<1>10. Pair(p, d)'
  <2>1. Account(p, d)'
    <3> SUFFICES g + n + 0 = x
      BY <1>2, <1>4, <1>8 DEF Account
    <3> HIDE DEF g, n, x
    <3> QED
      BY <1>6, <1>9
  <2>2. HeldValues(p, d)' /\ GotValues(p, d)'
    BY <1>2, <1>7 DEF Pair, HeldValues, GotValues
  <2>3. BufferValues(p, d)'
    <3> SUFFICES ASSUME NEW j \in 1 .. 0 + n PROVE rcv'[d][p][j] = g - 0 + j
      BY <1>2, <1>4 DEF BufferValues
    <3>1. \A i \in 1 .. n : snd[p][d][i] = x - n + i
      BY <1>7 DEF Pair, HeldValues
    <3> HIDE DEF g, n, x
    <3>2. j \in 1 .. n /\ j \in Nat
      BY <1>6
    <3>3. x - n + j = g - 0 + j
      BY <1>6, <1>9, <3>2
    <3> QED
      BY <1>4, <3>1, <3>2, <3>3
  <2> QED
    BY <2>1, <2>2, <2>3 DEF Pair
<1>11. ASSUME NEW q \in Thread, NEW e \in Thread, q # p \/ e # d PROVE Pair(q, e)'
  <2>1. InFlight(q, e)' <=> InFlight(q, e)
    BY <1>3, <1>4, <1>11 DEF InFlight
  <2>2. Unsent(q, e)' = Unsent(q, e)
    BY <1>2, <2>1 DEF Unsent, Sent, DidPut
  <2> QED
    BY <1>2, <1>4, <1>11, <2>2, PairFrame DEF PairsOK
<1> QED
  BY <1>10, <1>11 DEF PairsOK

LEMMA BarrierPairs ==
  ASSUME LoopInv, PairsOK, NEW b \in DOMAIN Passed, Barrier(b)
  PROVE  PairsOK'
<1>1. /\ b \in {"proceed", "exchange", "cleared", "between", "reset"}
      /\ \A p \in Thread : stage[p] = b /\ stage'[p] = Passed[b]
  BY AtBarrier DEF LoopInv
<1>2. UNCHANGED <<snd, items_pushed, items_popped, count, fifo, rcv, ex_round, puts>>
  BY DEF Barrier, rcving, client
<1>3. \A p, d \in Thread : (DidPut(p, d) \/ stage[p] = "clear")' =
                       (DidPut(p, d) \/ stage[p] = "clear")
  <2> SUFFICES ASSUME NEW p \in Thread, NEW d \in Thread
               PROVE  (DidPut(p, d) \/ stage[p] = "clear")' =
                      (DidPut(p, d) \/ stage[p] = "clear")
    OBVIOUS
  <2>1. CASE b = "exchange"
    <3>1. stage[p] = "exchange" /\ stage'[p] = "clear"
      BY <1>1, <2>1, StagesAre
    <3> QED
      BY <3>1 DEF DidPut
  <2>2. CASE b # "exchange"
    <3>1. /\ stage[p] \in {"proceed", "cleared", "between", "reset"}
          /\ stage'[p] \in {"decide", "point", "exchange_start", "loop"}
      BY <1>1, <2>2, StagesAre
    <3> QED
      BY <3>1 DEF DidPut
  <2> QED
    BY <2>1, <2>2
<1> QED
  BY <1>2, <1>3, StillPairs

LEMMA PairsNext ==
  ASSUME LoopInv, PairsOK, [NextEx]_exvars
  PROVE  PairsOK'
<1>1. ASSUME NEW p \in Thread, \/ Proceed(p) \/ Decide(p) \/ Exchange(p) \/ ResetEx(p)
                               \/ Pop(p) \/ Unpop(p) \/ PopNone(p)
                               \/ \E q \in Thread : PushEx(p, q) \/ PopThread(p, q)
      PROVE  PairsOK'
  BY <1>1, SimplePairs, PutOnePairs, ClearPairs, ResetPairs, PoppedPairs, UnpopPairs,
     PopNonePairs, PushPairs DEF Exchange
<1>2. ASSUME NEW b \in DOMAIN Passed, Barrier(b) PROVE PairsOK'
  BY <1>2, BarrierPairs
<1>3. CASE LandFlag \/ FinishedEx \/ UNCHANGED exvars
  <2>1. UNCHANGED <<snd, items_pushed, items_popped, count, fifo, rcv, ex_round, puts, stage, todo>>
    BY <1>3 DEF LandFlag, FinishedEx, exvars, client, rcving
  <2> QED
    BY <2>1, StillPairs DEF DidPut
<1> QED
  BY <1>1, <1>2, <1>3, LandPairs DEF NextEx

-----------------------------------------------------------------------------
(* The theorems *)

ExInv == LoopInv /\ PairsOK

LEMMA InitExInv ==
  ASSUME InitEx
  PROVE  ExInv
<1>1. 0 \in Thread /\ None \notin Thread /\ \A p \in Thread : p \in Nat
  BY ExNAssumption DEF Thread, None
<1>2. 0 \in 0 .. BufCnt /\ <<>> \in Seq(Nat) /\ Len(<<>>) = 0
  BY ExBufCntAssumption
<1>3. ControlInv
  <2>1. \A p \in Thread : stage[p] = "loop" /\ second[p] = FALSE
    BY DEF InitEx
  <2>2. stage \in [Thread -> Stages] /\ second \in [Thread -> BOOLEAN]
    BY DEF InitEx, Stages
  <2> QED
    BY <2>1, <2>2 DEF ControlInv, HalfOK, Together, In, Segment
<1>4. EndgameInv
  <2>1. /\ wait_done = [p \in Thread |-> [s \in Thread |-> 0]]
        /\ notify_done = [p \in Thread |-> 0] /\ flags = {}
        /\ \A p \in Thread : stage[p] = "loop"
    BY DEF InitEx
  <2>2. NoticeOK
    BY <2>1 DEF NoticeOK
  <2>3. FlagsOK /\ ~Leaving /\ DecideOK
    BY <2>1 DEF FlagsOK, Leaving, Gone, DecideOK
  <2> QED
    BY <2>1, <2>2, <2>3 DEF EndgameInv
<1>5. SendInv
  <2>1. /\ snd = [p \in Thread |-> [d \in Thread |-> <<>>]] /\ todo = [p \in Thread |-> {}]
        /\ items_pushed = [p \in Thread |-> [d \in Thread |-> 0]] /\ puts = {}
    BY DEF InitEx
  <2>2. \A p, d \in Thread : Len(snd[p][d]) <= BufCnt
    BY <1>2, <2>1, ExBufCntAssumption
  <2> QED
    BY <1>2, <2>1, <2>2 DEF SendInv
<1>6. RecvInv
  <2>1. /\ rcv = [p \in Thread |-> [s \in Thread |-> [i \in Slot |-> 0]]]
        /\ count = [p \in Thread |-> [s \in Thread |-> 0]]
        /\ fifo = [p \in Thread |-> [s \in Thread |-> 0]]
        /\ first_ne_rcv = [p \in Thread |-> 0] /\ popped = [p \in Thread |-> None]
        /\ unpops = [p \in Thread |-> 0] /\ items_popped = [p \in Thread |-> [s \in Thread |-> <<>>]]
        /\ puts = {} /\ \A p \in Thread : stage[p] = "loop"
    BY DEF InitEx
  <2>2. RecvTypes
    BY <1>1, <1>2, <2>1 DEF RecvTypes
  <2>3. \A p, s \in Thread : fifo[p][s] = 0 /\ count[p][s] = 0 /\ Len(items_popped[p][s]) = 0
    BY <1>2, <2>1
  <2>4. SpaceOK
    <3> SUFFICES ASSUME NEW p \in Thread, NEW s \in Thread
                 PROVE  /\ fifo[p][s] + count[p][s] <= BufCnt
                        /\ fifo[p][s] <= Len(items_popped[p][s])
      BY DEF SpaceOK
    <3>1. 0 + 0 <= BufCnt /\ 0 <= 0
      BY ExBufCntAssumption
    <3> QED
      BY <2>3, <3>1
  <2>5. PoppingOK
    BY <2>1, <2>3 DEF PoppingOK, Popping
  <2>6. PutsOK
    BY <2>1, <2>3 DEF PutsOK
  <2> QED
    BY <2>2, <2>4, <2>5, <2>6 DEF RecvInv
<1>7. RoundInv
  <2>1. ex_round = [p \in Thread |-> 1] /\ \A p \in Thread : stage[p] = "loop"
    BY DEF InitEx
  <2> QED
    BY <2>1 DEF RoundInv, RoundsOK, FreshOK
<1>8. HeldOK
  BY DEF InitEx, HeldOK
<1>9. PairsOK
  <2> SUFFICES ASSUME NEW p \in Thread, NEW d \in Thread PROVE Pair(p, d)
    BY DEF PairsOK
  <2>1. /\ snd[p][d] = <<>> /\ items_pushed[p][d] = 0 /\ items_popped[d][p] = <<>>
        /\ count[d][p] = 0 /\ fifo[d][p] = 0
    BY DEF InitEx
  <2>2. Unsent(p, d) = 0
    BY <1>2, <2>1 DEF Unsent
  <2>3. Account(p, d)
    BY <1>2, <2>1, <2>2 DEF Account
  <2>4. HeldValues(p, d) /\ BufferValues(p, d) /\ GotValues(p, d)
    BY <1>2, <2>1 DEF HeldValues, BufferValues, GotValues
  <2> QED
    BY <2>3, <2>4 DEF Pair
<1> QED
  BY <1>3, <1>4, <1>5, <1>6, <1>7, <1>8, <1>9 DEF ExInv, LoopInv

LEMMA NextExInv ==
  ASSUME ExInv, [NextEx]_exvars
  PROVE  ExInv'
<1> USE DEF ExInv, LoopInv
<1>1. ControlInv' /\ EndgameInv'
  BY ControlNext, EndgameNext
<1>2. SendInv' /\ RecvInv'
  BY SendNext, RecvNext
<1>3. RoundInv' /\ HeldOK'
  BY RoundNext, HeldNext
<1>4. PairsOK'
  BY PairsNext
<1> QED
  BY <1>1, <1>2, <1>3, <1>4

LEMMA ExInvAlways == SpecEx => []ExInv
<1>1. InitEx => ExInv
  BY InitExInv
<1>2. ExInv /\ [NextEx]_exvars => ExInv'
  BY NextExInv
<1> QED
  BY <1>1, <1>2, PTL DEF SpecEx

\* exstack_pop and exstack_proceed: every item that is pushed is popped, once
\* and in its order, by the time the loop is left; and every variable has its
\* type, so that no buffer is read or written beyond its end.
THEOREM DeliveredHolds == SpecEx => []Delivered
<1>1. ASSUME ExInv PROVE TypeOKEx
  <2>1. /\ snd \in [Thread -> [Thread -> Seq(Nat)]] /\ items_pushed \in [Thread -> [Thread -> Nat]]
        /\ todo \in [Thread -> SUBSET Thread] /\ puts \subseteq [from : Thread, to : Thread, pkgs : Seq(Nat)]
    BY <1>1 DEF ExInv, LoopInv, SendInv
  <2>2. RecvTypes
    BY <1>1 DEF ExInv, LoopInv, RecvInv
  <2>3. /\ wait_done \in [Thread -> [Thread -> {0, 1}]] /\ notify_done \in [Thread -> {0, 1}]
        /\ flags \subseteq [from : Thread, to : Thread]
    BY <1>1 DEF ExInv, LoopInv, EndgameInv
  <2>4. stage \in [Thread -> Stages] /\ second \in [Thread -> BOOLEAN] /\ ex_round \in [Thread -> Nat]
    BY <1>1 DEF ExInv, LoopInv, ControlInv, RoundInv
  <2> QED
    BY <2>1, <2>2, <2>3, <2>4, StagesAre DEF TypeOKEx, RecvTypes
<1>2. ASSUME ExInv PROVE Fifo
  <2> SUFFICES ASSUME NEW d \in Thread, NEW s \in Thread, NEW i \in DOMAIN items_popped[d][s]
               PROVE  items_popped[d][s][i] = i
    BY DEF Fifo
  <2>1. items_popped[d][s] \in Seq(Nat)
    BY <1>2, PairTypes DEF ExInv
  <2>2. i \in 1 .. Len(items_popped[d][s])
    BY <2>1
  <2> QED
    BY <1>2, <2>2 DEF ExInv, PairsOK, Pair, GotValues
<1>3. ASSUME ExInv PROVE AllPopped
  <2> SUFFICES ASSUME NEW p \in Thread, NEW q \in Thread, stage[p] = "left", stage[q] = "left"
               PROVE  Len(items_popped[q][p]) = items_pushed[p][q]
    BY DEF AllPopped
  <2>1. ex_round[p] = ex_round[q]
    BY <1>3 DEF ExInv, LoopInv, RoundInv, RoundsOK
  <2>2. count[q][p] = 0
    BY <1>3 DEF ExInv, LoopInv, RecvInv, PutsOK, DidPut
  <2>3. Unsent(p, q) = 0
    <3>1. snd[p][q] = <<>> /\ Len(<<>>) = 0
      BY <1>3 DEF ExInv, LoopInv, HeldOK
    <3> QED
      BY <3>1 DEF Unsent
  <2>4. Len(items_popped[q][p]) + 0 + 0 = items_pushed[p][q]
    BY <1>3, <2>1, <2>2, <2>3 DEF ExInv, PairsOK, Pair, Account
  <2>5. Len(items_popped[q][p]) \in Nat
    BY <1>3, PairTypes DEF ExInv
  <2> QED
    BY <2>4, <2>5
<1>4. ExInv => Delivered
  BY <1>1, <1>2, <1>3 DEF Delivered
<1> QED
  BY <1>4, ExInvAlways, PTL

\* exstack_exchange: the barriers keep a buffer from landing on one that its
\* receiver has not popped empty, whatever the other receivers do.
THEOREM LandsOnEmptyHolds == SpecEx => []LandsOnEmpty
<1>1. ExInv => LandsOnEmpty
  BY DEF ExInv, LoopInv, RecvInv, PutsOK, LandsOnEmpty
<1> QED
  BY <1>1, ExInvAlways, PTL

\* exstack_proceed: the PEs leave the loop together, so that none waits in a
\* barrier for one that has left.
THEOREM LeaveTogetherHolds == SpecEx => []LeaveTogether
<1>1. ASSUME ExInv PROVE LeaveTogether
  <2> SUFFICES ASSUME NEW p \in Thread, NEW q \in Thread, stage[p] = "left", ex_round[p] = ex_round[q]
               PROVE  stage[q] \in {"decide", "left"} /\ Breakout(q)
    BY DEF LeaveTogether
  <2>1. Leaving
    BY DEF Leaving, Gone
  <2>2. stage[q] # "reset"
    <3>1. stage[q] = "reset" => ex_round[q] = ex_round[p] + 1 /\ ex_round[p] \in Nat
      BY <1>1 DEF ExInv, LoopInv, RoundInv, RoundsOK
    <3>2. \A n \in Nat : n # n + 1
      OBVIOUS
    <3> QED
      BY <3>1, <3>2
  <2> QED
    BY <1>1, <2>1, <2>2 DEF ExInv, LoopInv, EndgameInv, LeavingOK
<1>2. ExInv => LeaveTogether
  BY <1>1
<1> QED
  BY <1>2, ExInvAlways, PTL
=============================================================================
