--------------------------- MODULE PutPorterProofs ---------------------------
(***************************************************************************)
(* Theorems about PutPorter for every number of ranks, multiplicity,       *)
(* buffer size, option and bound: first about the channels of one PE, then *)
(* about its flow control, the two ends of a link and the three kinds of   *)
(* puts between them, whatever the order in which the network delivers     *)
(* them; then about the data that it moves, the items in the buffers of a  *)
(* link from the push to the client that takes them, and the refinement of *)
(* FifoLinks by the group.                                                 *)
(***************************************************************************)
EXTENDS PutPorter, FiniteSetTheorems, TLAPS

(* Channels *)

\* What holds of one channel between any two assignments of the code.
ChanOK(c) ==
  /\ c \in Channel
  /\ c.delivered <= c.emitted /\ c.emitted <= c.produced
  /\ c.produced <= c.delivered + Multiplicity
  /\ c.open => c.produced < c.delivered + Multiplicity
  /\ c.fill <= Len(c.bufs[LevelOf(c.produced)])
  /\ c.inflight # 0 => c.emitted > 0

\* A level is always one of the ring's.
LEMMA LevelType == \A n \in Nat : LevelOf(n) \in Level
BY MultiplicityAssumption DEF LevelOf, Level

\* What porter_setup() makes of a channel is a channel in order.
LEMMA NewChannelOK == \A d \in Rank : ChanOK(NewChannel(d))
<1> SUFFICES ASSUME NEW d \in Rank PROVE ChanOK(NewChannel(d))
  OBVIOUS
<1> DEFINE c == NewChannel(d)
<1>1. c \in Channel
  BY DEF NewChannel, Channel, Patience
<1>2. c.bufs[LevelOf(c.produced)] = <<>>
  BY LevelType DEF NewChannel
<1> QED
  BY <1>1, <1>2, MultiplicityAssumption DEF ChanOK, NewChannel

\* The types of the fields, without the record around them.
LEMMA FieldTypes ==
  ASSUME NEW c \in Channel
  PROVE  /\ c.produced \in Nat /\ c.emitted \in Nat /\ c.delivered \in Nat
         /\ c.urgent \in Nat /\ c.fill \in Nat /\ c.inflight \in Nat
         /\ c.waiting \in 0 .. Patience
         /\ c.open \in BOOLEAN /\ c.all_sent \in BOOLEAN
         /\ c.bufs \in [Level -> Seq(Nat)]
BY DEF Channel

\* Writing a packet into an open buffer leaves the channel in order.
LEMMA WrittenOK ==
  ASSUME NEW c, ChanOK(c), NEW item \in Nat
  PROVE  /\ ChanOK(Written(c, item))
         /\ Written(c, item).open = c.open
         /\ Written(c, item).emitted = c.emitted
<1> DEFINE l  == LevelOf(c.produced)
           b  == Append(SubSeq(c.bufs[l], 1, c.fill), item)
           bs == [c.bufs EXCEPT ![l] = b]
           w  == Written(c, item)
<1>1. c \in Channel
  BY DEF ChanOK
<1>2. l \in Level /\ c.bufs \in [Level -> Seq(Nat)] /\ c.fill \in Nat
  BY <1>1, LevelType, FieldTypes
<1>3. b \in Seq(Nat) /\ Len(b) = c.fill + 1
  BY <1>2 DEF ChanOK
<1>4. bs \in [Level -> Seq(Nat)] /\ bs[l] = b /\ c.fill + 1 \in Nat
  BY <1>2, <1>3
<1>5. w = [c EXCEPT !.bufs = bs, !.fill = c.fill + 1]
  BY <1>1 DEF Written, Channel
<1> HIDE DEF b, bs, w
<1>6. w \in Channel
  BY <1>1, <1>4, <1>5 DEF Channel
<1>7. /\ w.bufs = bs /\ w.fill = c.fill + 1
      /\ w.open = c.open /\ w.produced = c.produced /\ w.emitted = c.emitted
      /\ w.delivered = c.delivered /\ w.inflight = c.inflight
  BY <1>1, <1>5 DEF Channel
<1>8. w.fill <= Len(w.bufs[LevelOf(w.produced)])
  BY <1>2, <1>3, <1>4, <1>7
<1>9. ChanOK(w)
  BY <1>6, <1>7, <1>8 DEF ChanOK
<1> QED
  BY <1>7, <1>9 DEF w

\* Closing an open buffer leaves the channel in order.
LEMMA ClosedOK ==
  ASSUME NEW c, ChanOK(c), c.open
  PROVE  ChanOK(Closed(c)) /\ Closed(c).emitted = c.emitted
<1> DEFINE l  == LevelOf(c.produced)
           b  == SubSeq(c.bufs[l], 1, c.fill)
           bs == [c.bufs EXCEPT ![l] = b]
           w  == Closed(c)
<1>1. c \in Channel
  BY DEF ChanOK
<1>2. /\ l \in Level /\ c.bufs \in [Level -> Seq(Nat)]
      /\ c.fill \in Nat /\ c.produced \in Nat /\ c.emitted \in Nat
      /\ c.delivered \in Nat
  BY <1>1, LevelType, FieldTypes, ChanOK(c) DEF ChanOK
<1>3. b \in Seq(Nat)
  BY <1>2 DEF ChanOK
<1>4. bs \in [Level -> Seq(Nat)] /\ c.produced + 1 \in Nat
  BY <1>2, <1>3
<1>5. w = [c EXCEPT !.bufs = bs, !.open = FALSE, !.fill = 0,
                    !.produced = c.produced + 1]
  BY <1>1 DEF Closed, Channel
<1> HIDE DEF b, bs, w
<1>6. w \in Channel
  BY <1>1, <1>4, <1>5 DEF Channel
<1>7. /\ w.bufs = bs /\ w.fill = 0 /\ w.open = FALSE
      /\ w.produced = c.produced + 1 /\ w.emitted = c.emitted
      /\ w.delivered = c.delivered /\ w.inflight = c.inflight
  BY <1>1, <1>5 DEF Channel
<1>8. w.fill <= Len(w.bufs[LevelOf(w.produced)])
  BY <1>4, <1>7, LevelType
<1>9. ChanOK(w)
  BY <1>2, <1>6, <1>7, <1>8, MultiplicityAssumption DEF ChanOK
<1> QED
  BY <1>7, <1>9 DEF w

\* Recording a delivery up to v moves delivered to v.
LEMMA RecordedOK ==
  ASSUME NEW c, ChanOK(c), NEW v \in Nat, c.delivered <= v, v <= c.emitted
  PROVE  /\ ChanOK(Recorded(c, v))
         /\ Recorded(c, v).emitted = c.emitted
         /\ Recorded(c, v).produced = c.produced
<1> DEFINE w == Recorded(c, v)
<1>1. c \in Channel
  BY DEF ChanOK
<1>2. /\ c.produced \in Nat /\ c.emitted \in Nat /\ c.delivered \in Nat
      /\ 0 \in 0 .. Patience
  BY <1>1, FieldTypes DEF Patience
<1>3. w = [c EXCEPT !.delivered = v, !.waiting = 0]
  BY DEF Recorded
<1> HIDE DEF w
<1>4. w \in Channel
  BY <1>1, <1>2, <1>3 DEF Channel
<1>5. /\ w.bufs = c.bufs /\ w.fill = c.fill /\ w.open = c.open
      /\ w.produced = c.produced /\ w.emitted = c.emitted
      /\ w.delivered = v /\ w.inflight = c.inflight
  BY <1>1, <1>3 DEF Channel
<1>6. ChanOK(w)
  BY <1>2, <1>4, <1>5, MultiplicityAssumption DEF ChanOK
<1> QED
  BY <1>5, <1>6 DEF w

\* Sending buffers that have been produced leaves the channel in order.
LEMMA SentOK ==
  ASSUME NEW c, ChanOK(c), NEW e \in c.emitted .. c.produced,
         NEW final \in BOOLEAN
  PROVE  ChanOK(Sent(c, e, final)) /\ Sent(c, e, final).emitted = e
<1> DEFINE w == Sent(c, e, final)
<1>1. c \in Channel
  BY DEF ChanOK
<1>2. /\ c.produced \in Nat /\ c.emitted \in Nat /\ c.delivered \in Nat
      /\ 0 \in 0 .. Patience /\ e \in Nat
  BY <1>1, FieldTypes DEF Patience
<1>3. CASE e = c.emitted
  BY <1>3 DEF Sent
<1>4. CASE e # c.emitted /\ Nonblocking
  <2> DEFINE sig == SignalFor(e-1, c.bufs[LevelOf(e-1)], final)
  <2>1. sig \in Nat /\ e > 0
    BY <1>2, <1>4 DEF SignalFor
  <2>2. w = [c EXCEPT !.inflight = sig, !.emitted = e]
    BY <1>1, <1>4 DEF Sent, Channel
  <2> HIDE DEF sig, w
  <2>3. w \in Channel
    BY <1>1, <1>2, <2>1, <2>2 DEF Channel
  <2>4. /\ w.bufs = c.bufs /\ w.fill = c.fill /\ w.open = c.open
        /\ w.produced = c.produced /\ w.emitted = e
        /\ w.delivered = c.delivered
    BY <1>1, <2>2 DEF Channel
  <2> QED
    BY <1>2, <2>1, <2>3, <2>4 DEF ChanOK, w
<1>5. CASE e # c.emitted /\ ~Nonblocking
  <2> DEFINE v == Arrived(c, e)
  <2>1. v = c.delivered + (e - c.emitted) /\ v \in Nat
    BY <1>2, <1>5 DEF Arrived
  <2>2. w = [c EXCEPT !.delivered = v, !.waiting = 0, !.emitted = e]
    BY <1>1, <1>5 DEF Sent, Recorded, Channel
  <2> HIDE DEF v, w
  <2>3. w \in Channel
    BY <1>1, <1>2, <2>1, <2>2 DEF Channel
  <2>4. /\ w.bufs = c.bufs /\ w.fill = c.fill /\ w.open = c.open
        /\ w.produced = c.produced /\ w.emitted = e
        /\ w.delivered = v /\ w.inflight = c.inflight
    BY <1>1, <2>2 DEF Channel
  <2>5. /\ v <= e /\ c.delivered <= v /\ c.emitted < e /\ e <= c.produced
        /\ v \in Int /\ Multiplicity \in Int
    BY <1>2, <1>5, <2>1, MultiplicityAssumption DEF ChanOK
  <2>6. /\ w.delivered <= w.emitted /\ w.emitted <= w.produced
        /\ w.produced <= w.delivered + Multiplicity
        /\ w.open => w.produced < w.delivered + Multiplicity
    BY <1>2, <2>4, <2>5 DEF ChanOK
  <2>7. ChanOK(w)
    BY <1>2, <2>3, <2>4, <2>5, <2>6 DEF ChanOK
  <2> QED
    BY <2>4, <2>7 DEF w
<1> QED
  BY <1>3, <1>4, <1>5

\* Opening the next buffer when porter_try_send() may do so.
LEMMA OpenedOK ==
  ASSUME NEW c, ChanOK(c), NEW p, NEW final, Opens(p, c, final)
  PROVE  ChanOK(Opened(c)) /\ Opened(c).emitted = c.emitted
<1> DEFINE w == Opened(c)
<1>1. c \in Channel
  BY DEF ChanOK
<1>2. /\ c.produced \in Nat /\ c.emitted \in Nat /\ c.delivered \in Nat
      /\ c.bufs \in [Level -> Seq(Nat)]
  BY <1>1, FieldTypes
<1>3. c.produced < c.delivered + Multiplicity
  BY <1>2, MultiplicityAssumption DEF Opens
<1>4. w = [c EXCEPT !.open = TRUE, !.fill = 0]
  BY DEF Opened
<1> HIDE DEF w
<1>5. w \in Channel
  BY <1>1, <1>4 DEF Channel
<1>6. /\ w.bufs = c.bufs /\ w.fill = 0
      /\ w.produced = c.produced /\ w.emitted = c.emitted
      /\ w.delivered = c.delivered /\ w.inflight = c.inflight
  BY <1>1, <1>4 DEF Channel
<1>7. c.bufs[LevelOf(c.produced)] \in Seq(Nat)
  BY <1>2, LevelType
<1>8. ChanOK(w)
  BY <1>3, <1>5, <1>6, <1>7 DEF ChanOK
<1> QED
  BY <1>6, <1>8 DEF w

-----------------------------------------------------------------------------
(* The channels of one PE, and porter_try_send() *)

ChansOK(C) == C \in [Rank -> Channel] /\ \A d \in Rank : ChanOK(C[d])

LEMMA RankFinite == IsFiniteSet(Rank)
BY FS_Interval, NAssumption DEF Rank

\* porter_record_delivery() is called with what has been emitted.
LEMMA ProgressedOK ==
  ASSUME NEW C, ChansOK(C), NEW force \in BOOLEAN
  PROVE  /\ ChansOK(Progressed(C, force))
         /\ \A d \in Rank : Progressed(C, force)[d].emitted = C[d].emitted
         /\ \A d \in Rank : Progressed(C, force)[d].produced = C[d].produced
         /\ Crossings(C, force) \in Nat
<1>1. ASSUME NEW d \in Rank
      PROVE  /\ ChanOK(Progressed(C, force)[d])
             /\ Progressed(C, force)[d].emitted = C[d].emitted
             /\ Progressed(C, force)[d].produced = C[d].produced
  <2>1. ChanOK(C[d]) /\ C[d] \in Channel
    BY DEF ChansOK
  <2>2. CASE d \notin Owed(C, force)
    BY <2>1, <2>2 DEF Progressed
  <2>3. CASE d \in Owed(C, force)
    <3> DEFINE r == Recorded(C[d], C[d].emitted)
               w == [r EXCEPT !.inflight = 0]
    <3>1. /\ C[d].emitted \in Nat /\ C[d].delivered <= C[d].emitted
      BY <2>1, FieldTypes DEF ChanOK
    <3>2. ChanOK(r) /\ r.emitted = C[d].emitted /\ r.produced = C[d].produced
      BY <2>1, <3>1, RecordedOK
    <3>3. r \in Channel
      BY <3>2 DEF ChanOK
    <3> HIDE DEF r
    <3>4. w \in Channel
      BY <3>3 DEF Channel
    <3>5. /\ w.bufs = r.bufs /\ w.fill = r.fill /\ w.open = r.open
          /\ w.produced = r.produced /\ w.emitted = r.emitted
          /\ w.delivered = r.delivered /\ w.inflight = 0
      BY <3>3 DEF Channel
    <3> HIDE DEF w
    <3>6. ChanOK(w)
      BY <3>2, <3>4, <3>5 DEF ChanOK
    <3>7. Progressed(C, force)[d] = w
      BY <2>3 DEF Progressed, w, r
    <3> QED
      BY <3>2, <3>5, <3>6, <3>7
  <2> QED
    BY <2>2, <2>3
<1>2. Crossings(C, force) \in Nat
  <2> DEFINE S == {d \in Owed(C, force) : Crosses(C[d], C[d].emitted)}
  <2>1. IsFiniteSet(S)
    BY RankFinite, FS_Subset DEF Owed
  <2> QED
    BY <2>1, FS_CardinalityType DEF Crossings
<1>3. Progressed(C, force) \in [Rank -> Channel]
  BY <1>1 DEF Progressed, ChanOK
<1> QED
  BY <1>1, <1>2, <1>3 DEF ChansOK

Signal == [n : Nat, value : Nat]
Data   == [n : Nat, items : Seq(Nat)]

\* The signals that nonblock_progress() sends are signals.
LEMMA OwedSignalsType ==
  ASSUME TypeOK, NEW C, ChansOK(C), NEW force \in BOOLEAN, NEW p \in Rank
  PROVE  OwedSignals(p, C, force) \in [Rank -> SUBSET Signal]
<1> SUFFICES ASSUME NEW d \in Rank
             PROVE  OwedSignals(p, C, force)[d] \subseteq Signal
  BY DEF OwedSignals
<1>1. signals[p][d] \subseteq Signal
  BY DEF TypeOK, Signal
<1>2. /\ C[d].emitted \in Nat /\ C[d].inflight \in Nat
      /\ C[d].inflight # 0 => C[d].emitted > 0
  BY FieldTypes DEF ChansOK, ChanOK
<1>3. d \in Owed(C, force) =>
        [n |-> C[d].emitted-1, value |-> C[d].inflight] \in Signal
  BY <1>2 DEF Owed, Signal
<1> QED
  BY <1>1, <1>3 DEF OwedSignals

\* So are those of porter_send_buffer(), and the buffers it puts are buffers.
LEMMA PutsType ==
  ASSUME NEW c \in Channel, NEW e \in Nat, NEW final \in BOOLEAN
  PROVE  /\ DataPuts(c, e) \subseteq Data
         /\ SignalPuts(c, e, final) \subseteq Signal
<1>1. c.emitted \in Nat /\ c.bufs \in [Level -> Seq(Nat)]
  BY FieldTypes
<1>2. ASSUME NEW n \in c.emitted .. e-1
      PROVE  /\ n \in Nat /\ c.bufs[LevelOf(n)] \in Seq(Nat)
             /\ SignalFor(n, c.bufs[LevelOf(n)], final /\ n = e-1) \in Nat
  <2>1. n \in Nat
    BY <1>1
  <2>2. LevelOf(n) \in Level
    BY <2>1, LevelType
  <2>3. c.bufs[LevelOf(n)] \in Seq(Nat)
    BY <1>1, <2>2
  <2>4. SignalFor(n, c.bufs[LevelOf(n)], final /\ n = e-1) \in Nat
    BY <2>1 DEF SignalFor
  <2> QED
    BY <2>1, <2>3, <2>4
<1>3. ASSUME NEW n \in c.emitted .. e-1
      PROVE  [n |-> n, items |-> IF Nonblocking THEN <<>>
                                 ELSE c.bufs[LevelOf(n)]] \in Data
  <2>1. (IF Nonblocking THEN <<>> ELSE c.bufs[LevelOf(n)]) \in Seq(Nat)
    BY <1>2
  <2> QED
    BY <1>2, <2>1 DEF Data
<1>4. DataPuts(c, e) \subseteq Data
  BY <1>3 DEF DataPuts
<1>5. SignalPuts(c, e, final) \subseteq Signal
  BY <1>2 DEF SignalPuts, Signal
<1> QED
  BY <1>4, <1>5

\* porter_try_send() keeps every channel of its PE in order, touches no other
\* PE, and sends only buffers that are ready.
LEMMA TrySendOK ==
  ASSUME TypeOK, NEW p \in Rank, NEW d \in Rank, NEW C, ChansOK(C),
         NEW nu \in Int, TrySend(p, d, C, nu)
  PROVE  /\ chan' = [chan EXCEPT ![p] = chan'[p]]
         /\ ChansOK(chan'[p])
         /\ \A x \in Rank \ {d} : chan'[p][x].emitted = C[x].emitted
         /\ C[d].emitted <= chan'[p][d].emitted
         /\ \A n \in C[d].emitted .. chan'[p][d].emitted - 1 : ready(p, d, n)
         /\ puts' \in [Rank -> [Rank -> SUBSET Data]]
         /\ signals' \in [Rank -> [Rank -> SUBSET Signal]]
         /\ \A q \in Rank \ {p} : puts'[q] = puts[q] /\ signals'[q] = signals[q]
         /\ n_urgent' \in [Rank -> Int]
         /\ acks' = acks
<1> DEFINE force == MustForce(C[d])
           C1    == Progressed(C, force)
           c     == C1[d]
           Final(e) == endgame[p] /\ e = c.produced /\ e > c.emitted
           S(e)  == [Sent(c, e, Final(e)) EXCEPT !.all_sent = @ \/ Final(e)]
           O(e)  == IF Opens(p, S(e), Final(e)) THEN Opened(S(e)) ELSE S(e)
<1>1. force \in BOOLEAN
  BY OptionAssumption DEF MustForce
<1>2. /\ ChansOK(C1) /\ Crossings(C, force) \in Nat
      /\ \A x \in Rank : C1[x].emitted = C[x].emitted
                         /\ C1[x].produced = C[x].produced
  BY <1>1, ProgressedOK
<1>3. /\ c \in Channel /\ ChanOK(c)
      /\ c.emitted \in Nat /\ c.produced \in Nat /\ c.delivered \in Nat
  BY <1>2, FieldTypes DEF ChansOK
<1>4. PICK e \in C[d].emitted .. C[d].produced :
        /\ \A n \in C[d].emitted .. e-1 : ready(p, d, n)
        /\ SendUpTo(p, d, C, nu, force, e)
  BY Zenon DEF TrySend
<1>5. /\ chan' = [chan EXCEPT ![p] = [C1 EXCEPT ![d] = O(e)]]
      /\ puts' = [puts EXCEPT ![p][d] = @ \cup DataPuts(c, e)]
      /\ signals' = [signals EXCEPT ![p] =
           [OwedSignals(p, C, force) EXCEPT ![d] =
              @ \cup SignalPuts(c, e, Final(e))]]
      /\ n_urgent' = [n_urgent EXCEPT ![p] =
           nu - Crossings(C, force)
              - (IF Crosses(c, Arrived(c, e)) THEN 1 ELSE 0)]
  BY <1>4, Zenon DEF SendUpTo
<1>6. /\ e \in Nat /\ e \in c.emitted .. c.produced
      /\ Final(e) \in BOOLEAN
  <2>1. Final(e) \in BOOLEAN
    OBVIOUS
  <2>2. c.emitted = C[d].emitted /\ c.produced = C[d].produced
    BY <1>2
  <2> QED
    BY <1>3, <1>4, <2>1, <2>2
<1>7. ChanOK(S(e)) /\ S(e).emitted = e
  <2> DEFINE t == Sent(c, e, Final(e))
             w == S(e)
  <2>1. ChanOK(t) /\ t.emitted = e
    BY <1>3, <1>6, SentOK
  <2>2. t \in Channel
    BY <2>1 DEF ChanOK
  <2>3. w = [t EXCEPT !.all_sent = t.all_sent \/ Final(e)]
    BY <2>2 DEF Channel
  <2> HIDE DEF t, w, Final
  <2>4. w \in Channel
    BY <1>6, <2>2, <2>3 DEF Channel
  <2>5. /\ w.bufs = t.bufs /\ w.fill = t.fill /\ w.open = t.open
        /\ w.produced = t.produced /\ w.emitted = t.emitted
        /\ w.delivered = t.delivered /\ w.inflight = t.inflight
    BY <2>2, <2>3 DEF Channel
  <2>6. ChanOK(w)
    BY <2>1, <2>4, <2>5 DEF ChanOK
  <2> QED
    BY <2>1, <2>5, <2>6 DEF w
<1>8. ChanOK(O(e)) /\ O(e).emitted = e
  BY <1>7, OpenedOK
<1> HIDE DEF c, C1, force, Final, S, O
<1>9. chan'[p] = [C1 EXCEPT ![d] = O(e)]
  BY <1>5 DEF TypeOK
<1>10. chan'[p][d] = O(e) /\ \A x \in Rank \ {d} : chan'[p][x] = C1[x]
  BY <1>2, <1>9 DEF ChansOK
<1>11. ChansOK(chan'[p])
  BY <1>2, <1>8, <1>9, <1>10 DEF ChansOK, ChanOK
<1>12. chan' = [chan EXCEPT ![p] = chan'[p]]
  BY <1>5, <1>9
<1>13. /\ DataPuts(c, e) \subseteq Data
       /\ SignalPuts(c, e, Final(e)) \subseteq Signal
  BY <1>3, <1>6, PutsType
<1>14. puts' \in [Rank -> [Rank -> SUBSET Data]]
  <2> DEFINE D == DataPuts(c, e)
  <2>1. puts \in [Rank -> [Rank -> SUBSET Data]]
    BY DEF TypeOK, Data
  <2>2. puts' = [puts EXCEPT ![p][d] = @ \cup D]
    BY <1>5
  <2>3. D \subseteq Data
    BY <1>13
  <2> HIDE DEF D
  <2> QED
    BY <2>1, <2>2, <2>3
<1>15. OwedSignals(p, C, force) \in [Rank -> SUBSET Signal]
  BY <1>1, OwedSignalsType
<1>16. signals' \in [Rank -> [Rank -> SUBSET Signal]]
  <2>1. signals \in [Rank -> [Rank -> SUBSET Signal]]
    BY DEF TypeOK, Signal
  <2>2. [OwedSignals(p, C, force) EXCEPT ![d] =
           @ \cup SignalPuts(c, e, Final(e))] \in [Rank -> SUBSET Signal]
    BY <1>13, <1>15
  <2> QED
    BY <1>5, <2>1, <2>2
<1>17. \A q \in Rank \ {p} : puts'[q] = puts[q] /\ signals'[q] = signals[q]
  BY <1>5 DEF TypeOK
<1>18. n_urgent' \in [Rank -> Int]
  <2> DEFINE k == IF Crosses(c, Arrived(c, e)) THEN 1 ELSE 0
  <2>1. nu - Crossings(C, force) - k \in Int
    BY <1>2
  <2> HIDE DEF k
  <2> QED
    BY <1>5, <2>1 DEF TypeOK, k
<1>19. acks' = acks
  BY DEF TrySend
<1>20. /\ \A x \in Rank \ {d} : chan'[p][x].emitted = C[x].emitted
       /\ chan'[p][d].emitted = e
  BY <1>2, <1>8, <1>10
<1>21. C[d].emitted \in Nat
  BY <1>2, <1>3 DEF c
<1> QED
  BY <1>4, <1>11, <1>12, <1>14, <1>16, <1>17, <1>18, <1>19, <1>20, <1>21

\* So does progress(-1), which changes no count of emitted buffers.
LEMMA ProgressAllOK ==
  ASSUME TypeOK, NEW p \in Rank, ChansOK(chan[p]), ProgressAll(p)
  PROVE  /\ chan' = [chan EXCEPT ![p] = chan'[p]]
         /\ ChansOK(chan'[p])
         /\ \A x \in Rank : chan'[p][x].emitted = chan[p][x].emitted
         /\ signals' \in [Rank -> [Rank -> SUBSET Signal]]
         /\ \A q \in Rank \ {p} : signals'[q] = signals[q]
         /\ n_urgent' \in [Rank -> Int]
         /\ puts' = puts /\ acks' = acks
<1>1. Nonblocking \in BOOLEAN
  BY OptionAssumption
<1>2. /\ ChansOK(Progressed(chan[p], Nonblocking))
      /\ Crossings(chan[p], Nonblocking) \in Nat
      /\ \A x \in Rank :
           Progressed(chan[p], Nonblocking)[x].emitted = chan[p][x].emitted
  BY <1>1, ProgressedOK
<1>3. OwedSignals(p, chan[p], Nonblocking) \in [Rank -> SUBSET Signal]
  BY <1>1, OwedSignalsType
<1>4. chan'[p] = Progressed(chan[p], Nonblocking)
  BY DEF ProgressAll, TypeOK
<1>5. chan' = [chan EXCEPT ![p] = chan'[p]]
  BY <1>4 DEF ProgressAll
<1>6. /\ signals' \in [Rank -> [Rank -> SUBSET Signal]]
      /\ \A q \in Rank \ {p} : signals'[q] = signals[q]
  BY <1>3 DEF ProgressAll, TypeOK, Signal
<1>7. n_urgent' \in [Rank -> Int]
  BY <1>2 DEF ProgressAll, TypeOK
<1> QED
  BY <1>2, <1>4, <1>5, <1>6, <1>7 DEF ProgressAll

-----------------------------------------------------------------------------
(* The first inductive invariant: types, and the order of every channel *)

TypeInv == TypeOK /\ \A p \in Rank : ChansOK(chan[p])

\* Only chan, n_urgent and the wires are left to type once the types of the
\* rest are known: the form in which porter_try_send() is used.
SendTypes(p) ==
  /\ chan' = [chan EXCEPT ![p] = chan'[p]] /\ ChansOK(chan'[p])
  /\ n_urgent' \in [Rank -> Int]
  /\ puts' \in [Rank -> [Rank -> SUBSET Data]]
  /\ signals' \in [Rank -> [Rank -> SUBSET Signal]]
  /\ acks' = acks

\* The state that the sending side of a porter shares with no other action.
Rest == <<consumed, recvbuf, received, disposed, drained, pending, stuck,
          taken, phase, endgame, flushed, pc, todo, done, stage, round,
          pushed, got>>

RestOK ==
  /\ consumed \in [Rank -> [Rank -> [Level -> Nat]]]
  /\ recvbuf \in [Rank -> [Rank -> [Level -> [start : Nat, items : Seq(Nat)]]]]
  /\ received \in [Rank -> [Rank -> Nat]]
  /\ disposed \in [Rank -> [Rank -> Nat]]
  /\ drained \in [Rank -> BOOLEAN]
  /\ pending \in [Rank -> SUBSET Rank]
  /\ stuck \in [Rank -> SUBSET Rank]
  /\ taken \in [Rank -> Rank \cup {None}]
  /\ phase \in [Rank -> Rank]
  /\ endgame \in [Rank -> BOOLEAN]
  /\ flushed \in [Rank -> BOOLEAN]
  /\ pc \in [Rank -> {"idle", "urgent", "flush"}]
  /\ todo \in [Rank -> SUBSET Rank]
  /\ done \in [Rank -> BOOLEAN]
  /\ stage \in [Rank -> Stages]
  /\ round \in [Rank -> Nat]
  /\ pushed \in [Rank -> [Rank -> Nat]]
  /\ got \in [Rank -> [Rank -> Seq(Nat)]]

LEMMA SendTypeInv ==
  ASSUME TypeInv, NEW p \in Rank, SendTypes(p), RestOK'
  PROVE  TypeInv'
<1>1. chan' \in [Rank -> [Rank -> Channel]]
  BY DEF TypeInv, TypeOK, SendTypes, ChansOK
<1>2. ASSUME NEW q \in Rank PROVE ChansOK(chan'[q])
  <2>1. CASE q = p
    BY <2>1 DEF SendTypes
  <2>2. CASE q # p
    <3>1. chan'[q] = chan[q]
      BY <2>2 DEF SendTypes, TypeInv, TypeOK
    <3> QED
      BY <3>1 DEF TypeInv
  <2> QED
    BY <2>1, <2>2
<1>3. acks' \in [Rank -> [Rank -> SUBSET [level : Level, value : Nat]]]
  BY DEF TypeInv, TypeOK, SendTypes
<1>4. TypeOK'
  BY <1>1, <1>3 DEF TypeOK, RestOK, SendTypes, Data, Signal
<1> QED
  BY <1>2, <1>4 DEF TypeInv

\* A call of porter_try_send() by p keeps the invariant.
LEMMA TrySendTypes ==
  ASSUME TypeInv, NEW p \in Rank, NEW d \in Rank, NEW C, ChansOK(C),
         NEW nu \in Int, TrySend(p, d, C, nu)
  PROVE  SendTypes(p)
BY TrySendOK DEF SendTypes, TypeInv

LEMMA ProgressAllTypes ==
  ASSUME TypeInv, NEW p \in Rank, ProgressAll(p)
  PROVE  SendTypes(p)
<1>1. puts' \in [Rank -> [Rank -> SUBSET Data]]
  BY DEF ProgressAll, TypeInv, TypeOK, Data
<1> QED
  BY <1>1, ProgressAllOK DEF SendTypes, TypeInv

\* Changing one channel of p to another that is in order.
LEMMA OneChannelTypes ==
  ASSUME TypeInv, NEW p \in Rank, NEW d \in Rank, NEW c, ChanOK(c),
         chan' = [chan EXCEPT ![p][d] = c], UNCHANGED <<n_urgent, wires>>
  PROVE  SendTypes(p)
<1>1. chan'[p] = [chan[p] EXCEPT ![d] = c]
  BY DEF TypeInv, TypeOK
<1>2. ChansOK(chan'[p])
  BY <1>1 DEF TypeInv, ChansOK, ChanOK
<1>3. chan' = [chan EXCEPT ![p] = chan'[p]]
  BY <1>1
<1> QED
  BY <1>2, <1>3 DEF SendTypes, TypeInv, TypeOK, wires, Data, Signal

LEMMA ReplaceOK ==
  ASSUME TypeInv, NEW p \in Rank, NEW d \in Rank, NEW c, ChanOK(c)
  PROVE  ChansOK([chan[p] EXCEPT ![d] = c])
BY DEF TypeInv, ChansOK, ChanOK

LEMMA TypeInvInit == Init => TypeInv
<1> SUFFICES ASSUME Init PROVE TypeInv
  OBVIOUS
<1>1. \A d \in Rank : ChanOK(NewChannel(d)) /\ NewChannel(d) \in Channel
  BY NewChannelOK DEF ChanOK
<1>2. \A p \in Rank : ChansOK(chan[p])
  BY <1>1 DEF Init, ChansOK
<1>3. chan \in [Rank -> [Rank -> Channel]]
  BY <1>1 DEF Init
<1>4. EmptyBuf \in [start : Nat, items : Seq(Nat)]
  BY DEF EmptyBuf
<1>5. recvbuf \in [Rank -> [Rank ->
                     [Level -> [start : Nat, items : Seq(Nat)]]]]
  BY <1>4 DEF Init
<1>6. /\ got \in [Rank -> [Rank -> Seq(Nat)]]
      /\ received \in [Rank -> [Rank -> Nat]]
      /\ taken \in [Rank -> Rank \cup {None}]
      /\ stage \in [Rank -> Stages]
  BY DEF Init, Stages, FirstReceived
<1>7. TypeOK
  BY <1>3, <1>5, <1>6 DEF Init, TypeOK, FirstReceived
<1> QED
  BY <1>2, <1>7 DEF TypeInv

LEMMA RestNow == TypeInv => RestOK
BY DEF TypeInv, TypeOK, RestOK

LEMMA Access ==
  ASSUME TypeInv, NEW p \in Rank, NEW d \in Rank
  PROVE  /\ ChanOK(chan[p][d]) /\ chan[p][d] \in Channel
         /\ chan[p][d].produced \in Nat
         /\ pushed[p][d] \in Nat /\ n_urgent[p] \in Int
<1>1. ChanOK(chan[p][d]) /\ chan[p][d] \in Channel
  BY DEF TypeInv, ChansOK
<1>2. pushed[p][d] \in Nat /\ n_urgent[p] \in Int
  BY DEF TypeInv, TypeOK
<1> QED
  BY <1>1, <1>2, FieldTypes

\* Counting one more pushed item leaves the rest well typed.
LEMMA PushedRest ==
  ASSUME TypeInv, NEW p \in Rank, NEW d \in Rank,
         pushed' = [pushed EXCEPT ![p][d] = @ + 1],
         UNCHANGED <<consumed, receiver, control, cycle, got>>
  PROVE  RestOK'
<1>1. pushed \in [Rank -> [Rank -> Nat]]
  BY RestNow DEF RestOK
<1>2. pushed[p][d] + 1 \in Nat
  BY <1>1
<1>3. pushed' \in [Rank -> [Rank -> Nat]]
  BY <1>1, <1>2
<1> QED
  BY <1>3, RestNow DEF RestOK, receiver, control, cycle

\* porter_push() and porter_epush()
LEMMA PushTypes ==
  ASSUME TypeInv, NEW p \in Rank, NEW d \in Rank, Push(p, d)
  PROVE  TypeInv'
<1> USE TypeInv
<1>1. /\ ChanOK(chan[p][d]) /\ chan[p][d] \in Channel
      /\ chan[p][d].produced \in Nat
      /\ pushed[p][d] + 1 \in Nat /\ n_urgent[p] \in Int
  BY Access
<1>2. ChanOK(Put(p, d)) /\ Put(p, d).open = chan[p][d].open
  BY <1>1, WrittenOK DEF Put
<1>3. Put(p, d) \in Channel
  BY <1>2 DEF ChanOK
<1>4. CASE PushRoom(p, d)
  <2>1. RestOK'
    BY <1>4, PushedRest DEF PushRoom
  <2>2. CASE chan[p][d].fill + 1 = BufItems
    <3>1. ChanOK(Closed(Put(p, d)))
      BY <1>2, <1>4, ClosedOK DEF PushRoom
    <3>2. ChansOK([chan[p] EXCEPT ![d] = Closed(Put(p, d))])
      BY <3>1, ReplaceOK
    <3>3. TrySend(p, d, [chan[p] EXCEPT ![d] = Closed(Put(p, d))],
                  n_urgent[p])
      BY <1>4, <2>2 DEF PushRoom
    <3>4. SendTypes(p)
      BY <1>1, <3>2, <3>3, TrySendTypes
    <3> QED
      BY <2>1, <3>4, SendTypeInv
  <2>3. CASE chan[p][d].fill + 1 # BufItems
    <3>1. SendTypes(p)
      BY <1>2, <1>4, <2>3, OneChannelTypes DEF PushRoom
    <3> QED
      BY <2>1, <3>1, SendTypeInv
  <2> QED
    BY <2>2, <2>3
<1>5. ASSUME NEW ticket \in BOOLEAN, EPushRoom(p, d, ticket)
      PROVE  TypeInv'
  <2> DEFINE c  == chan[p][d]
             w  == IF ticket THEN Ticketed(Put(p, d)) ELSE Put(p, d)
             nu == n_urgent[p] + (IF ticket /\ c.urgent <= c.delivered
                                  THEN 1 ELSE 0)
  <2>1. RestOK'
    BY <1>5, PushedRest DEF EPushRoom
  <2>2. c.open
    BY <1>5 DEF EPushRoom
  <2>3. ChanOK(w) /\ w.open
    <3>1. CASE ~ticket
      BY <1>2, <2>2, <3>1
    <3>2. CASE ticket
      <4> DEFINE b == Put(p, d)
                 t == Ticketed(b)
      <4> HIDE DEF b
      <4>1. b \in Channel /\ ChanOK(b) /\ b.open /\ b.produced + 1 \in Nat
        BY <1>2, <1>3, <2>2, FieldTypes DEF b
      <4>2. t = [b EXCEPT !.urgent = b.produced + 1]
        BY DEF Ticketed
      <4> HIDE DEF t
      <4>3. t \in Channel
        BY <4>1, <4>2 DEF Channel
      <4>4. /\ t.bufs = b.bufs /\ t.fill = b.fill /\ t.open = b.open
            /\ t.produced = b.produced /\ t.emitted = b.emitted
            /\ t.delivered = b.delivered /\ t.inflight = b.inflight
        BY <4>1, <4>2 DEF Channel
      <4>5. ChanOK(t) /\ t.open
        BY <4>1, <4>3, <4>4 DEF ChanOK
      <4> QED
        BY <3>2, <4>5 DEF b, t
    <3> QED
      BY <3>1, <3>2
  <2>4. nu \in Int
    BY <1>1
  <2> HIDE DEF w, nu
  <2>5. \/ TrySend(p, d, [chan[p] EXCEPT ![d] = Closed(w)], nu)
        \/ chan' = [chan EXCEPT ![p][d] = w] /\ UNCHANGED <<n_urgent, wires>>
    BY <1>5 DEF EPushRoom, w, nu
  <2>6. ASSUME TrySend(p, d, [chan[p] EXCEPT ![d] = Closed(w)], nu)
        PROVE  SendTypes(p)
    <3>1. ChansOK([chan[p] EXCEPT ![d] = Closed(w)])
      BY <2>3, ClosedOK, ReplaceOK
    <3> QED
      BY <2>4, <2>6, <3>1, TrySendTypes
  <2>7. SendTypes(p)
    BY <2>3, <2>5, <2>6, OneChannelTypes
  <2> QED
    BY <2>1, <2>7, SendTypeInv
<1>6. CASE PushNoRoom(p, d)
  <2>1. RestOK'
    BY <1>6, RestNow DEF PushNoRoom, RestOK, receiver, control, cycle, history
  <2>2. ChansOK(chan[p])
    BY DEF TypeInv
  <2>3. chan[p][d].open =>
          ChansOK([chan[p] EXCEPT ![d] = Closed(chan[p][d])])
    BY <1>1, ClosedOK, ReplaceOK
  <2>4. \/ TrySend(p, d, chan[p], n_urgent[p])
        \/ /\ chan[p][d].open
           /\ TrySend(p, d, [chan[p] EXCEPT ![d] = Closed(chan[p][d])],
                      n_urgent[p])
    BY <1>6 DEF PushNoRoom
  <2>5. SendTypes(p)
    BY <1>1, <2>2, <2>3, <2>4, TrySendTypes
  <2> QED
    BY <2>1, <2>5, SendTypeInv
<1> QED
  BY <1>4, <1>5, <1>6 DEF Push

\* porter_ensure_progress()
LEMMA EnsureProgressTypes ==
  ASSUME TypeInv, NEW p \in Rank, NEW d \in Rank, EnsureProgress(p, d)
  PROVE  SendTypes(p)
<1> DEFINE c       == chan[p][d]
           full    == c.produced > c.delivered
           partial == c.open /\ c.fill > 0
<1>1. ChanOK(c) /\ c \in Channel /\ n_urgent[p] \in Int
  BY Access
<1>2. ASSUME NEW w \in 0 .. Patience,
             chan' = [chan EXCEPT ![p][d].waiting = w],
             UNCHANGED <<n_urgent, wires>>
      PROVE  SendTypes(p)
  <2> DEFINE b == [c EXCEPT !.waiting = w]
  <2>1. b \in Channel
    BY <1>1 DEF Channel
  <2>2. /\ b.bufs = c.bufs /\ b.fill = c.fill /\ b.open = c.open
        /\ b.produced = c.produced /\ b.emitted = c.emitted
        /\ b.delivered = c.delivered /\ b.inflight = c.inflight
    BY <1>1 DEF Channel
  <2>3. ChanOK(b)
    BY <1>1, <2>1, <2>2 DEF ChanOK
  <2>4. chan' = [chan EXCEPT ![p][d] = b]
    BY <1>2
  <2> QED
    BY <1>2, <2>3, <2>4, OneChannelTypes
<1>3. CASE c.waiting \in 1 .. Patience-1
  <2>1. c.waiting + 1 \in 0 .. Patience
    BY <1>3 DEF Patience
  <2> QED
    BY <1>2, <1>3, <2>1 DEF EnsureProgress
<1>4. CASE c.waiting \notin 1 .. Patience-1 /\ c.waiting > 0
  <2> DEFINE b == IF ~full /\ partial THEN Closed(c) ELSE c
  <2>1. ChanOK(b)
    BY <1>1, ClosedOK
  <2>2. ChansOK([chan[p] EXCEPT ![d] = b])
    BY <2>1, ReplaceOK
  <2>3. TrySend(p, d, [chan[p] EXCEPT ![d] = b], n_urgent[p])
    BY <1>4 DEF EnsureProgress
  <2> QED
    BY <1>1, <2>2, <2>3, TrySendTypes
<1>5. CASE ~(c.waiting > 0)
  <2> DEFINE w == IF full \/ partial THEN 1 ELSE c.waiting
  <2>1. w \in 0 .. Patience
    BY <1>1, <1>5, FieldTypes DEF Patience
  <2>2. chan' = [chan EXCEPT ![p][d].waiting = w]
        /\ UNCHANGED <<n_urgent, wires>>
    BY <1>5 DEF EnsureProgress, Patience
  <2> QED
    BY <1>2, <2>1, <2>2
<1> QED
  BY <1>3, <1>4, <1>5

LEMMA EnterEndgameTypes ==
  ASSUME TypeInv, NEW p \in Rank, EnterEndgame(p)
  PROVE  /\ endgame' \in [Rank -> BOOLEAN]
         /\ pc' \in [Rank -> {"idle", "urgent", "flush"}]
         /\ todo' \in [Rank -> SUBSET Rank]
<1>1. /\ endgame \in [Rank -> BOOLEAN] /\ done[p] \in BOOLEAN
      /\ pc \in [Rank -> {"idle", "urgent", "flush"}]
      /\ todo \in [Rank -> SUBSET Rank]
  BY RestNow DEF RestOK
<1>2. Unsent(p) \subseteq Rank
  BY DEF Unsent
<1> QED
  BY <1>1, <1>2 DEF EnterEndgame

LEMMA EndgameRest ==
  ASSUME TypeInv, NEW p \in Rank, phase' \in [Rank -> Rank], CheckUrgent(p),
         UNCHANGED <<consumed, receiver, cycle, flushed, history>>
  PROVE  RestOK'
<1>1. /\ endgame' \in [Rank -> BOOLEAN]
      /\ pc' \in [Rank -> {"idle", "urgent", "flush"}]
      /\ todo' \in [Rank -> SUBSET Rank]
  <2>1. CASE n_urgent'[p] > 0
    <3>1. /\ endgame' = endgame
          /\ pc' = [pc EXCEPT ![p] = "urgent"]
          /\ todo' = [todo EXCEPT ![p] =
               {d \in Rank : chan'[p][d].urgent > chan'[p][d].emitted}]
      BY <2>1 DEF CheckUrgent
    <3> QED
      BY <3>1, RestNow DEF RestOK
  <2>2. CASE ~(n_urgent'[p] > 0)
    BY <2>2, EnterEndgameTypes DEF CheckUrgent
  <2> QED
    BY <2>1, <2>2
<1> QED
  BY <1>1, RestNow DEF RestOK, receiver, cycle, history

\* porter_advance(), action by action
LEMMA AdvanceTypes ==
  ASSUME TypeInv, NEW p \in Rank, Advance(p)
  PROVE  TypeInv'
<1> USE TypeInv
<1>1. CASE StartAdvance(p)
  <2>1. phase[p] \in Rank
    BY DEF TypeInv, TypeOK
  <2>2. NextPhase(phase[p]) \in Rank
    BY <2>1, NAssumption DEF NextPhase, Rank
  <2>3. phase' \in [Rank -> Rank]
    <3>1. phase \in [Rank -> Rank]
      BY DEF TypeInv, TypeOK
    <3>2. phase' = phase \/ phase' = [phase EXCEPT ![p] = NextPhase(phase[p])]
      BY <1>1 DEF StartAdvance
    <3> QED
      BY <2>2, <3>1, <3>2
  <2>4. SendTypes(p)
    <3>1. CASE Steady
      BY <1>1, <2>1, <3>1, EnsureProgressTypes DEF StartAdvance
    <3>2. CASE ~Steady
      <4>1. UNCHANGED <<chan, n_urgent, wires>>
        BY <1>1, <3>2 DEF StartAdvance
      <4> QED
        BY <4>1 DEF SendTypes, TypeInv, TypeOK, wires, Data, Signal
    <3> QED
      BY <3>1, <3>2
  <2>5. RestOK'
    BY <1>1, <2>3, EndgameRest DEF StartAdvance
  <2> QED
    BY <2>4, <2>5, SendTypeInv
<1>2. CASE UrgentSend(p)
  <2>0. PICK x \in todo[p] : todo' = [todo EXCEPT ![p] = @ \ {x}]
    BY <1>2, Zenon DEF UrgentSend
  <2>1. RestOK'
    <3>1. todo' \in [Rank -> SUBSET Rank]
      BY <2>0, RestNow DEF RestOK
    <3> QED
      BY <1>2, <3>1, RestNow DEF UrgentSend, RestOK, receiver, cycle, history
  <2>2. PICK d \in Rank : TrySend(p, d, chan[p], n_urgent[p])
    BY <1>2 DEF UrgentSend, TypeInv, TypeOK
  <2>3. SendTypes(p)
    BY <2>2, Access, TrySendTypes DEF TypeInv
  <2> QED
    BY <2>1, <2>3, SendTypeInv
<1>3. CASE UrgentProgress(p)
  <2>1. /\ endgame' \in [Rank -> BOOLEAN]
        /\ pc' \in [Rank -> {"idle", "urgent", "flush"}]
        /\ todo' \in [Rank -> SUBSET Rank]
    BY <1>3, EnterEndgameTypes DEF UrgentProgress
  <2>2. RestOK'
    BY <1>3, <2>1, RestNow DEF UrgentProgress, RestOK, receiver, cycle, history
  <2>3. SendTypes(p)
    BY <1>3, ProgressAllTypes DEF UrgentProgress
  <2> QED
    BY <2>2, <2>3, SendTypeInv
<1>4. CASE ResumeFlush(p)
  <2>1. RestOK'
    BY <1>4, RestNow DEF ResumeFlush, RestOK, receiver, cycle, history, Unsent
  <2>2. UNCHANGED <<chan, n_urgent, wires>>
    BY <1>4 DEF ResumeFlush
  <2>3. SendTypes(p)
    BY <2>2 DEF SendTypes, TypeInv, TypeOK, wires, Data, Signal
  <2> QED
    BY <2>1, <2>3, SendTypeInv
<1>5. CASE FlushSend(p)
  <2>0. PICK x \in todo[p] : todo' = [todo EXCEPT ![p] = @ \ {x}]
    BY <1>5, Zenon DEF FlushSend
  <2>1. RestOK'
    <3>1. todo' \in [Rank -> SUBSET Rank]
      BY <2>0, RestNow DEF RestOK
    <3> QED
      BY <1>5, <3>1, RestNow DEF FlushSend, RestOK, receiver, cycle, history
  <2>2. PICK d \in Rank :
          TrySend(p, d, [chan[p] EXCEPT ![d] =
                           IF chan[p][d].open THEN Closed(chan[p][d])
                           ELSE chan[p][d]], n_urgent[p])
    BY <1>5 DEF FlushSend, TypeInv, TypeOK
  <2> DEFINE b == IF chan[p][d].open THEN Closed(chan[p][d]) ELSE chan[p][d]
  <2>3. ChanOK(b)
    BY Access, ClosedOK
  <2>4. ChansOK([chan[p] EXCEPT ![d] = b])
    BY <2>3, ReplaceOK
  <2>5. SendTypes(p)
    BY <2>2, <2>4, Access, TrySendTypes
  <2> QED
    BY <2>1, <2>5, SendTypeInv
<1>6. CASE FlushProgress(p)
  <2>1. RestOK'
    BY <1>6, RestNow DEF FlushProgress, RestOK, receiver, cycle, history
  <2>2. SendTypes(p)
    BY <1>6, ProgressAllTypes DEF FlushProgress
  <2> QED
    BY <2>1, <2>2, SendTypeInv
<1> QED
  BY <1>1, <1>2, <1>3, <1>4, <1>5, <1>6 DEF Advance

\* An action that leaves the sending side alone.
LEMMA QuietTypes ==
  ASSUME TypeInv, UNCHANGED <<chan, n_urgent, puts, signals>>,
         acks' \in [Rank -> [Rank -> SUBSET [level : Level, value : Nat]]],
         RestOK'
  PROVE  TypeInv'
<1>1. TypeOK'
  BY DEF TypeInv, TypeOK, RestOK
<1> QED
  BY <1>1 DEF TypeInv

Buffer == [start : Nat, items : Seq(Nat)]

\* porter_borrow(), the client, and porter_return()
LEMMA PullTypes ==
  ASSUME TypeInv, NEW r \in Rank, Pull(r)
  PROVE  TypeInv'
<1> USE TypeInv
<1>1. acks \in [Rank -> [Rank -> SUBSET [level : Level, value : Nat]]]
  BY DEF TypeInv, TypeOK
<1>2. CASE Borrow(r)
  <2>1. stuck[r] \subseteq Rank /\ Fresh(r) \subseteq Rank
        /\ pending[r] \subseteq Rank
    BY RestNow DEF RestOK, Fresh
  <2>2. taken' \in [Rank -> Rank \cup {None}]
    <3>0. taken \in [Rank -> Rank \cup {None}]
      BY RestNow DEF RestOK
    <3>1. ASSUME NEW l \in SUBSET Rank, Lend(r, l)
          PROVE  taken' \in [Rank -> Rank \cup {None}]
      <4>1. CASE l = {}
        BY <3>0, <3>1, <4>1 DEF Lend
      <4>2. CASE l # {}
        <5>1. PICK s \in l : taken' = [taken EXCEPT ![r] = s]
          BY <3>1, <4>2, Zenon DEF Lend
        <5> QED
          BY <3>0, <5>1
      <4> QED
        BY <4>1, <4>2
    <3>2. Lend(r, pending[r]) \/ Lend(r, stuck[r] \cup Fresh(r))
      BY <1>2 DEF Borrow
    <3> QED
      BY <2>1, <3>1, <3>2
  <2>3. /\ pending' \in [Rank -> SUBSET Rank]
        /\ stuck' \in [Rank -> SUBSET Rank]
        /\ drained' \in [Rank -> BOOLEAN]
    <3>1. CASE pending[r] # {}
      BY <1>2, <3>1, RestNow DEF Borrow, RestOK
    <3>2. CASE pending[r] = {}
      <4>1. /\ pending' = [pending EXCEPT ![r] = stuck[r] \cup Fresh(r)]
            /\ stuck'   = [stuck EXCEPT ![r] = {}]
            /\ drained' = [drained EXCEPT ![r] = IsDrained(r)]
        BY <1>2, <3>2 DEF Borrow
      <4>2. IsDrained(r) \in BOOLEAN
        BY DEF IsDrained
      <4> QED
        BY <2>1, <4>1, <4>2, RestNow DEF RestOK
    <3> QED
      BY <3>1, <3>2
  <2>4. RestOK'
    BY <1>2, <2>2, <2>3, RestNow DEF Borrow, RestOK, control, cycle, history
  <2> QED
    BY <1>1, <1>2, <2>4, QuietTypes DEF Borrow, wires
<1>3. CASE Take(r)
  <2> DEFINE s == taken[r]
             l == LevelOf(disposed[r][s])
             b == recvbuf[r][s][l]
             i == b.items[b.start + 1]
  <2>1. s \in Rank
    <3>1. taken[r] # None
      BY <1>3 DEF Take
    <3>2. taken \in [Rank -> Rank \cup {None}]
      BY RestNow DEF RestOK
    <3> QED
      BY <3>1, <3>2
  <2>2. l \in Level
    <3>1. disposed \in [Rank -> [Rank -> Nat]]
      BY RestNow DEF RestOK
    <3> HIDE DEF s
    <3>2. disposed[r][s] \in Nat
      BY <2>1, <3>1
    <3> QED
      BY <3>2, LevelType
  <2>3. recvbuf \in [Rank -> [Rank -> [Level -> Buffer]]]
        /\ got \in [Rank -> [Rank -> Seq(Nat)]]
    BY RestNow DEF RestOK, Buffer
  <2>4. /\ got' = [got EXCEPT ![r][s] = Append(@, i)]
        /\ recvbuf' = [recvbuf EXCEPT ![r][s][l].start = @ + 1]
        /\ b.start < Len(b.items)
    BY <1>3 DEF Take, Borrowed
  <2> HIDE DEF l, s
  <2>5. b \in Buffer
    BY <2>1, <2>2, <2>3
  <2>6. b.start \in Nat /\ b.items \in Seq(Nat)
    BY <2>5 DEF Buffer
  <2>7. i \in Nat
    <3> HIDE DEF b
    <3> QED
      BY <2>4, <2>6
  <2>8. got' \in [Rank -> [Rank -> Seq(Nat)]]
    <3> HIDE DEF i
    <3>1. Append(got[r][s], i) \in Seq(Nat)
      BY <2>1, <2>3, <2>7
    <3> QED
      BY <2>1, <2>3, <2>4, <3>1
  <2>9. recvbuf' \in [Rank -> [Rank -> [Level -> Buffer]]]
    <3> DEFINE t == [b EXCEPT !.start = b.start + 1]
    <3>1. t \in Buffer
      <4> HIDE DEF b
      <4> QED
        BY <2>5 DEF Buffer
    <3>2. recvbuf' = [recvbuf EXCEPT ![r][s][l] = t]
      BY <2>4, <2>1, <2>2, <2>3
    <3> HIDE DEF t
    <3> QED
      BY <2>1, <2>2, <2>3, <3>1, <3>2
  <2>10. RestOK'
    BY <1>3, <2>8, <2>9, RestNow DEF Take, RestOK, control, cycle, Buffer
  <2> QED
    BY <1>1, <1>3, <2>10, QuietTypes DEF Take, wires
<1>4. CASE Return(r)
  <2> DEFINE s == taken[r]
             n == disposed[r][s]
  <2>1. s \in Rank /\ n \in Nat
    BY <1>4, RestNow DEF Return, RestOK
  <2>2. AckFor(n) \in [level : Level, value : Nat]
    BY <2>1, LevelType, MultiplicityAssumption DEF AckFor
  <2>3. /\ pending' \in [Rank -> SUBSET Rank]
        /\ taken' \in [Rank -> Rank \cup {None}]
    <3>1. /\ pending \in [Rank -> SUBSET Rank]
          /\ taken \in [Rank -> Rank \cup {None}]
      BY RestNow DEF RestOK
    <3>2. /\ pending' = [pending EXCEPT ![r] = @ \ {s}]
          /\ taken' = [taken EXCEPT ![r] = None]
      BY <1>4 DEF Return
    <3> HIDE DEF s
    <3> QED
      BY <3>1, <3>2
  <2>4. \/ /\ disposed' = [disposed EXCEPT ![r][s] = n + 1]
           /\ acks' = [acks EXCEPT ![r][s] = @ \cup {AckFor(n)}]
           /\ stuck' = stuck
        \/ /\ stuck' = [stuck EXCEPT ![r] = @ \cup {s}]
           /\ disposed' = disposed /\ acks' = acks
    BY <1>4 DEF Return
  <2>5. /\ disposed' \in [Rank -> [Rank -> Nat]]
        /\ stuck' \in [Rank -> SUBSET Rank]
    <3>0. disposed \in [Rank -> [Rank -> Nat]]
          /\ stuck \in [Rank -> SUBSET Rank]
      BY RestNow DEF RestOK
    <3>1. n + 1 \in Nat
      BY <2>1
    <3> HIDE DEF n, s
    <3>2. CASE disposed' = disposed
      BY <2>1, <2>4, <3>0, <3>1, <3>2
    <3>3. CASE stuck' = stuck
      BY <2>1, <2>4, <3>0, <3>1, <3>3
    <3> QED
      BY <2>4, <3>2, <3>3
  <2>6. acks' \in [Rank -> [Rank -> SUBSET [level : Level, value : Nat]]]
    <3> DEFINE Ack == [level : Level, value : Nat]
               a   == AckFor(n)
    <3>1. acks' = acks \/ acks' = [acks EXCEPT ![r][s] = @ \cup {a}]
      BY <2>4
    <3>2. a \in Ack /\ acks \in [Rank -> [Rank -> SUBSET Ack]]
      BY <1>1, <2>2
    <3> HIDE DEF n, s, a, Ack
    <3>3. acks' \in [Rank -> [Rank -> SUBSET Ack]]
      <4>1. CASE acks' = acks
        BY <3>2, <4>1
      <4>2. CASE acks' = [acks EXCEPT ![r][s] = @ \cup {a}]
        <5>1. acks[r][s] \cup {a} \in SUBSET Ack
          BY <2>1, <3>2
        <5> QED
          BY <2>1, <3>2, <4>2, <5>1, SMTT(30)
      <4> QED
        BY <3>1, <4>1, <4>2
    <3> QED
      BY <3>3 DEF Ack
  <2>7. RestOK'
    BY <1>4, <2>3, <2>5, RestNow DEF Return, RestOK, control, cycle, history
  <2> QED
    BY <1>4, <2>6, <2>7, QuietTypes DEF Return
<1> QED
  BY <1>2, <1>3, <1>4 DEF Pull

\* The arrival of puts
LEMMA NetworkTypes ==
  ASSUME TypeInv, NEW p \in Rank, NEW d \in Rank, Network(p, d)
  PROVE  TypeInv'
<1> USE TypeInv
<1>1. /\ puts \in [Rank -> [Rank -> SUBSET Data]]
      /\ signals \in [Rank -> [Rank -> SUBSET Signal]]
      /\ acks \in [Rank -> [Rank -> SUBSET [level : Level, value : Nat]]]
      /\ n_urgent \in [Rank -> Int]
      /\ \A q \in Rank : ChansOK(chan[q])
      /\ chan \in [Rank -> [Rank -> Channel]]
  BY DEF TypeInv, TypeOK, Data, Signal
<1>2. CASE DeliverData(p, d)
  <2>1. PICK m \in puts[p][d] :
          /\ puts' = [puts EXCEPT ![p][d] = @ \ {m}]
          /\ recvbuf' = [recvbuf EXCEPT ![d][p][LevelOf(m.n)] =
               [start |-> 0,
                items |-> IF Nonblocking THEN chan[p][d].bufs[LevelOf(m.n)]
                          ELSE m.items]]
    BY <1>2, Zenon DEF DeliverData
  <2>2. m \in Data
    BY <1>1
  <2>3. m.n \in Nat /\ m.items \in Seq(Nat)
    BY <2>2 DEF Data
  <2>4. LevelOf(m.n) \in Level
    BY <2>3, LevelType
  <2> DEFINE items == IF Nonblocking THEN chan[p][d].bufs[LevelOf(m.n)]
                      ELSE m.items
  <2>5. items \in Seq(Nat)
    BY <2>3, <2>4, Access, FieldTypes
  <2> HIDE DEF items
  <2>6. recvbuf' \in [Rank -> [Rank -> [Level -> Buffer]]]
    <3>1. recvbuf \in [Rank -> [Rank -> [Level -> Buffer]]]
      BY RestNow DEF RestOK, Buffer
    <3>2. [start |-> 0, items |-> items] \in Buffer
      BY <2>5 DEF Buffer
    <3>3. recvbuf' = [recvbuf EXCEPT ![d][p][LevelOf(m.n)] =
                        [start |-> 0, items |-> items]]
      BY <2>1 DEF items
    <3> QED
      BY <2>4, <3>1, <3>2, <3>3
  <2>7. RestOK'
    BY <1>2, <2>6, RestNow DEF DeliverData, RestOK, control, cycle, history,
                               Buffer
  <2>8. puts' \in [Rank -> [Rank -> SUBSET Data]]
    BY <1>1, <2>1
  <2>9. SendTypes(p)
    BY <1>1, <1>2, <2>8 DEF SendTypes, DeliverData
  <2> QED
    BY <2>7, <2>9, SendTypeInv
<1>3. CASE DeliverSignal(p, d)
  <2>1. PICK m \in signals[p][d] :
          /\ signals' = [signals EXCEPT ![p][d] = @ \ {m}]
          /\ received' = [received EXCEPT ![d][p] = m.value]
    BY <1>3, Zenon DEF DeliverSignal
  <2>2. m \in Signal
    BY <1>1
  <2>3. m.value \in Nat
    BY <2>2 DEF Signal
  <2>4. received' \in [Rank -> [Rank -> Nat]]
    BY <2>1, <2>3, RestNow DEF RestOK
  <2>5. RestOK'
    BY <1>3, <2>4, RestNow DEF DeliverSignal, RestOK, control, cycle, history
  <2>6. signals' \in [Rank -> [Rank -> SUBSET Signal]]
    BY <1>1, <2>1
  <2>7. SendTypes(p)
    BY <1>1, <1>3, <2>6 DEF SendTypes, DeliverSignal
  <2> QED
    BY <2>5, <2>7, SendTypeInv
<1>4. CASE DeliverAck(p, d)
  <2>1. PICK a \in acks[p][d] :
          /\ acks' = [acks EXCEPT ![p][d] = @ \ {a}]
          /\ consumed' = [consumed EXCEPT ![d][p][a.level] = a.value]
    BY <1>4, Zenon DEF DeliverAck
  <2>2. a \in [level : Level, value : Nat]
    BY <1>1
  <2>3. a.level \in Level /\ a.value \in Nat
    BY <2>2
  <2>4. consumed' \in [Rank -> [Rank -> [Level -> Nat]]]
    <3>1. consumed \in [Rank -> [Rank -> [Level -> Nat]]]
      BY RestNow DEF RestOK
    <3>2. consumed' = [consumed EXCEPT ![d] = [consumed[d] EXCEPT ![p] =
                         [consumed[d][p] EXCEPT ![a.level] = a.value]]]
      BY <2>1
    <3>3. [consumed[d][p] EXCEPT ![a.level] = a.value] \in [Level -> Nat]
      BY <2>3, <3>1
    <3> QED
      BY <3>1, <3>2, <3>3
  <2>5. RestOK'
    BY <1>4, <2>4, RestNow DEF DeliverAck, RestOK, receiver, control, cycle,
                               history
  <2>6. acks' \in [Rank -> [Rank -> SUBSET [level : Level, value : Nat]]]
    BY <1>1, <2>1
  <2> QED
    BY <1>4, <2>5, <2>6, QuietTypes DEF DeliverAck
<1> QED
  BY <1>2, <1>3, <1>4 DEF Network

\* porter_setup(), porter_reset() and the collectives in them
LEMMA CycleTypes ==
  ASSUME TypeInv,
         \/ \E p \in Rank : Finish(p) \/ Cycle(p)
         \/ ResetBarrier \/ SetupReduction \/ Finished
  PROVE  TypeInv'
<1> USE TypeInv
<1>1. /\ acks \in [Rank -> [Rank -> SUBSET [level : Level, value : Nat]]]
      /\ puts \in [Rank -> [Rank -> SUBSET Data]]
      /\ signals \in [Rank -> [Rank -> SUBSET Signal]]
      /\ n_urgent \in [Rank -> Int]
  BY DEF TypeInv, TypeOK, Data, Signal
<1>2. ASSUME NEW p \in Rank, Finish(p) PROVE TypeInv'
  <2>1. RestOK'
    BY <1>2, RestNow DEF Finish, RestOK, receiver, control, history
  <2> QED
    BY <1>1, <1>2, <2>1, QuietTypes DEF Finish, wires
<1>3. ASSUME NEW p \in Rank, EnterReset(p) PROVE TypeInv'
  <2>1. RestOK'
    BY <1>3, RestNow DEF EnterReset, RestOK, receiver, control, history, Stages
  <2> QED
    BY <1>1, <1>3, <2>1, QuietTypes DEF EnterReset, wires
<1>4. ASSUME NEW p \in Rank, Setup(p) PROVE TypeInv'
  <2>1. ChansOK([d \in Rank |-> NewChannel(d)])
    BY NewChannelOK DEF ChansOK, ChanOK
  <2>2. chan'[p] = [d \in Rank |-> NewChannel(d)]
        /\ chan' = [chan EXCEPT ![p] = chan'[p]]
    BY <1>4 DEF Setup, TypeInv, TypeOK
  <2>3. n_urgent' \in [Rank -> Int]
    BY <1>1, <1>4 DEF Setup
  <2>4. SendTypes(p)
    BY <1>1, <1>4, <2>1, <2>2, <2>3 DEF SendTypes, Setup, wires
  <2>5. /\ consumed' \in [Rank -> [Rank -> [Level -> Nat]]]
        /\ received' \in [Rank -> [Rank -> Nat]]
        /\ disposed' \in [Rank -> [Rank -> Nat]]
        /\ pushed' \in [Rank -> [Rank -> Nat]]
        /\ got' \in [Rank -> [Rank -> Seq(Nat)]]
    <3>1. consumed' \in [Rank -> [Rank -> [Level -> Nat]]]
      <4>1. consumed' = [consumed EXCEPT ![p] =
                           [d \in Rank |-> [l \in Level |-> 0]]]
        BY <1>4 DEF Setup
      <4> QED
        BY <4>1, RestNow DEF RestOK
    <3>2. received' \in [Rank -> [Rank -> Nat]]
      <4>1. received' = [received EXCEPT ![p] =
                           [s \in Rank |-> IF s \in Live THEN 0 ELSE 1]]
        BY <1>4 DEF Setup, FirstReceived
      <4> QED
        BY <4>1, RestNow DEF RestOK
    <3>3. /\ disposed' \in [Rank -> [Rank -> Nat]]
          /\ pushed' \in [Rank -> [Rank -> Nat]]
      <4>1. /\ disposed' = [disposed EXCEPT ![p] = [s \in Rank |-> 0]]
            /\ pushed' = [pushed EXCEPT ![p] = [d \in Rank |-> 0]]
        BY <1>4 DEF Setup
      <4> QED
        BY <4>1, RestNow DEF RestOK
    <3>4. got' \in [Rank -> [Rank -> Seq(Nat)]]
      <4>1. got' = [got EXCEPT ![p] = [s \in Rank |-> <<>>]]
        BY <1>4 DEF Setup
      <4> QED
        BY <4>1, RestNow DEF RestOK
    <3> QED
      BY <3>1, <3>2, <3>3, <3>4
  <2>6. /\ drained' \in [Rank -> BOOLEAN] /\ pending' \in [Rank -> SUBSET Rank]
        /\ stuck' \in [Rank -> SUBSET Rank]
        /\ taken' \in [Rank -> Rank \cup {None}]
        /\ phase' \in [Rank -> Rank] /\ endgame' \in [Rank -> BOOLEAN]
        /\ flushed' \in [Rank -> BOOLEAN] /\ done' \in [Rank -> BOOLEAN]
    <3>1. /\ drained' = [drained EXCEPT ![p] = FALSE]
          /\ pending' = [pending EXCEPT ![p] = {}]
          /\ stuck' = [stuck EXCEPT ![p] = {}]
          /\ taken' = [taken EXCEPT ![p] = None]
          /\ phase' = [phase EXCEPT ![p] = p]
          /\ endgame' = [endgame EXCEPT ![p] = FALSE]
          /\ flushed' = [flushed EXCEPT ![p] = FALSE]
          /\ done' = [done EXCEPT ![p] = FALSE]
      BY <1>4 DEF Setup
    <3> QED
      BY <3>1, RestNow DEF RestOK
  <2>8. stage' \in [Rank -> Stages] /\ round' \in [Rank -> Nat]
    <3>1. /\ stage' = [stage EXCEPT ![p] = "set"]
          /\ round' = [round EXCEPT ![p] = round[p] + 1]
      BY <1>4 DEF Setup
    <3>2. stage \in [Rank -> Stages] /\ round \in [Rank -> Nat]
      BY RestNow DEF RestOK
    <3>3. "set" \in Stages /\ round[p] + 1 \in Nat
      BY <3>2 DEF Stages
    <3>4. round' \in [Rank -> Nat]
      <4> DEFINE k == round[p] + 1
      <4> HIDE DEF k
      <4> QED
        BY <3>1, <3>2, <3>3 DEF k
    <3> QED
      BY <3>1, <3>2, <3>3, <3>4
  <2>7. RestOK'
    BY <1>4, <2>5, <2>6, <2>8, RestNow DEF Setup, RestOK
  <2> QED
    BY <2>4, <2>7, SendTypeInv
<1>5. CASE ResetBarrier
  <2>1. RestOK'
    BY <1>5, RestNow DEF ResetBarrier, RestOK, receiver, control, history,
                         Stages
  <2> QED
    BY <1>1, <1>5, <2>1, QuietTypes DEF ResetBarrier, wires
<1>6. CASE SetupReduction
  <2>1. RestOK'
    BY <1>6, RestNow DEF SetupReduction, RestOK, receiver, control, history,
                         Stages
  <2> QED
    BY <1>1, <1>6, <2>1, QuietTypes DEF SetupReduction, wires
<1>7. CASE Finished
  BY <1>7 DEF Finished, vars, TypeInv, TypeOK, receiver, control, cycle, wires,
              history
<1> QED
  BY <1>2, <1>3, <1>4, <1>5, <1>6, <1>7 DEF Cycle

\* Every step keeps the types and the order of every channel.
LEMMA TypeInvNext ==
  ASSUME TypeInv, [Next]_vars
  PROVE  TypeInv'
<1>1. ASSUME NEW p \in Rank, NEW d \in Rank, Push(p, d) PROVE TypeInv'
  BY <1>1, PushTypes
<1>2. ASSUME NEW p \in Rank, NEW d \in Rank, Network(p, d) PROVE TypeInv'
  BY <1>2, NetworkTypes
<1>3. ASSUME NEW p \in Rank, Advance(p) PROVE TypeInv'
  BY <1>3, AdvanceTypes
<1>4. ASSUME NEW p \in Rank, Pull(p) PROVE TypeInv'
  BY <1>4, PullTypes
<1>5. CASE \/ \E p \in Rank : Finish(p) \/ Cycle(p)
           \/ ResetBarrier \/ SetupReduction \/ Finished
  BY <1>5, CycleTypes
<1>6. CASE UNCHANGED vars
  BY <1>6 DEF vars, TypeInv, TypeOK, receiver, control, cycle, wires, history
<1> QED
  BY <1>1, <1>2, <1>3, <1>4, <1>5, <1>6 DEF Next

LEMMA TypeInvAlways == Spec => []TypeInv
<1>1. Init => TypeInv
  BY TypeInvInit
<1>2. TypeInv /\ [Next]_vars => TypeInv'
  BY TypeInvNext
<1> QED
  BY <1>1, <1>2, PTL DEF Spec

\* Every variable has its type in every reachable state.
THEOREM TypeCorrect == Spec => []TypeOK
<1>1. TypeInv => TypeOK
  BY DEF TypeInv
<1> QED
  BY <1>1, TypeInvAlways, PTL

\* porter_impl.h: "By definition, produced >= emitted >= delivered", and the
\* ring of send buffers is never overrun, for every multiplicity and option.
THEOREM ChannelOrderHolds == Spec => []ChannelOrder
<1>1. ASSUME TypeInv PROVE ChannelOrder
  <2> SUFFICES ASSUME NEW p \in Rank, NEW d \in Rank
               PROVE  LET c == chan[p][d] IN
                        /\ c.produced >= c.emitted /\ c.emitted >= c.delivered
                        /\ c.produced <= c.delivered + Multiplicity
                        /\ c.open => c.produced < c.delivered + Multiplicity
    BY DEF ChannelOrder
  <2>1. ChanOK(chan[p][d]) /\ chan[p][d] \in Channel
    BY <1>1 DEF TypeInv, ChansOK, ChanOK
  <2> QED
    BY <2>1, FieldTypes DEF ChanOK
<1> QED
  BY <1>1, TypeInvAlways, PTL

-----------------------------------------------------------------------------
(* The levels of a ring *)

\* A buffer number is its generation times the multiplicity plus its level.
LEMMA LevelPlace ==
  ASSUME NEW n \in Nat
  PROVE  /\ n \div Multiplicity \in Nat
         /\ LevelOf(n) \in Nat /\ LevelOf(n) < Multiplicity
         /\ n = Multiplicity * (n \div Multiplicity) + LevelOf(n)
BY MultiplicityAssumption DEF LevelOf

\* Two buffers on one level are whole turns of the ring apart.
LEMMA LevelGap ==
  ASSUME NEW n \in Nat, NEW k \in Nat, n < k, LevelOf(n) = LevelOf(k)
  PROVE  n + Multiplicity <= k /\ n \div Multiplicity + 1 <= k \div Multiplicity
<1>1. \A M, a, b, l \in Nat : M * a + l < M * b + l => a < b
  OBVIOUS
<1>2. \A M, a, b, l \in Nat : a + 1 <= b => M * a + l + M <= M * b + l
  OBVIOUS
<1> DEFINE a == n \div Multiplicity
           b == k \div Multiplicity
           l == LevelOf(n)
<1>3. /\ a \in Nat /\ b \in Nat /\ l \in Nat /\ Multiplicity \in Nat
      /\ n = Multiplicity * a + l /\ k = Multiplicity * b + l
  BY LevelPlace, MultiplicityAssumption
<1> HIDE DEF a, b, l
<1>4. a < b
  BY <1>1, <1>3
<1>5. a + 1 <= b
  BY <1>3, <1>4
<1>6. n + Multiplicity <= k
  BY <1>2, <1>3, <1>5
<1> QED
  BY <1>5, <1>6 DEF a, b

\* One turn back is the same level, one generation earlier.
LEMMA LevelBack ==
  ASSUME NEW n \in Nat, Multiplicity <= n
  PROVE  /\ n - Multiplicity \in Nat
         /\ LevelOf(n - Multiplicity) = LevelOf(n)
         /\ (n - Multiplicity) \div Multiplicity + 1 = n \div Multiplicity
<1>1. \A M \in Nat \ {0} : \A m \in Nat : (m + M) \div M = m \div M + 1
  OBVIOUS
<1>2. \A M, a \in Nat : M * (a + 1) = M * a + M
  OBVIOUS
<1> DEFINE m == n - Multiplicity
<1>3. m \in Nat /\ n = m + Multiplicity
  BY MultiplicityAssumption
<1> HIDE DEF m
<1>4. m \div Multiplicity + 1 = n \div Multiplicity
  BY <1>1, <1>3, MultiplicityAssumption
<1> DEFINE a == m \div Multiplicity
           b == n \div Multiplicity
<1>5. a \in Nat /\ b = a + 1
  BY <1>3, <1>4, LevelPlace
<1>6. Multiplicity * (a + 1) = Multiplicity * a + Multiplicity
  BY <1>2, <1>5, MultiplicityAssumption
<1>7. LevelOf(m) \in Nat /\ m = Multiplicity * a + LevelOf(m)
  BY <1>3, LevelPlace
<1>8. LevelOf(n) \in Nat /\ n = Multiplicity * b + LevelOf(n)
  BY LevelPlace
<1> HIDE DEF a, b
<1>9. LevelOf(m) = LevelOf(n)
  BY <1>3, <1>5, <1>6, <1>7, <1>8, MultiplicityAssumption
<1> QED
  BY <1>3, <1>4, <1>9 DEF m

-----------------------------------------------------------------------------
(* The flow control of one link *)

Ack == [level : Level, value : Nat]

\* Buffers in flight have been emitted; a nonblocking put of one that is
\* delivered has arrived.
InFlight(c, P) ==
  \A m \in P : m.n < c.emitted /\ (Nonblocking => c.delivered <= m.n)

\* A nonblocking porter owes a signal only for buffers not known as delivered.
Recording(c) ==
  /\ ~Nonblocking => c.inflight = 0 /\ c.delivered = c.emitted
  /\ c.inflight # 0 => /\ c.delivered < c.emitted
                       /\ 2 * c.emitted <= c.inflight + 2
                       /\ c.inflight <= 2 * c.emitted + 1

\* The value of a signal for buffer n lies between 2n and 2n+3.  Signals on
\* their way are newer than the one received, and no two are for one buffer.
Signalled(c, S, rcv) ==
  /\ rcv <= 2 * c.delivered + 1
  /\ \A x \in S : /\ x.n < c.delivered /\ rcv <= 2 * x.n + 1
                  /\ 2 * x.n <= x.value /\ x.value <= 2 * x.n + 3
  /\ \A x, y \in S : (Nonblocking \/ x.n = y.n) => x = y

\* A level is acknowledged as often as the receiver has disposed of it, an
\* acknowledgement on its way is the next one, and no buffer is emitted before
\* the last one on its level was acknowledged.
Acked(c, cons, A, D) ==
  /\ \A n \in Nat : n < c.emitted => n \div Multiplicity <= cons[LevelOf(n)]
  /\ \A n \in Nat : D <= n => cons[LevelOf(n)] <= n \div Multiplicity
  /\ \A a \in A : a.value = cons[a.level] + 1
  /\ \A a \in A, n \in Nat :
       D <= n /\ LevelOf(n) = a.level => a.value <= n \div Multiplicity

\* What relates the two ends of a link and the wires between them: c is the
\* channel of the sender, cons what it was told of the levels, P, S and A the
\* puts, signals and acknowledgements on their way, rcv the last signal that
\* the receiver got and D the number of buffers it has disposed of.
Flow(c, cons, P, S, A, rcv, D) ==
  /\ InFlight(c, P) /\ Recording(c) /\ Signalled(c, S, rcv)
  /\ Acked(c, cons, A, D) /\ D <= rcv \div 2

\* The types of the parameters.
FlowTypes(c, cons, P, S, A, rcv, D) ==
  /\ ChanOK(c) /\ cons \in [Level -> Nat]
  /\ P \subseteq Data /\ S \subseteq Signal /\ A \subseteq Ack
  /\ rcv \in Nat /\ D \in Nat

\* Flow reads three fields of the channel.
LEMMA FlowSame ==
  ASSUME NEW c, NEW b, NEW cons, NEW P, NEW S, NEW A, NEW rcv, NEW D,
         Flow(c, cons, P, S, A, rcv, D),
         b.emitted = c.emitted, b.delivered = c.delivered,
         b.inflight = c.inflight
  PROVE  Flow(b, cons, P, S, A, rcv, D)
BY DEF Flow, InFlight, Recording, Signalled, Acked

\* A link on which nothing has happened.
LEMMA FlowNew ==
  ASSUME NEW c, c.emitted = 0, c.delivered = 0, c.inflight = 0
  PROVE  Flow(c, [l \in Level |-> 0], {}, {}, {}, 0, 0)
<1>1. \A n \in Nat : LevelOf(n) \in Level /\ n \div Multiplicity \in Nat
  BY LevelType, LevelPlace
<1>2. Acked(c, [l \in Level |-> 0], {}, 0)
  BY <1>1 DEF Acked
<1>3. InFlight(c, {}) /\ Recording(c) /\ Signalled(c, {}, 0)
  BY DEF InFlight, Recording, Signalled
<1> QED
  BY <1>2, <1>3 DEF Flow

\* What nonblock_progress() does to a channel, and to its signals.
Recording1(c, force) ==
  IF force /\ c.inflight # 0 THEN [Recorded(c, c.emitted) EXCEPT !.inflight = 0]
  ELSE c
Told1(c, S, force) ==
  S \cup IF force /\ c.inflight # 0
         THEN {[n |-> c.emitted-1, value |-> c.inflight]} ELSE {}

LEMMA FlowProgress ==
  ASSUME NEW c, NEW cons, NEW P, NEW S, NEW A, NEW rcv, NEW D,
         FlowTypes(c, cons, P, S, A, rcv, D), Flow(c, cons, P, S, A, rcv, D),
         NEW force \in BOOLEAN, force => P = {} /\ S = {}
  PROVE  Flow(Recording1(c, force), cons, P, Told1(c, S, force), A, rcv, D)
<1> DEFINE b == Recording1(c, force)
           T == Told1(c, S, force)
<1>1. /\ c \in Channel /\ c.emitted \in Nat /\ c.delivered \in Nat
      /\ c.inflight \in Nat
  BY FieldTypes DEF FlowTypes, ChanOK
<1>2. CASE ~(force /\ c.inflight # 0)
  <2>1. b = c /\ T = S
    BY <1>2 DEF Recording1, Told1
  <2> QED
    BY <2>1
<1>3. CASE force /\ c.inflight # 0
  <2>1. /\ b.emitted = c.emitted /\ b.delivered = c.emitted /\ b.inflight = 0
    BY <1>1, <1>3 DEF Recording1, Recorded, Channel
  <2>2. T = {[n |-> c.emitted-1, value |-> c.inflight]} /\ P = {}
    BY <1>3 DEF Told1
  <2> HIDE DEF b, T
  <2>3. InFlight(b, P)
    BY <2>2 DEF InFlight
  <2>4. Recording(b)
    BY <2>1 DEF Recording
  <2>5. Signalled(b, T, rcv)
    <3>1. /\ c.delivered < c.emitted /\ 2 * c.emitted <= c.inflight + 2
          /\ c.inflight <= 2 * c.emitted + 1
          /\ rcv <= 2 * c.delivered + 1 /\ rcv \in Nat
      BY <1>3 DEF Flow, Recording, Signalled, FlowTypes
    <3> QED
      BY <1>1, <2>1, <2>2, <3>1 DEF Signalled
  <2>6. Acked(b, cons, A, D)
    BY <2>1 DEF Flow, Acked
  <2> QED
    BY <2>3, <2>4, <2>5, <2>6 DEF Flow, b, T
<1> QED
  BY <1>2, <1>3

\* Buffers are sent on levels that were acknowledged.
LEMMA FlowSend ==
  ASSUME NEW c, NEW cons, NEW P, NEW S, NEW A, NEW rcv, NEW D,
         FlowTypes(c, cons, P, S, A, rcv, D), Flow(c, cons, P, S, A, rcv, D),
         NEW final \in BOOLEAN, NEW e \in c.emitted .. c.produced,
         \A n \in c.emitted .. e-1 : n \div Multiplicity <= cons[LevelOf(n)]
  PROVE  Flow(Sent(c, e, final), cons, P \cup DataPuts(c, e),
              S \cup SignalPuts(c, e, final), A, rcv, D)
<1> DEFINE b == Sent(c, e, final)
           Q == P \cup DataPuts(c, e)
           T == S \cup SignalPuts(c, e, final)
<1>1. /\ c \in Channel /\ c.emitted \in Nat /\ c.delivered \in Nat
      /\ c.inflight \in Nat /\ c.produced \in Nat /\ e \in Nat
      /\ c.delivered <= c.emitted /\ c.emitted <= e /\ rcv \in Nat
  BY FieldTypes DEF FlowTypes, ChanOK
<1>2. P \subseteq Data /\ S \subseteq Signal
  BY DEF FlowTypes
<1>3. CASE e = c.emitted
  <2>1. b = c
    BY <1>3 DEF Sent
  <2>2. c.emitted .. e-1 = {}
    BY <1>1, <1>3
  <2>3. DataPuts(c, e) = {}
    BY <2>2 DEF DataPuts
  <2>4. SignalPuts(c, e, final) = {}
    BY <2>2 DEF SignalPuts
  <2> QED
    BY <2>1, <2>3, <2>4
<1>4. CASE e # c.emitted
  <2>0. c.emitted < e
    BY <1>1, <1>4
  <2>1. \A m \in Q : m.n < e /\ (m \in P \/ c.emitted <= m.n)
    <3>1. \A m \in DataPuts(c, e) : m.n \in c.emitted .. e-1
      BY DEF DataPuts
    <3>2. \A m \in P : m.n < c.emitted /\ m.n \in Nat
      BY <1>2 DEF Flow, InFlight, Data
    <3> QED
      BY <1>1, <3>1, <3>2
  <2>2. Acked(b, cons, A, D) <=> Acked([emitted |-> e], cons, A, D)
    <3>1. b.emitted = e
      BY SentOK DEF FlowTypes
    <3> QED
      BY <3>1 DEF Acked
  <2>3. Acked([emitted |-> e], cons, A, D)
    <3>1. \A n \in Nat : n < e => n \div Multiplicity <= cons[LevelOf(n)]
      BY <1>1 DEF Flow, Acked
    <3> QED
      BY <3>1 DEF Flow, Acked
  <2>4. CASE Nonblocking
    <3> DEFINE sig == SignalFor(e-1, c.bufs[LevelOf(e-1)], final)
    <3>1. sig \in Nat /\ 2 * e <= sig + 2 /\ sig <= 2 * e + 1
      BY <1>1, <2>0 DEF SignalFor
    <3>2. b = [c EXCEPT !.inflight = sig, !.emitted = e]
      BY <1>1, <1>4, <2>4 DEF Sent, Channel
    <3> HIDE DEF sig
    <3>3. /\ b.emitted = e /\ b.delivered = c.delivered /\ b.inflight = sig
      BY <1>1, <3>2 DEF Channel
    <3>4. T = S
      BY <2>4 DEF SignalPuts
    <3> HIDE DEF b, Q, T
    <3>5. InFlight(b, Q)
      <4>1. \A m \in P : c.delivered <= m.n
        BY <2>4 DEF Flow, InFlight
      <4>2. \A m \in Q : m \in P \/ c.delivered <= m.n
        <5>1. \A m \in Q : m \in P \/ m \in DataPuts(c, e)
          BY DEF Q
        <5>2. \A m \in DataPuts(c, e) : m.n \in c.emitted .. e-1
          BY DEF DataPuts
        <5> QED
          BY <1>1, <5>1, <5>2
      <4> QED
        BY <2>1, <3>3, <4>1, <4>2 DEF InFlight
    <3>6. Recording(b)
      BY <1>1, <2>0, <2>4, <3>1, <3>3 DEF Recording
    <3>7. Signalled(b, T, rcv)
      BY <3>3, <3>4 DEF Flow, Signalled
    <3> QED
      BY <2>2, <2>3, <3>5, <3>6, <3>7 DEF Flow, b, Q, T
  <2>5. CASE ~Nonblocking
    <3>0. c.delivered = c.emitted /\ c.inflight = 0
      BY <2>5 DEF Flow, Recording
    <3>1. Arrived(c, e) = e
      BY <1>1, <2>5, <3>0 DEF Arrived
    <3>2. b = [c EXCEPT !.delivered = e, !.waiting = 0, !.emitted = e]
      BY <1>1, <1>4, <2>5, <3>1 DEF Sent, Recorded, Channel
    <3>3. b.emitted = e /\ b.delivered = e /\ b.inflight = 0
      BY <1>1, <3>0, <3>2 DEF Channel
    <3>4. \A x \in SignalPuts(c, e, final) :
            /\ x.n \in c.emitted .. e-1
            /\ 2 * x.n <= x.value /\ x.value <= 2 * x.n + 3
      <4>1. SignalPuts(c, e, final) =
              {[n |-> n, value |-> SignalFor(n, c.bufs[LevelOf(n)],
                                             final /\ n = e-1)] :
                 n \in c.emitted .. e-1}
        BY <2>5 DEF SignalPuts
      <4>2. \A n \in c.emitted .. e-1 :
              LET v == SignalFor(n, c.bufs[LevelOf(n)], final /\ n = e-1)
              IN  2 * n <= v /\ v <= 2 * n + 3
        BY <1>1 DEF SignalFor
      <4> QED
        BY <4>1, <4>2
    <3>5. \A x, y \in SignalPuts(c, e, final) : x.n = y.n => x = y
      BY <2>5 DEF SignalPuts
    <3>6. \A x \in T : x \in S \/ x \in SignalPuts(c, e, final)
      OBVIOUS
    <3>7. \A x \in S : /\ x.n \in Nat /\ x.n < c.emitted /\ rcv <= 2 * x.n + 1
                       /\ 2 * x.n <= x.value /\ x.value <= 2 * x.n + 3
      BY <1>2, <3>0 DEF Flow, Signalled, Signal
    <3>8. rcv <= 2 * c.emitted + 1
      BY <3>0 DEF Flow, Signalled
    <3> HIDE DEF b, Q, T
    <3>9. InFlight(b, Q)
      BY <2>1, <2>5, <3>3 DEF InFlight
    <3>10. Recording(b)
      BY <3>3 DEF Recording
    <3>11. Signalled(b, T, rcv)
      <4>1. rcv <= 2 * e + 1
        BY <1>1, <3>8
      <4>2. \A x \in T : /\ x.n < e /\ rcv <= 2 * x.n + 1
                         /\ 2 * x.n <= x.value /\ x.value <= 2 * x.n + 3
        BY <1>1, <3>4, <3>6, <3>7, <3>8
      <4>3. \A x, y \in T : x.n = y.n => x = y
        <5>1. \A x, y \in S : x.n = y.n => x = y
          BY DEF Flow, Signalled
        <5>2. \A x \in S, y \in SignalPuts(c, e, final) : x.n # y.n
          BY <1>1, <3>4, <3>7
        <5> QED
          BY <3>5, <3>6, <5>1, <5>2
      <4> QED
        BY <2>5, <3>3, <4>1, <4>2, <4>3 DEF Signalled
    <3> QED
      BY <2>2, <2>3, <3>9, <3>10, <3>11 DEF Flow, b, Q, T
  <2> QED
    BY <2>4, <2>5
<1> QED
  BY <1>3, <1>4

\* A put reaches its target.
LEMMA FlowData ==
  ASSUME NEW c, NEW cons, NEW P, NEW S, NEW A, NEW rcv, NEW D,
         Flow(c, cons, P, S, A, rcv, D), NEW m \in P
  PROVE  Flow(c, cons, P \ {m}, S, A, rcv, D)
BY DEF Flow, InFlight

\* A signal reaches its target, in the order the fences leave.
LEMMA FlowSignal ==
  ASSUME NEW c, NEW cons, NEW P, NEW S, NEW A, NEW rcv, NEW D,
         FlowTypes(c, cons, P, S, A, rcv, D), Flow(c, cons, P, S, A, rcv, D),
         NEW m \in S, Nonblocking \/ \A x \in S : m.n <= x.n
  PROVE  /\ Flow(c, cons, P, S \ {m}, A, m.value, D)
         /\ rcv \div 2 <= m.value \div 2
<1>1. S \subseteq Signal /\ rcv \in Nat /\ D \in Nat /\ c.delivered \in Nat
  BY FieldTypes DEF FlowTypes, ChanOK
<1>2. \A x \in S : /\ x.n \in Nat /\ x.value \in Nat
                   /\ x.n < c.delivered /\ rcv <= 2 * x.n + 1
                   /\ 2 * x.n <= x.value /\ x.value <= 2 * x.n + 3
  BY <1>1 DEF Flow, Signalled, Signal
<1>3. m.n \in Nat /\ m.value \in Nat
  BY <1>2
<1>4. rcv \div 2 <= m.value \div 2 /\ D <= m.value \div 2
  <2>1. rcv <= 2 * m.n + 1 /\ 2 * m.n <= m.value
    BY <1>2
  <2>2. D <= rcv \div 2
    BY DEF Flow
  <2> QED
    BY <1>1, <1>3, <2>1, <2>2
<1>5. m.value <= 2 * c.delivered + 1
  <2>1. m.n < c.delivered /\ m.value <= 2 * m.n + 3
    BY <1>2
  <2> QED
    BY <1>1, <1>3, <2>1
<1>6. \A x \in S \ {m} : m.value <= 2 * x.n + 1
  <2> SUFFICES ASSUME NEW x \in S \ {m} PROVE m.value <= 2 * x.n + 1
    OBVIOUS
  <2>1. ~Nonblocking /\ x.n # m.n /\ m.n <= x.n
    BY DEF Flow, Signalled
  <2>2. x.n \in Nat /\ m.value <= 2 * m.n + 3
    BY <1>2
  <2> QED
    BY <1>3, <2>1, <2>2
<1>7. Signalled(c, S \ {m}, m.value)
  BY <1>2, <1>5, <1>6 DEF Signalled, Flow
<1> QED
  BY <1>4, <1>7 DEF Flow

\* An acknowledgement reaches the sender, in any order.
LEMMA FlowAck ==
  ASSUME NEW c, NEW cons, NEW P, NEW S, NEW A, NEW rcv, NEW D,
         FlowTypes(c, cons, P, S, A, rcv, D), Flow(c, cons, P, S, A, rcv, D),
         NEW a \in A
  PROVE  Flow(c, [cons EXCEPT ![a.level] = a.value], P, S, A \ {a}, rcv, D)
<1> DEFINE k == [cons EXCEPT ![a.level] = a.value]
<1>1. /\ A \subseteq Ack /\ cons \in [Level -> Nat] /\ D \in Nat
      /\ c.emitted \in Nat
  BY FieldTypes DEF FlowTypes, ChanOK
<1>2. a.level \in Level /\ a.value \in Nat
  BY <1>1 DEF Ack
<1>3. a.value = cons[a.level] + 1
  BY DEF Flow, Acked
<1>4. /\ k[a.level] = a.value
      /\ \A l \in Level : l # a.level => k[l] = cons[l]
  BY <1>1, <1>2
<1> HIDE DEF k
<1>5. ASSUME NEW n \in Nat, n < c.emitted
      PROVE  n \div Multiplicity <= k[LevelOf(n)]
  <2>1. LevelOf(n) \in Level /\ n \div Multiplicity \in Nat
    BY LevelType, LevelPlace
  <2>2. n \div Multiplicity <= cons[LevelOf(n)] /\ cons[LevelOf(n)] \in Nat
    BY <1>1, <1>5, <2>1 DEF Flow, Acked
  <2>3. CASE LevelOf(n) = a.level
    BY <1>2, <1>3, <1>4, <2>1, <2>2, <2>3
  <2>4. CASE LevelOf(n) # a.level
    BY <1>4, <2>1, <2>2, <2>4
  <2> QED
    BY <2>3, <2>4
<1>6. ASSUME NEW n \in Nat, D <= n
      PROVE  k[LevelOf(n)] <= n \div Multiplicity
  <2>1. LevelOf(n) \in Level
    BY LevelType
  <2>2. CASE LevelOf(n) = a.level
    BY <1>4, <1>6, <2>2 DEF Flow, Acked
  <2>3. CASE LevelOf(n) # a.level
    BY <1>4, <1>6, <2>1, <2>3 DEF Flow, Acked
  <2> QED
    BY <2>2, <2>3
<1>7. \A b \in A \ {a} : b.level # a.level
  <2> SUFFICES ASSUME NEW b \in A \ {a}, b.level = a.level PROVE FALSE
    OBVIOUS
  <2>1. b.value = a.value
    BY DEF Flow, Acked
  <2>2. b \in Ack /\ a \in Ack
    BY <1>1
  <2> QED
    BY <2>1, <2>2 DEF Ack
<1>8. \A b \in A \ {a} : b.value = k[b.level] + 1
  <2>1. \A b \in A : b.level \in Level /\ b.value = cons[b.level] + 1
    BY <1>1 DEF Flow, Acked, Ack
  <2> QED
    BY <1>4, <1>7, <2>1
<1>9. \A b \in A \ {a}, n \in Nat :
        D <= n /\ LevelOf(n) = b.level => b.value <= n \div Multiplicity
  BY DEF Flow, Acked
<1>10. Acked(c, k, A \ {a}, D)
  BY <1>5, <1>6, <1>8, <1>9 DEF Acked
<1> QED
  BY <1>10 DEF Flow, k

\* The receiver disposes of a buffer that was signalled, and acknowledges it.
LEMMA FlowReturn ==
  ASSUME NEW c, NEW cons, NEW P, NEW S, NEW A, NEW rcv, NEW D,
         FlowTypes(c, cons, P, S, A, rcv, D), Flow(c, cons, P, S, A, rcv, D),
         D < rcv \div 2
  PROVE  Flow(c, cons, P, S, A \cup {AckFor(D)}, rcv, D + 1)
<1> DEFINE a == AckFor(D)
           B == A \cup {a}
<1>1. /\ A \subseteq Ack /\ cons \in [Level -> Nat] /\ D \in Nat
      /\ c.emitted \in Nat /\ c.delivered \in Nat /\ rcv \in Nat
      /\ c.delivered <= c.emitted
  BY FieldTypes DEF FlowTypes, ChanOK
<1>2. D < c.emitted
  <2>1. rcv <= 2 * c.delivered + 1
    BY DEF Flow, Signalled
  <2> QED
    BY <1>1, <2>1
<1>3. /\ LevelOf(D) \in Level /\ D \div Multiplicity \in Nat
      /\ cons[LevelOf(D)] = D \div Multiplicity
  <2>1. LevelOf(D) \in Level /\ D \div Multiplicity \in Nat
    BY <1>1, LevelType, LevelPlace
  <2>2. D \div Multiplicity <= cons[LevelOf(D)]
    BY <1>1, <1>2 DEF Flow, Acked
  <2>3. cons[LevelOf(D)] <= D \div Multiplicity
    BY <1>1 DEF Flow, Acked
  <2>4. cons[LevelOf(D)] \in Nat
    BY <1>1, <2>1
  <2> QED
    BY <2>1, <2>2, <2>3, <2>4
<1>4. a.level = LevelOf(D) /\ a.value = D \div Multiplicity + 1
  BY DEF AckFor
<1> HIDE DEF a
<1>5. \A b \in B : b.value = cons[b.level] + 1
  BY <1>3, <1>4 DEF Flow, Acked
<1>6. ASSUME NEW n \in Nat, D + 1 <= n, LevelOf(n) = a.level
      PROVE  a.value <= n \div Multiplicity
  BY <1>1, <1>4, <1>6, LevelGap
<1>7. \A b \in B, n \in Nat :
        D + 1 <= n /\ LevelOf(n) = b.level => b.value <= n \div Multiplicity
  <2> SUFFICES ASSUME NEW b \in A, NEW n \in Nat, D + 1 <= n, LevelOf(n) = b.level
               PROVE  b.value <= n \div Multiplicity
    BY <1>6
  <2>1. D <= n
    BY <1>1
  <2> QED
    BY <2>1 DEF Flow, Acked
<1>8. \A n \in Nat : D + 1 <= n => cons[LevelOf(n)] <= n \div Multiplicity
  <2>1. \A n \in Nat : D + 1 <= n => D <= n
    BY <1>1
  <2> QED
    BY <2>1 DEF Flow, Acked
<1>9. Acked(c, cons, B, D + 1)
  BY <1>5, <1>7, <1>8 DEF Flow, Acked
<1>10. D + 1 <= rcv \div 2
  BY <1>1
<1> QED
  BY <1>9, <1>10 DEF Flow, B, a

\* The receiver's ring is not overrun: what was emitted and not disposed of
\* fits in it.
LEMMA FlowRing ==
  ASSUME NEW c, NEW cons, NEW P, NEW S, NEW A, NEW rcv, NEW D,
         FlowTypes(c, cons, P, S, A, rcv, D), Flow(c, cons, P, S, A, rcv, D)
  PROVE  c.emitted <= D + Multiplicity
<1>1. cons \in [Level -> Nat] /\ D \in Nat /\ c.emitted \in Nat
  BY FieldTypes DEF FlowTypes, ChanOK
<1> SUFFICES ASSUME D + Multiplicity < c.emitted PROVE FALSE
  BY <1>1, MultiplicityAssumption
<1> DEFINE n == D + Multiplicity
<1>2. n \in Nat /\ Multiplicity <= n /\ n - Multiplicity = D /\ n < c.emitted
  BY <1>1, MultiplicityAssumption
<1> HIDE DEF n
<1>3. LevelOf(D) = LevelOf(n) /\ D \div Multiplicity + 1 = n \div Multiplicity
  BY <1>2, LevelBack
<1>4. n \div Multiplicity <= cons[LevelOf(n)]
  BY <1>2 DEF Flow, Acked
<1>5. cons[LevelOf(D)] <= D \div Multiplicity
  BY <1>1 DEF Flow, Acked
<1>6. D \div Multiplicity \in Nat /\ cons[LevelOf(D)] \in Nat
  BY <1>1, LevelType, LevelPlace
<1> QED
  BY <1>3, <1>4, <1>5, <1>6

\* No two acknowledgements on their way are for one level.
LEMMA FlowDistinct ==
  ASSUME NEW c, NEW cons, NEW P, NEW S, NEW A, NEW rcv, NEW D,
         FlowTypes(c, cons, P, S, A, rcv, D), Flow(c, cons, P, S, A, rcv, D),
         NEW a \in A, NEW b \in A, a.level = b.level
  PROVE  a = b
<1>1. a.value = b.value
  BY DEF Flow, Acked
<1>2. a \in Ack /\ b \in Ack
  BY DEF FlowTypes
<1> QED
  BY <1>1, <1>2 DEF Ack

\* A nonblocking put reads a send buffer that is not being filled.
LEMMA FlowSource ==
  ASSUME NEW c, NEW cons, NEW P, NEW S, NEW A, NEW rcv, NEW D,
         FlowTypes(c, cons, P, S, A, rcv, D), Flow(c, cons, P, S, A, rcv, D),
         Nonblocking, NEW m \in P, c.open
  PROVE  LevelOf(m.n) # LevelOf(c.produced)
<1>1. /\ m.n \in Nat /\ c.produced \in Nat /\ c.delivered \in Nat
      /\ c.emitted \in Nat
  BY FieldTypes DEF FlowTypes, ChanOK, Data
<1>2. /\ c.delivered <= m.n /\ m.n < c.emitted /\ c.emitted <= c.produced
      /\ c.produced < c.delivered + Multiplicity
  BY DEF Flow, InFlight, FlowTypes, ChanOK
<1>3. m.n < c.produced /\ ~(m.n + Multiplicity <= c.produced)
  BY <1>1, <1>2, MultiplicityAssumption
<1> QED
  BY <1>1, <1>3, LevelGap

-----------------------------------------------------------------------------
(* The links of one PE, and porter_try_send() *)

\* What a call of porter_try_send() has done to the memory of its PE: C1 are
\* the channels after nonblock_progress(), s the channel of d after the sends.
SendEffect(p, d, C, nu, force, e) ==
  LET C1    == Progressed(C, force)
      c     == C1[d]
      final == endgame[p] /\ e = c.produced /\ e > c.emitted
      s     == [Sent(c, e, final) EXCEPT !.all_sent = @ \/ final]
  IN /\ force => Quiet(p)
     /\ \A n \in C[d].emitted .. e-1 : ready(p, d, n)
     /\ chan'[p] = [C1 EXCEPT ![d] =
                      IF Opens(p, s, final) THEN Opened(s) ELSE s]
     /\ puts'[p] = [puts[p] EXCEPT ![d] = @ \cup DataPuts(c, e)]
     /\ signals'[p] = [OwedSignals(p, C, force) EXCEPT ![d] =
                         @ \cup SignalPuts(c, e, final)]
     /\ n_urgent'[p] = nu - Crossings(C, force)
                          - (IF Crosses(c, Arrived(c, e)) THEN 1 ELSE 0)

\* A step of p that touches no channel or wire of another PE.
OnlyOf(p) ==
  /\ \A q \in Rank \ {p} : chan'[q] = chan[q] /\ puts'[q] = puts[q]
                           /\ signals'[q] = signals[q]
                           /\ n_urgent'[q] = n_urgent[q]
  /\ acks' = acks

LEMMA TrySendEffect ==
  ASSUME TypeInv, NEW p \in Rank, NEW d \in Rank, NEW C, NEW nu,
         TrySend(p, d, C, nu)
  PROVE  /\ OnlyOf(p)
         /\ \E force \in BOOLEAN : \E e \in C[d].emitted .. C[d].produced :
              SendEffect(p, d, C, nu, force, e)
<1> DEFINE force == MustForce(C[d])
           C1    == Progressed(C, force)
           c     == C1[d]
           Final(e) == endgame[p] /\ e = c.produced /\ e > c.emitted
           S(e)  == [Sent(c, e, Final(e)) EXCEPT !.all_sent = @ \/ Final(e)]
           O(e)  == IF Opens(p, S(e), Final(e)) THEN Opened(S(e)) ELSE S(e)
<1>1. force \in BOOLEAN
  BY OptionAssumption DEF MustForce
<1>2. PICK e \in C[d].emitted .. C[d].produced :
        /\ \A n \in C[d].emitted .. e-1 : ready(p, d, n)
        /\ SendUpTo(p, d, C, nu, force, e)
  BY Zenon DEF TrySend
<1>3. /\ chan' = [chan EXCEPT ![p] = [C1 EXCEPT ![d] = O(e)]]
      /\ puts' = [puts EXCEPT ![p][d] = @ \cup DataPuts(c, e)]
      /\ signals' = [signals EXCEPT ![p] =
           [OwedSignals(p, C, force) EXCEPT ![d] =
              @ \cup SignalPuts(c, e, Final(e))]]
      /\ n_urgent' = [n_urgent EXCEPT ![p] =
           nu - Crossings(C, force)
              - (IF Crosses(c, Arrived(c, e)) THEN 1 ELSE 0)]
  BY <1>2, Zenon DEF SendUpTo
<1>4. force => Quiet(p)
  BY Zenon DEF TrySend, Quieted
<1>5. acks' = acks
  BY DEF TrySend
<1>6. /\ chan \in [Rank -> [Rank -> Channel]]
      /\ puts \in [Rank -> [Rank -> SUBSET Data]]
      /\ signals \in [Rank -> [Rank -> SUBSET Signal]]
      /\ n_urgent \in [Rank -> Int]
  BY DEF TypeInv, TypeOK, Data, Signal
<1> DEFINE k == nu - Crossings(C, force)
                  - (IF Crosses(c, Arrived(c, e)) THEN 1 ELSE 0)
           pp == [puts[p] EXCEPT ![d] = @ \cup DataPuts(c, e)]
           ss == [OwedSignals(p, C, force) EXCEPT ![d] =
                    @ \cup SignalPuts(c, e, Final(e))]
           cc == [C1 EXCEPT ![d] = O(e)]
<1>7. /\ chan' = [chan EXCEPT ![p] = cc] /\ puts' = [puts EXCEPT ![p] = pp]
      /\ signals' = [signals EXCEPT ![p] = ss]
      /\ n_urgent' = [n_urgent EXCEPT ![p] = k]
  BY <1>3, <1>6
<1> HIDE DEF k, pp, ss, cc
<1>8. /\ chan'[p] = cc /\ puts'[p] = pp /\ signals'[p] = ss /\ n_urgent'[p] = k
  BY <1>6, <1>7
<1>9. OnlyOf(p)
  BY <1>5, <1>6, <1>7 DEF OnlyOf
<1>10. SendEffect(p, d, C, nu, force, e)
  BY <1>2, <1>4, <1>8, Zenon DEF SendEffect, k, pp, ss, cc
<1> QED
  BY <1>1, <1>2, <1>9, <1>10

LEMMA ProgressAllEffect ==
  ASSUME TypeInv, NEW p \in Rank, ProgressAll(p)
  PROVE  /\ OnlyOf(p)
         /\ Nonblocking => Quiet(p)
         /\ chan'[p] = Progressed(chan[p], Nonblocking)
         /\ puts'[p] = puts[p]
         /\ signals'[p] = OwedSignals(p, chan[p], Nonblocking)
         /\ n_urgent'[p] = n_urgent[p] - Crossings(chan[p], Nonblocking)
<1>1. /\ chan \in [Rank -> [Rank -> Channel]]
      /\ signals \in [Rank -> [Rank -> SUBSET Signal]]
      /\ n_urgent \in [Rank -> Int]
  BY DEF TypeInv, TypeOK, Data, Signal
<1> DEFINE k  == n_urgent[p] - Crossings(chan[p], Nonblocking)
           ss == OwedSignals(p, chan[p], Nonblocking)
           cc == Progressed(chan[p], Nonblocking)
<1>2. /\ chan' = [chan EXCEPT ![p] = cc] /\ puts' = puts /\ acks' = acks
      /\ signals' = [signals EXCEPT ![p] = ss]
      /\ n_urgent' = [n_urgent EXCEPT ![p] = k]
      /\ Nonblocking => Quiet(p)
  BY DEF ProgressAll, Quieted
<1> HIDE DEF k, ss, cc
<1>3. chan'[p] = cc /\ signals'[p] = ss /\ n_urgent'[p] = k
  BY <1>1, <1>2
<1>4. OnlyOf(p)
  BY <1>1, <1>2 DEF OnlyOf
<1> QED
  BY <1>2, <1>3, <1>4 DEF k, ss, cc

\* One channel after nonblock_progress(), and the signals of its link.
LEMMA ProgressedAt ==
  ASSUME NEW C, NEW force, NEW p, NEW d \in Rank
  PROVE  /\ Progressed(C, force)[d] = Recording1(C[d], force)
         /\ OwedSignals(p, C, force)[d] = Told1(C[d], signals[p][d], force)
         /\ Progressed(C, force) \in [Rank -> {Progressed(C, force)[x] : x \in Rank}]
<1>1. d \in Owed(C, force) <=> force /\ C[d].inflight # 0
  BY DEF Owed
<1>2. Progressed(C, force)[d] = Recording1(C[d], force)
  BY <1>1, Zenon DEF Progressed, Recording1
<1>3. OwedSignals(p, C, force)[d] = Told1(C[d], signals[p][d], force)
  BY <1>1, Zenon DEF OwedSignals, Told1
<1>4. Progressed(C, force) \in [Rank -> {Progressed(C, force)[x] : x \in Rank}]
  BY DEF Progressed
<1> QED
  BY <1>2, <1>3, <1>4

\* The two ends of the link from p to d, would the channel of p be c.
Fits(p, d, c) ==
  Flow(c, consumed[p][d], puts[p][d], signals[p][d], acks[d][p],
       received[d][p], disposed[d][p])

LEMMA LinkTypes ==
  ASSUME TypeInv, NEW p \in Rank, NEW d \in Rank, NEW c, ChanOK(c)
  PROVE  FlowTypes(c, consumed[p][d], puts[p][d], signals[p][d], acks[d][p],
                   received[d][p], disposed[d][p])
<1>1. /\ consumed \in [Rank -> [Rank -> [Level -> Nat]]]
      /\ received \in [Rank -> [Rank -> Nat]]
      /\ disposed \in [Rank -> [Rank -> Nat]]
  BY DEF TypeInv, TypeOK
<1>2. /\ puts \in [Rank -> [Rank -> SUBSET Data]]
      /\ signals \in [Rank -> [Rank -> SUBSET Signal]]
      /\ acks \in [Rank -> [Rank -> SUBSET Ack]]
  BY DEF TypeInv, TypeOK, Data, Signal, Ack
<1>3. /\ consumed[p][d] \in [Level -> Nat] /\ received[d][p] \in Nat
      /\ disposed[d][p] \in Nat
  BY <1>1
<1>4. /\ puts[p][d] \subseteq Data /\ signals[p][d] \subseteq Signal
      /\ acks[d][p] \subseteq Ack
  BY <1>2
<1> QED
  BY <1>3, <1>4 DEF FlowTypes

\* The links of p after a step of its sending side.
SendLinks(p) ==
  /\ OnlyOf(p)
  /\ \A d \in Live : Fits(p, d, chan[p][d])'
  /\ \A d \in Rank \ Live : /\ chan'[p][d] = NewChannel(d)
                            /\ puts'[p][d] = puts[p][d]
                            /\ signals'[p][d] = signals[p][d]

LEMMA LiveRank == Live \subseteq Rank
BY NAssumption

LEMMA ProgressedLinks ==
  ASSUME TypeInv, NEW p \in Rank, NEW C, ChansOK(C), NEW force \in BOOLEAN,
         force => Quiet(p), \A x \in Live : Fits(p, x, C[x]),
         \A x \in Rank \ Live : C[x] = NewChannel(x)
  PROVE  /\ \A x \in Live :
              Flow(Progressed(C, force)[x], consumed[p][x], puts[p][x],
                   OwedSignals(p, C, force)[x], acks[x][p], received[x][p],
                   disposed[x][p])
         /\ \A x \in Rank \ Live :
              /\ Progressed(C, force)[x] = NewChannel(x)
              /\ OwedSignals(p, C, force)[x] = signals[p][x]
<1>1. ASSUME NEW x \in Live
      PROVE  Flow(Progressed(C, force)[x], consumed[p][x], puts[p][x],
                  OwedSignals(p, C, force)[x], acks[x][p], received[x][p],
                  disposed[x][p])
  <2>1. x \in Rank /\ ChanOK(C[x])
    BY LiveRank DEF ChansOK
  <2>2. FlowTypes(C[x], consumed[p][x], puts[p][x], signals[p][x], acks[x][p],
                  received[x][p], disposed[x][p])
    BY <2>1, LinkTypes
  <2>3. Flow(C[x], consumed[p][x], puts[p][x], signals[p][x], acks[x][p],
             received[x][p], disposed[x][p])
    BY DEF Fits
  <2>4. force => puts[p][x] = {} /\ signals[p][x] = {}
    BY <2>1 DEF Quiet
  <2>5. Flow(Recording1(C[x], force), consumed[p][x], puts[p][x],
             Told1(C[x], signals[p][x], force), acks[x][p], received[x][p],
             disposed[x][p])
    BY <2>2, <2>3, <2>4, FlowProgress
  <2> QED
    BY <2>1, <2>5, ProgressedAt
<1>2. ASSUME NEW x \in Rank \ Live
      PROVE  /\ Progressed(C, force)[x] = NewChannel(x)
             /\ OwedSignals(p, C, force)[x] = signals[p][x]
  <2>1. C[x] = NewChannel(x) /\ NewChannel(x).inflight = 0
    BY DEF NewChannel
  <2>2. /\ Recording1(C[x], force) = NewChannel(x)
        /\ Told1(C[x], signals[p][x], force) = signals[p][x]
    BY <2>1 DEF Recording1, Told1
  <2> QED
    BY <2>2, ProgressedAt
<1> QED
  BY <1>1, <1>2

LEMMA TrySendLinks ==
  ASSUME TypeInv, NEW p \in Rank, NEW d \in Live, NEW C, ChansOK(C), NEW nu,
         TrySend(p, d, C, nu), UNCHANGED <<consumed, received, disposed>>,
         \A x \in Live : Fits(p, x, C[x]),
         \A x \in Rank \ Live : C[x] = NewChannel(x)
  PROVE  SendLinks(p)
<1>1. d \in Rank
  BY LiveRank
<1>2. OnlyOf(p)
  BY <1>1, TrySendEffect
<1>3. PICK force \in BOOLEAN, e \in C[d].emitted .. C[d].produced :
        SendEffect(p, d, C, nu, force, e)
  BY <1>1, TrySendEffect
<1> DEFINE C1    == Progressed(C, force)
           c     == C1[d]
           final == endgame[p] /\ e = c.produced /\ e > c.emitted
           t     == Sent(c, e, final)
           s     == [t EXCEPT !.all_sent = @ \/ final]
           o     == IF Opens(p, s, final) THEN Opened(s) ELSE s
           T     == OwedSignals(p, C, force)
<1>4. /\ force => Quiet(p)
      /\ \A n \in C[d].emitted .. e-1 : ready(p, d, n)
      /\ chan'[p] = [C1 EXCEPT ![d] = o]
      /\ puts'[p] = [puts[p] EXCEPT ![d] = @ \cup DataPuts(c, e)]
      /\ signals'[p] = [T EXCEPT ![d] = @ \cup SignalPuts(c, e, final)]
  BY <1>3, Zenon DEF SendEffect
<1>5. /\ ChansOK(C1) /\ c.emitted = C[d].emitted /\ c.produced = C[d].produced
  BY <1>1, ProgressedOK
<1>6. ChanOK(c) /\ c \in Channel
  BY <1>1, <1>5 DEF ChansOK
<1>7. /\ \A x \in Live :
           Flow(C1[x], consumed[p][x], puts[p][x], T[x], acks[x][p],
                received[x][p], disposed[x][p])
      /\ \A x \in Rank \ Live : C1[x] = NewChannel(x) /\ T[x] = signals[p][x]
  BY <1>4, ProgressedLinks
<1>8. T \in [Rank -> SUBSET Signal] /\ puts[p] \in [Rank -> SUBSET Data]
  <2>1. puts \in [Rank -> [Rank -> SUBSET Data]]
    BY DEF TypeInv, TypeOK, Data
  <2> QED
    BY <2>1, OwedSignalsType DEF TypeInv
<1>9. C1 \in [Rank -> Channel]
  BY <1>5 DEF ChansOK
<1>10. e \in c.emitted .. c.produced /\ final \in BOOLEAN
  BY <1>5
<1>11. \A n \in c.emitted .. e-1 :
         n \div Multiplicity <= consumed[p][d][LevelOf(n)]
  <2> SUFFICES ASSUME NEW n \in c.emitted .. e-1
               PROVE  n \div Multiplicity <= consumed[p][d][LevelOf(n)]
    OBVIOUS
  <2>1. ready(p, d, n)
    BY <1>4, <1>5
  <2>2. n \in Nat
    BY <1>6, FieldTypes
  <2>3. n \div Multiplicity \in Nat /\ LevelOf(n) \in Level
    BY <2>2, LevelType, LevelPlace
  <2>4. consumed[p][d] \in [Level -> Nat]
    BY <1>1 DEF TypeInv, TypeOK
  <2> QED
    BY <2>1, <2>3, <2>4 DEF ready
<1>12. FlowTypes(c, consumed[p][d], puts[p][d], T[d], acks[d][p],
                 received[d][p], disposed[d][p])
  <2>1. FlowTypes(c, consumed[p][d], puts[p][d], signals[p][d], acks[d][p],
                  received[d][p], disposed[d][p])
    BY <1>1, <1>6, LinkTypes
  <2> QED
    BY <1>1, <1>8, <2>1 DEF FlowTypes
<1>13. ChanOK(t) /\ t \in Channel
  <2>1. ChanOK(t)
    BY <1>6, <1>10, SentOK
  <2> QED
    BY <2>1 DEF ChanOK
<1>14. Flow(t, consumed[p][d], puts[p][d] \cup DataPuts(c, e),
            T[d] \cup SignalPuts(c, e, final), acks[d][p], received[d][p],
            disposed[d][p])
  <2>1. Flow(c, consumed[p][d], puts[p][d], T[d], acks[d][p],
                received[d][p], disposed[d][p])
    BY <1>7
  <2> HIDE DEF final, c
  <2> QED
    BY <1>10, <1>11, <1>12, <2>1, FlowSend
<1>15. /\ o.emitted = t.emitted /\ o.delivered = t.delivered
       /\ o.inflight = t.inflight
  <2> HIDE DEF t, final
  <2>1. /\ s.emitted = t.emitted /\ s.delivered = t.delivered
        /\ s.inflight = t.inflight /\ s \in Channel
    BY <1>10, <1>13 DEF Channel
  <2> HIDE DEF s
  <2>2. /\ Opened(s).emitted = s.emitted /\ Opened(s).delivered = s.delivered
        /\ Opened(s).inflight = s.inflight
    BY <2>1 DEF Opened, Channel
  <2> QED
    BY <2>1, <2>2
<1> HIDE DEF o, final, c, T
<1>16. /\ chan'[p][d] = o /\ puts'[p][d] = puts[p][d] \cup DataPuts(c, e)
       /\ signals'[p][d] = T[d] \cup SignalPuts(c, e, final)
       /\ \A x \in Rank \ {d} : /\ chan'[p][x] = C1[x]
                                /\ puts'[p][x] = puts[p][x]
                                /\ signals'[p][x] = T[x]
  BY <1>1, <1>4, <1>8, <1>9
<1>17. Fits(p, d, chan[p][d])'
  <2>1. Flow(o, consumed[p][d], puts'[p][d], signals'[p][d], acks[d][p],
             received[d][p], disposed[d][p])
    BY <1>14, <1>15, <1>16, FlowSame
  <2> QED
    BY <1>2, <1>16, <2>1 DEF Fits, OnlyOf
<1>18. ASSUME NEW x \in Live, x # d PROVE Fits(p, x, chan[p][x])'
  <2>1. x \in Rank \ {d}
    BY <1>18, LiveRank
  <2> QED
    BY <1>2, <1>7, <1>16, <2>1 DEF Fits, OnlyOf
<1>19. ASSUME NEW x \in Rank \ Live
       PROVE  /\ chan'[p][x] = NewChannel(x) /\ puts'[p][x] = puts[p][x]
              /\ signals'[p][x] = signals[p][x]
  <2>1. x \in Rank \ {d}
    OBVIOUS
  <2> QED
    BY <1>7, <1>16, <2>1
<1> QED
  BY <1>2, <1>17, <1>18, <1>19 DEF SendLinks

LEMMA ProgressAllLinks ==
  ASSUME TypeInv, NEW p \in Rank, ProgressAll(p),
         UNCHANGED <<consumed, received, disposed>>,
         \A x \in Live : Fits(p, x, chan[p][x]),
         \A x \in Rank \ Live : chan[p][x] = NewChannel(x)
  PROVE  SendLinks(p)
<1>1. /\ OnlyOf(p) /\ (Nonblocking => Quiet(p))
      /\ chan'[p] = Progressed(chan[p], Nonblocking) /\ puts'[p] = puts[p]
      /\ signals'[p] = OwedSignals(p, chan[p], Nonblocking)
  BY ProgressAllEffect
<1>2. ChansOK(chan[p]) /\ Nonblocking \in BOOLEAN
  BY OptionAssumption DEF TypeInv
<1>3. \A x \in Live :
        Flow(chan'[p][x], consumed[p][x], puts[p][x], signals'[p][x],
             acks[x][p], received[x][p], disposed[x][p])
  BY <1>1, <1>2, ProgressedLinks
<1>4. \A x \in Rank \ Live : chan'[p][x] = NewChannel(x)
                             /\ signals'[p][x] = signals[p][x]
  BY <1>1, <1>2, ProgressedLinks
<1>5. \A x \in Live : Fits(p, x, chan[p][x])'
  BY <1>1, <1>3 DEF Fits, OnlyOf
<1> QED
  BY <1>1, <1>4, <1>5 DEF SendLinks

-----------------------------------------------------------------------------
(* The group *)

\* PE p stands between the barrier of a reset and the end of a setup.
Apart(p) == stage[p] \in {"dormant", "set"}

\* Nothing is on its way from p to d.
Calm(p, d) == puts[p][d] = {} /\ signals[p][d] = {} /\ acks[p][d] = {}

\* What putp_setup() makes of the memory of p.
Blank(p) ==
  /\ \A d \in Rank : /\ chan[p][d] = NewChannel(d)
                     /\ consumed[p][d] = [l \in Level |-> 0]
                     /\ received[p][d] = FirstReceived(d)
                     /\ disposed[p][d] = 0

\* porter_advance() runs between setup and reset, and all the PEs pass the
\* barrier and the reduction together.
StageInv ==
  /\ \A p \in Rank : pc[p] # "idle" => p \in Live /\ stage[p] = "working"
  /\ \A p, d \in Live : Apart(p) <=> Apart(d)

\* The wires to and from a PE that is not between setup and reset are empty.
WireInv == \A p, d \in Rank :
  (p \notin Live \/ d \notin Live \/ Apart(p) \/ Apart(d)) => Calm(p, d)

\* A PE that waits in porter_setup() is as good as new, and so is for ever the
\* memory of a rank that stands for no PE.
BlankInv == \A p \in Rank : p \notin Live \/ stage[p] = "set" => Blank(p)

\* A link to such a rank is never used.
GhostInv == \A p \in Rank :
  /\ todo[p] \subseteq Live
  /\ \A d \in Rank \ Live : /\ chan[p][d] = NewChannel(d)
                            /\ received[p][d] = 1 /\ disposed[p][d] = 0

\* A source is listed only while it has a buffer to consume.
ListInv == \A r \in Rank :
  /\ \A s \in pending[r] \cup stuck[r] : disposed[r][s] < received[r][s] \div 2
  /\ pending[r] \cap stuck[r] = {}
  /\ taken[r] # None => taken[r] \in pending[r]

LinkInv == \A p, d \in Live : SameRound(p, d) => Fits(p, d, chan[p][d])

FlowInv == StageInv /\ WireInv /\ BlankInv /\ GhostInv /\ ListInv /\ LinkInv

\* Between setup and reset every PE is in the same round as the others.
LEMMA WorkingTogether ==
  ASSUME StageInv, NEW p \in Live, stage[p] = "working", NEW d \in Live
  PROVE  SameRound(p, d) /\ SameRound(d, p) /\ ~Apart(p) /\ ~Apart(d)
BY DEF StageInv, Apart, SameRound

\* The assignments that Flow does not see.
SameFlow(b, c) == /\ b.emitted = c.emitted /\ b.delivered = c.delivered
                  /\ b.inflight = c.inflight

LEMMA SameFlowOps ==
  ASSUME NEW c \in Channel, NEW item \in Nat
  PROVE  /\ SameFlow(Written(c, item), c) /\ SameFlow(Closed(c), c)
         /\ SameFlow(Ticketed(c), c)
         /\ \A w \in 0 .. Patience : SameFlow([c EXCEPT !.waiting = w], c)
<1>1. SameFlow(Written(c, item), c)
  <2> DEFINE bs == [c.bufs EXCEPT ![LevelOf(c.produced)] =
                      Append(SubSeq(@, 1, c.fill), item)]
  <2>1. Written(c, item) = [c EXCEPT !.bufs = bs, !.fill = c.fill + 1]
    BY DEF Written, Channel
  <2> HIDE DEF bs
  <2> QED
    BY <2>1 DEF SameFlow, Channel
<1>2. SameFlow(Closed(c), c)
  <2> DEFINE bs == [c.bufs EXCEPT ![LevelOf(c.produced)] = SubSeq(@, 1, c.fill)]
  <2>1. Closed(c) = [c EXCEPT !.bufs = bs, !.open = FALSE, !.fill = 0,
                              !.produced = c.produced + 1]
    BY DEF Closed, Channel
  <2> HIDE DEF bs
  <2> QED
    BY <2>1 DEF SameFlow, Channel
<1>3. SameFlow(Ticketed(c), c)
  BY DEF SameFlow, Ticketed, Channel
<1>4. \A w \in 0 .. Patience : SameFlow([c EXCEPT !.waiting = w], c)
  BY DEF SameFlow, Channel
<1> QED
  BY <1>1, <1>2, <1>3, <1>4

LEMMA FitsSame ==
  ASSUME NEW p, NEW d, NEW b, NEW c, SameFlow(b, c), Fits(p, d, c)
  PROVE  Fits(p, d, b)
BY FlowSame DEF SameFlow, Fits

\* What a PE between setup and reset may rely on when it sends.
LEMMA SenderFits ==
  ASSUME TypeInv, FlowInv, NEW p \in Live, stage[p] = "working"
  PROVE  /\ p \in Rank
         /\ \A x \in Live : Fits(p, x, chan[p][x])
         /\ \A x \in Rank \ Live : chan[p][x] = NewChannel(x)
BY WorkingTogether, LiveRank DEF FlowInv, LinkInv, GhostInv

\* The channels of p with one of them replaced.
LEMMA ReplaceFits ==
  ASSUME TypeInv, FlowInv, NEW p \in Live, stage[p] = "working",
         NEW d \in Live, NEW b, SameFlow(b, chan[p][d])
  PROVE  /\ \A x \in Live : Fits(p, x, [chan[p] EXCEPT ![d] = b][x])
         /\ \A x \in Rank \ Live : [chan[p] EXCEPT ![d] = b][x] = NewChannel(x)
<1>1. chan[p] \in [Rank -> Channel] /\ d \in Rank /\ p \in Rank
  BY LiveRank DEF TypeInv, TypeOK
<1>2. /\ [chan[p] EXCEPT ![d] = b][d] = b
      /\ \A x \in Rank \ {d} : [chan[p] EXCEPT ![d] = b][x] = chan[p][x]
  BY <1>1
<1>3. Fits(p, d, b)
  BY FitsSame, SenderFits
<1> QED
  BY <1>1, <1>2, <1>3, SenderFits, LiveRank

\* One assignment to a channel that Flow does not see.
LEMMA OneChannelLinks ==
  ASSUME TypeInv, FlowInv, NEW p \in Live, stage[p] = "working",
         NEW d \in Live, NEW b, SameFlow(b, chan[p][d]),
         chan' = [chan EXCEPT ![p][d] = b], UNCHANGED <<n_urgent, wires>>,
         UNCHANGED <<consumed, received, disposed>>
  PROVE  SendLinks(p)
<1>1. chan \in [Rank -> [Rank -> Channel]] /\ d \in Rank /\ p \in Rank
  BY LiveRank DEF TypeInv, TypeOK
<1>2. chan'[p] = [chan[p] EXCEPT ![d] = b]
  BY <1>1
<1>3. OnlyOf(p)
  BY <1>1 DEF OnlyOf, wires
<1>4. /\ \A x \in Live : Fits(p, x, chan'[p][x])
      /\ \A x \in Rank \ Live : chan'[p][x] = NewChannel(x)
  <2>1. /\ \A x \in Live : Fits(p, x, [chan[p] EXCEPT ![d] = b][x])
        /\ \A x \in Rank \ Live : [chan[p] EXCEPT ![d] = b][x] = NewChannel(x)
    BY ReplaceFits
  <2> QED
    BY <1>2, <2>1
<1>5. \A x \in Live : Fits(p, x, chan[p][x])'
  BY <1>4 DEF Fits, wires
<1> QED
  BY <1>3, <1>4, <1>5 DEF SendLinks, wires

\* A step of the sending side of p keeps the invariant.
LEMMA SendFlowInv ==
  ASSUME TypeInv, FlowInv, NEW p \in Live, stage[p] = "working", SendLinks(p),
         UNCHANGED <<consumed, receiver, stage>>,
         \A q \in Rank \ {p} : pc'[q] = pc[q] /\ todo'[q] = todo[q],
         todo'[p] \subseteq Live
  PROVE  FlowInv'
<1> USE DEF FlowInv, receiver
<1>0. p \in Rank
  BY LiveRank
<1>1. StageInv'
  BY DEF StageInv, Apart
<1>2. WireInv'
  <2> SUFFICES ASSUME NEW q \in Rank, NEW d \in Rank,
                      q \notin Live \/ d \notin Live \/ Apart(q) \/ Apart(d)
               PROVE  Calm(q, d)'
    BY DEF WireInv, Apart
  <2>1. Calm(q, d)
    BY DEF WireInv
  <2>2. CASE q # p
    BY <2>1, <2>2 DEF Calm, SendLinks, OnlyOf
  <2>3. CASE q = p
    <3>1. d \notin Live
      BY <2>3, WorkingTogether
    <3> QED
      BY <2>1, <2>3, <3>1 DEF Calm, SendLinks, OnlyOf
  <2> QED
    BY <2>2, <2>3
<1>3. BlankInv'
  <2> SUFFICES ASSUME NEW q \in Rank, q \notin Live \/ stage[q] = "set"
               PROVE  Blank(q)'
    BY DEF BlankInv
  <2>1. q # p /\ Blank(q)
    BY DEF BlankInv
  <2> QED
    BY <2>1 DEF Blank, SendLinks, OnlyOf
<1>4. GhostInv'
  <2> SUFFICES ASSUME NEW q \in Rank
               PROVE  /\ todo'[q] \subseteq Live
                      /\ \A d \in Rank \ Live :
                           /\ chan'[q][d] = NewChannel(d)
                           /\ received'[q][d] = 1 /\ disposed'[q][d] = 0
    BY DEF GhostInv
  <2>1. CASE q = p
    BY <2>1 DEF GhostInv, SendLinks
  <2>2. CASE q # p
    BY <2>2 DEF GhostInv, SendLinks, OnlyOf
  <2> QED
    BY <2>1, <2>2
<1>5. ListInv'
  BY DEF ListInv
<1>6. LinkInv'
  <2> SUFFICES ASSUME NEW q \in Live, NEW d \in Live, SameRound(q, d)
               PROVE  Fits(q, d, chan[q][d])'
    BY DEF LinkInv, SameRound
  <2>1. CASE q = p
    BY <2>1 DEF SendLinks
  <2>2. CASE q # p
    <3>1. Fits(q, d, chan[q][d])
      BY DEF LinkInv
    <3>2. q \in Rank \ {p}
      BY <2>2, LiveRank
    <3> QED
      BY <3>1, <3>2 DEF Fits, SendLinks, OnlyOf
  <2> QED
    BY <2>1, <2>2
<1> QED
  BY <1>1, <1>2, <1>3, <1>4, <1>5, <1>6

\* A call of porter_try_send() when the channel of d has been replaced by b.
LEMMA TrySendFrom ==
  ASSUME TypeInv, FlowInv, NEW p \in Live, stage[p] = "working",
         NEW d \in Live, NEW b, ChanOK(b), SameFlow(b, chan[p][d]), NEW nu,
         TrySend(p, d, [chan[p] EXCEPT ![d] = b], nu),
         UNCHANGED <<consumed, received, disposed>>
  PROVE  SendLinks(p)
<1> DEFINE C == [chan[p] EXCEPT ![d] = b]
<1>1. p \in Rank /\ d \in Rank
  BY LiveRank
<1>2. ChansOK(C)
  BY <1>1, ReplaceOK
<1>3. /\ \A x \in Live : Fits(p, x, C[x])
      /\ \A x \in Rank \ Live : C[x] = NewChannel(x)
  BY ReplaceFits
<1>4. TrySend(p, d, C, nu)
  OBVIOUS
<1> HIDE DEF C
<1> QED
  BY <1>1, <1>2, <1>3, <1>4, TrySendLinks

LEMMA TrySendNow ==
  ASSUME TypeInv, FlowInv, NEW p \in Live, stage[p] = "working",
         NEW d \in Live, NEW nu, TrySend(p, d, chan[p], nu),
         UNCHANGED <<consumed, received, disposed>>
  PROVE  SendLinks(p)
<1>1. p \in Rank /\ ChansOK(chan[p])
  BY LiveRank DEF TypeInv
<1> QED
  BY <1>1, SenderFits, TrySendLinks

LEMMA PutSame ==
  ASSUME TypeInv, NEW p \in Rank, NEW d \in Rank, chan[p][d].open
  PROVE  /\ ChanOK(Put(p, d)) /\ Put(p, d).open /\ Put(p, d) \in Channel
         /\ SameFlow(Put(p, d), chan[p][d])
<1>1. /\ ChanOK(chan[p][d]) /\ chan[p][d] \in Channel
      /\ pushed[p][d] + 1 \in Nat
  BY Access
<1>2. ChanOK(Put(p, d)) /\ Put(p, d).open
  BY <1>1, WrittenOK DEF Put
<1>3. SameFlow(Put(p, d), chan[p][d])
  BY <1>1, SameFlowOps DEF Put
<1> QED
  BY <1>2, <1>3 DEF ChanOK

\* Closing an open channel.
LEMMA ClosedSame ==
  ASSUME NEW c, ChanOK(c), c.open, NEW b, SameFlow(c, b)
  PROVE  ChanOK(Closed(c)) /\ SameFlow(Closed(c), b)
<1>1. c \in Channel /\ 0 \in Nat
  BY DEF ChanOK
<1>2. SameFlow(Closed(c), c)
  BY <1>1, SameFlowOps
<1> QED
  BY <1>2, ClosedOK DEF SameFlow

\* A ticket is noted in a field of its own.
LEMMA TicketedOK ==
  ASSUME NEW b, ChanOK(b)
  PROVE  /\ ChanOK(Ticketed(b)) /\ Ticketed(b).open = b.open
         /\ SameFlow(Ticketed(b), b)
<1> DEFINE t == Ticketed(b)
<1>1. b \in Channel /\ b.produced + 1 \in Nat /\ 0 \in Nat
  BY FieldTypes DEF ChanOK
<1>2. t = [b EXCEPT !.urgent = b.produced + 1]
  BY DEF Ticketed
<1> HIDE DEF t
<1>3. t \in Channel
  BY <1>1, <1>2 DEF Channel
<1>4. /\ t.bufs = b.bufs /\ t.fill = b.fill /\ t.open = b.open
      /\ t.produced = b.produced /\ t.emitted = b.emitted
      /\ t.delivered = b.delivered /\ t.inflight = b.inflight
  BY <1>1, <1>2 DEF Channel
<1>5. ChanOK(t)
  BY <1>3, <1>4 DEF ChanOK
<1> QED
  BY <1>4, <1>5 DEF t, SameFlow

\* porter_push() and porter_epush()
LEMMA PushFlow ==
  ASSUME TypeInv, FlowInv, NEW p \in Rank, NEW d \in Rank, Push(p, d)
  PROVE  FlowInv'
<1>1. p \in Live /\ d \in Live /\ stage[p] = "working"
  BY DEF Push, PushRoom, EPushRoom, PushNoRoom, MayPush
<1>2. ChanOK(chan[p][d])
  BY Access
<1>3. /\ UNCHANGED <<consumed, received, disposed>>
      /\ UNCHANGED <<consumed, receiver, stage>>
      /\ pc' = pc /\ todo' = todo
  BY DEF Push, PushRoom, EPushRoom, PushNoRoom, receiver, control, cycle
<1>4. ASSUME PushRoom(p, d) PROVE SendLinks(p)
  <2>1. chan[p][d].open
    BY <1>4 DEF PushRoom
  <2>2. \/ TrySend(p, d, [chan[p] EXCEPT ![d] = Closed(Put(p, d))], n_urgent[p])
        \/ chan' = [chan EXCEPT ![p][d] = Put(p, d)]
           /\ UNCHANGED <<n_urgent, wires>>
    BY <1>4 DEF PushRoom
  <2>3. /\ ChanOK(Closed(Put(p, d)))
        /\ SameFlow(Closed(Put(p, d)), chan[p][d])
        /\ SameFlow(Put(p, d), chan[p][d])
    BY <2>1, PutSame, ClosedSame
  <2> QED
    BY <1>1, <1>3, <2>2, <2>3, TrySendFrom, OneChannelLinks
<1>5. ASSUME NEW ticket \in BOOLEAN, EPushRoom(p, d, ticket)
      PROVE  SendLinks(p)
  <2> DEFINE w  == IF ticket THEN Ticketed(Put(p, d)) ELSE Put(p, d)
             nu == n_urgent[p] + (IF ticket /\ chan[p][d].urgent
                                               <= chan[p][d].delivered
                                  THEN 1 ELSE 0)
  <2>1. chan[p][d].open
    BY <1>5 DEF EPushRoom
  <2>2. \/ TrySend(p, d, [chan[p] EXCEPT ![d] = Closed(w)], nu)
        \/ chan' = [chan EXCEPT ![p][d] = w] /\ UNCHANGED <<n_urgent, wires>>
    BY <1>5 DEF EPushRoom
  <2>3. ChanOK(w) /\ w.open /\ SameFlow(w, chan[p][d])
    <3>1. /\ ChanOK(Put(p, d)) /\ Put(p, d).open
          /\ SameFlow(Put(p, d), chan[p][d])
      BY <2>1, PutSame
    <3>2. /\ ChanOK(Ticketed(Put(p, d))) /\ Ticketed(Put(p, d)).open
          /\ SameFlow(Ticketed(Put(p, d)), Put(p, d))
      BY <3>1, TicketedOK
    <3>3. SameFlow(Ticketed(Put(p, d)), chan[p][d])
      BY <3>1, <3>2 DEF SameFlow
    <3> QED
      BY <3>1, <3>2, <3>3
  <2> HIDE DEF w, nu
  <2>4. ChanOK(Closed(w)) /\ SameFlow(Closed(w), chan[p][d])
    BY <2>3, ClosedSame
  <2> QED
    BY <1>1, <1>3, <2>2, <2>3, <2>4, TrySendFrom, OneChannelLinks
<1>6. ASSUME PushNoRoom(p, d) PROVE SendLinks(p)
  <2>1. \/ TrySend(p, d, chan[p], n_urgent[p])
        \/ /\ chan[p][d].open
           /\ TrySend(p, d, [chan[p] EXCEPT ![d] = Closed(chan[p][d])],
                      n_urgent[p])
    BY <1>6 DEF PushNoRoom
  <2>2. chan[p][d].open => /\ ChanOK(Closed(chan[p][d]))
                           /\ SameFlow(Closed(chan[p][d]), chan[p][d])
    BY <1>2, ClosedSame DEF SameFlow
  <2> QED
    BY <1>1, <1>3, <2>1, <2>2, TrySendFrom, TrySendNow
<1>7. SendLinks(p)
  BY <1>4, <1>5, <1>6 DEF Push
<1>8. todo'[p] \subseteq Live
  BY <1>3 DEF FlowInv, GhostInv
<1> QED
  BY <1>1, <1>3, <1>7, <1>8, SendFlowInv

\* porter_ensure_progress() for any rank: it does nothing for one that stands
\* for no PE.
LEMMA EnsureProgressLinks ==
  ASSUME TypeInv, FlowInv, NEW p \in Live, stage[p] = "working",
         NEW d \in Rank, EnsureProgress(p, d),
         UNCHANGED <<consumed, received, disposed>>
  PROVE  SendLinks(p)
<1> DEFINE c       == chan[p][d]
           full    == c.produced > c.delivered
           partial == c.open /\ c.fill > 0
<1>1. p \in Rank /\ ChanOK(c) /\ c \in Channel /\ 0 \in Nat
  BY Access, LiveRank
<1>2. CASE d \notin Live
  <2>1. /\ c = NewChannel(d) /\ c.waiting = 0 /\ c.produced = 0
        /\ c.delivered = 0 /\ c.fill = 0
    BY <1>1, <1>2 DEF FlowInv, GhostInv, NewChannel
  <2>2. /\ chan' = [chan EXCEPT ![p][d].waiting = c.waiting]
        /\ UNCHANGED <<n_urgent, wires>>
    BY <2>1 DEF EnsureProgress, Patience
  <2>3. chan' = chan
    <3>1. [c EXCEPT !.waiting = c.waiting] = c
      BY <1>1 DEF Channel
    <3>2. chan \in [Rank -> [Rank -> Channel]]
      BY DEF TypeInv, TypeOK
    <3>3. chan' = [chan EXCEPT ![p][d] = [c EXCEPT !.waiting = c.waiting]]
      BY <2>2
    <3> QED
      BY <1>1, <3>1, <3>2, <3>3
  <2>4. OnlyOf(p)
    BY <2>2, <2>3 DEF OnlyOf, wires
  <2>5. \A x \in Live : Fits(p, x, chan[p][x])'
    BY <2>2, <2>3, SenderFits DEF Fits, wires
  <2> QED
    BY <2>2, <2>3, <2>4, <2>5, SenderFits DEF SendLinks, wires
<1>3. CASE d \in Live
  <2>1. ASSUME NEW w \in 0 .. Patience,
               chan' = [chan EXCEPT ![p][d].waiting = w],
               UNCHANGED <<n_urgent, wires>>
        PROVE  SendLinks(p)
    <3>1. SameFlow([c EXCEPT !.waiting = w], c)
      BY <1>1, SameFlowOps
    <3>2. chan' = [chan EXCEPT ![p][d] = [c EXCEPT !.waiting = w]]
      BY <2>1
    <3> QED
      BY <1>3, <2>1, <3>1, <3>2, OneChannelLinks
  <2>2. CASE c.waiting \in 1 .. Patience-1
    <3>1. c.waiting + 1 \in 0 .. Patience
      BY <2>2 DEF Patience
    <3> QED
      BY <2>1, <2>2, <3>1 DEF EnsureProgress
  <2>3. CASE c.waiting \notin 1 .. Patience-1 /\ c.waiting > 0
    <3> DEFINE b == IF ~full /\ partial THEN Closed(c) ELSE c
    <3>1. ChanOK(b) /\ SameFlow(b, c)
      BY <1>1, ClosedSame DEF SameFlow
    <3>2. TrySend(p, d, [chan[p] EXCEPT ![d] = b], n_urgent[p])
      BY <2>3 DEF EnsureProgress
    <3> QED
      BY <1>3, <3>1, <3>2, TrySendFrom
  <2>4. CASE ~(c.waiting > 0)
    <3> DEFINE w == IF full \/ partial THEN 1 ELSE c.waiting
    <3>1. w \in 0 .. Patience
      BY <1>1, <2>4, FieldTypes DEF Patience
    <3>2. chan' = [chan EXCEPT ![p][d].waiting = w]
          /\ UNCHANGED <<n_urgent, wires>>
      BY <2>4 DEF EnsureProgress, Patience
    <3> QED
      BY <2>1, <3>1, <3>2
  <2> QED
    BY <2>2, <2>3, <2>4
<1> QED
  BY <1>2, <1>3

\* The ranks that porter_try_urgent() and porter_try_flush() list are PEs.
LEMMA ListedLive ==
  ASSUME NEW p, SendLinks(p)
  PROVE  /\ Unsent(p) \subseteq Live
         /\ {d \in Rank : chan'[p][d].urgent > chan'[p][d].emitted}
              \subseteq Live
<1>1. ASSUME NEW d \in Rank \ Live
      PROVE  chan'[p][d].all_sent /\ ~(chan'[p][d].urgent > chan'[p][d].emitted)
  <2>1. chan'[p][d] = NewChannel(d)
    BY DEF SendLinks
  <2>2. /\ NewChannel(d).all_sent
        /\ NewChannel(d).urgent = 0 /\ NewChannel(d).emitted = 0
    BY DEF NewChannel
  <2>3. chan'[p][d].all_sent
    BY <2>1, <2>2
  <2>4. chan'[p][d].urgent = 0 /\ chan'[p][d].emitted = 0
    BY <2>1, <2>2
  <2> QED
    BY <2>3, <2>4
<1>2. Unsent(p) \subseteq Live
  BY <1>1, Zenon DEF Unsent
<1>3. {d \in Rank : chan'[p][d].urgent > chan'[p][d].emitted} \subseteq Live
  BY <1>1
<1> QED
  BY <1>2, <1>3

LEMMA EnterEndgameList ==
  ASSUME TypeInv, NEW p \in Rank, EnterEndgame(p), SendLinks(p)
  PROVE  /\ \A q \in Rank \ {p} : pc'[q] = pc[q] /\ todo'[q] = todo[q]
         /\ todo'[p] \subseteq Live
<1>1. /\ pc \in [Rank -> {"idle", "urgent", "flush"}]
      /\ todo \in [Rank -> SUBSET Rank]
  BY DEF TypeInv, TypeOK
<1> QED
  BY <1>1, ListedLive DEF EnterEndgame

\* porter_advance()
LEMMA AdvanceFlow ==
  ASSUME TypeInv, FlowInv, NEW p \in Rank, Advance(p)
  PROVE  FlowInv'
<1>1. /\ pc \in [Rank -> {"idle", "urgent", "flush"}]
      /\ todo \in [Rank -> SUBSET Rank] /\ phase[p] \in Rank
  BY DEF TypeInv, TypeOK
<1>2. p \in Live /\ stage[p] = "working"
  BY DEF Advance, StartAdvance, UrgentSend, UrgentProgress, ResumeFlush,
         FlushSend, FlushProgress, FlowInv, StageInv
<1>3. UNCHANGED <<consumed, receiver, stage>>
      /\ UNCHANGED <<consumed, received, disposed>>
  BY DEF Advance, StartAdvance, UrgentSend, UrgentProgress, ResumeFlush,
         FlushSend, FlushProgress, receiver, cycle
<1>4. /\ \A x \in Live : Fits(p, x, chan[p][x])
      /\ \A x \in Rank \ Live : chan[p][x] = NewChannel(x)
  BY <1>2, SenderFits
<1>5. todo[p] \subseteq Live
  BY DEF FlowInv, GhostInv
<1>6. ASSUME UNCHANGED <<chan, n_urgent, wires>> PROVE SendLinks(p)
  BY <1>3, <1>4, <1>6 DEF SendLinks, OnlyOf, Fits, wires
<1> DEFINE Done == /\ \A q \in Rank \ {p} : pc'[q] = pc[q] /\ todo'[q] = todo[q]
                   /\ todo'[p] \subseteq Live
<1>7. CASE StartAdvance(p)
  <2>1. SendLinks(p)
    <3>1. CASE Steady
      BY <1>1, <1>2, <1>3, <1>7, <3>1, EnsureProgressLinks DEF StartAdvance
    <3>2. CASE ~Steady
      BY <1>6, <1>7, <3>2 DEF StartAdvance
    <3> QED
      BY <3>1, <3>2
  <2>2. Done
    <3>1. CASE n_urgent'[p] > 0
      <4>1. /\ pc' = [pc EXCEPT ![p] = "urgent"]
            /\ todo' = [todo EXCEPT ![p] =
                 {d \in Rank : chan'[p][d].urgent > chan'[p][d].emitted}]
        BY <1>7, <3>1 DEF StartAdvance, CheckUrgent
      <4> QED
        BY <1>1, <2>1, <4>1, ListedLive
    <3>2. CASE ~(n_urgent'[p] > 0)
      BY <1>7, <2>1, <3>2, EnterEndgameList DEF StartAdvance, CheckUrgent
    <3> QED
      BY <3>1, <3>2
  <2> QED
    BY <1>2, <1>3, <2>1, <2>2, SendFlowInv
<1>8. CASE UrgentSend(p)
  <2>1. PICK d \in todo[p] : /\ TrySend(p, d, chan[p], n_urgent[p])
                             /\ todo' = [todo EXCEPT ![p] = @ \ {d}]
    BY <1>8, Zenon DEF UrgentSend
  <2>2. d \in Live
    BY <1>5
  <2>3. SendLinks(p)
    BY <1>2, <1>3, <2>1, <2>2, TrySendNow
  <2>4. Done
    BY <1>1, <1>5, <1>8, <2>1 DEF UrgentSend
  <2> QED
    BY <1>2, <1>3, <2>3, <2>4, SendFlowInv
<1>9. CASE UrgentProgress(p)
  <2>1. SendLinks(p)
    BY <1>3, <1>4, <1>9, ProgressAllLinks DEF UrgentProgress
  <2>2. Done
    BY <1>9, <2>1, EnterEndgameList DEF UrgentProgress
  <2> QED
    BY <1>2, <1>3, <2>1, <2>2, SendFlowInv
<1>10. CASE ResumeFlush(p)
  <2>1. SendLinks(p)
    BY <1>6, <1>10 DEF ResumeFlush
  <2>2. Done
    <3>1. /\ pc' = [pc EXCEPT ![p] = "flush"]
          /\ todo' = [todo EXCEPT ![p] = Unsent(p)]
      BY <1>10 DEF ResumeFlush
    <3> QED
      BY <1>1, <2>1, <3>1, ListedLive
  <2> QED
    BY <1>2, <1>3, <2>1, <2>2, SendFlowInv
<1>11. CASE FlushSend(p)
  <2>1. PICK d \in todo[p] :
          /\ TrySend(p, d, [chan[p] EXCEPT ![d] =
                              IF chan[p][d].open THEN Closed(chan[p][d])
                              ELSE chan[p][d]], n_urgent[p])
          /\ todo' = [todo EXCEPT ![p] = @ \ {d}]
    BY <1>11, Zenon DEF FlushSend
  <2>2. d \in Live
    BY <1>5
  <2> DEFINE b == IF chan[p][d].open THEN Closed(chan[p][d]) ELSE chan[p][d]
  <2>3. ChanOK(b) /\ SameFlow(b, chan[p][d])
    <3>1. ChanOK(chan[p][d])
      BY <2>2, Access, LiveRank
    <3> QED
      BY <3>1, ClosedSame DEF SameFlow
  <2>4. SendLinks(p)
    BY <1>2, <1>3, <2>1, <2>2, <2>3, TrySendFrom
  <2>5. Done
    BY <1>1, <1>5, <1>11, <2>1 DEF FlushSend
  <2> QED
    BY <1>2, <1>3, <2>4, <2>5, SendFlowInv
<1>12. CASE FlushProgress(p)
  <2>1. SendLinks(p)
    BY <1>3, <1>4, <1>12, ProgressAllLinks DEF FlushProgress
  <2>2. Done
    BY <1>1, <1>5, <1>12 DEF FlushProgress
  <2> QED
    BY <1>2, <1>3, <2>1, <2>2, SendFlowInv
<1> QED
  BY <1>7, <1>8, <1>9, <1>10, <1>11, <1>12 DEF Advance

\* A rank that is the source of a listed buffer stands for a PE.
LEMMA ListedSource ==
  ASSUME TypeInv, FlowInv, NEW r \in Rank, NEW s \in Rank,
         disposed[r][s] < received[r][s] \div 2
  PROVE  s \in Live
BY DEF FlowInv, GhostInv

LEMMA MemoryTypes ==
  ASSUME TypeInv, NEW r \in Rank
  PROVE  /\ pending[r] \subseteq Rank /\ stuck[r] \subseteq Rank
         /\ taken[r] \in Rank \cup {None}
         /\ pending \in [Rank -> SUBSET Rank] /\ stuck \in [Rank -> SUBSET Rank]
         /\ taken \in [Rank -> Rank \cup {None}]
         /\ disposed \in [Rank -> [Rank -> Nat]]
         /\ received \in [Rank -> [Rank -> Nat]]
         /\ acks \in [Rank -> [Rank -> SUBSET Ack]]
BY DEF TypeInv, TypeOK, Ack

\* porter_borrow(), the client, and porter_return()
LEMMA PullFlow ==
  ASSUME TypeInv, FlowInv, NEW r \in Rank, Pull(r)
  PROVE  FlowInv'
<1> USE DEF FlowInv
<1>1. r \in Live /\ stage[r] = "working" /\ ~Apart(r)
  BY DEF Pull, Borrow, Take, Return, Idle, Apart
<1>2. UNCHANGED <<chan, consumed, received, puts, signals, stage, pc, todo>>
  BY DEF Pull, Borrow, Take, Return, control, cycle, wires
<1>3. StageInv'
  BY <1>2 DEF StageInv, Apart
<1>4. ASSUME UNCHANGED <<disposed, acks>>
      PROVE  WireInv' /\ BlankInv' /\ GhostInv' /\ LinkInv'
  BY <1>2, <1>4 DEF WireInv, BlankInv, GhostInv, LinkInv, Apart, Calm, Blank,
                    SameRound, Fits
<1>5. CASE Borrow(r)
  <2>1. UNCHANGED <<disposed, acks>>
    BY <1>5 DEF Borrow, wires
  <2>2. ListInv'
    <3>1. CASE pending[r] # {}
      <4>1. UNCHANGED <<pending, stuck>>
            /\ \E s \in pending[r] : taken' = [taken EXCEPT ![r] = s]
        BY <1>5, <3>1 DEF Borrow, Lend
      <4> QED
        BY <1>2, <2>1, <4>1, MemoryTypes DEF ListInv
    <3>2. CASE pending[r] = {}
      <4> DEFINE l == stuck[r] \cup Fresh(r)
      <4>1. /\ Lend(r, l)
            /\ pending' = [pending EXCEPT ![r] = l]
            /\ stuck' = [stuck EXCEPT ![r] = {}] /\ taken[r] = None
        BY <1>5, <3>2 DEF Borrow
      <4>2. \A s \in l : disposed[r][s] < received[r][s] \div 2
        BY <1>1, MemoryTypes DEF ListInv, Fresh
      <4>3. CASE l = {}
        BY <1>2, <2>1, <4>1, <4>3, MemoryTypes DEF ListInv, Lend
      <4>4. CASE l # {}
        <5> HIDE DEF l
        <5>1. \E s \in l : taken' = [taken EXCEPT ![r] = s]
          BY <4>1, <4>4 DEF Lend
        <5> QED
          BY <1>2, <2>1, <4>1, <4>2, <5>1, MemoryTypes DEF ListInv
      <4> QED
        BY <4>3, <4>4
    <3> QED
      BY <3>1, <3>2
  <2> QED
    BY <1>3, <1>4, <2>1, <2>2
<1>6. CASE Take(r)
  <2>1. UNCHANGED <<disposed, acks, pending, stuck, taken>>
    BY <1>6 DEF Take, wires
  <2>2. ListInv'
    BY <1>2, <2>1 DEF ListInv
  <2> QED
    BY <1>3, <1>4, <2>1, <2>2
<1>7. CASE Return(r)
  <2> DEFINE s == taken[r]
             n == disposed[r][s]
  <2>1. /\ s # None /\ pending' = [pending EXCEPT ![r] = @ \ {s}]
        /\ taken' = [taken EXCEPT ![r] = None]
        /\ \/ /\ disposed' = [disposed EXCEPT ![r][s] = n + 1]
              /\ acks' = [acks EXCEPT ![r][s] = @ \cup {AckFor(n)}]
              /\ stuck' = stuck
           \/ /\ stuck' = [stuck EXCEPT ![r] = @ \cup {s}]
              /\ UNCHANGED <<disposed, acks>>
    BY <1>7 DEF Return
  <2>2. /\ s \in pending[r] /\ s \notin stuck[r] /\ s \in Rank
        /\ n < received[r][s] \div 2 /\ n \in Nat
    BY <2>1, MemoryTypes DEF ListInv
  <2>3. s \in Live
    BY <2>2, ListedSource
  <2> HIDE DEF s
  <2>4. CASE stuck' = [stuck EXCEPT ![r] = @ \cup {s}]
             /\ UNCHANGED <<disposed, acks>>
    <3>1. ListInv'
      BY <1>2, <2>1, <2>2, <2>4, MemoryTypes DEF ListInv
    <3> QED
      BY <1>3, <1>4, <2>4, <3>1
  <2>5. CASE /\ disposed' = [disposed EXCEPT ![r][s] = n + 1]
             /\ acks' = [acks EXCEPT ![r][s] = @ \cup {AckFor(n)}]
             /\ stuck' = stuck
    <3>1. /\ disposed'[r][s] = n + 1 /\ acks'[r][s] = acks[r][s] \cup {AckFor(n)}
          /\ \A q, x \in Rank : q # r \/ x # s =>
               disposed'[q][x] = disposed[q][x] /\ acks'[q][x] = acks[q][x]
      BY <2>2, <2>5, MemoryTypes
    <3>2. ListInv'
      <4> SUFFICES ASSUME NEW q \in Rank
                   PROVE  /\ \A x \in pending'[q] \cup stuck'[q] :
                               disposed'[q][x] < received'[q][x] \div 2
                          /\ pending'[q] \cap stuck'[q] = {}
                          /\ taken'[q] # None => taken'[q] \in pending'[q]
        BY DEF ListInv
      <4>1. CASE q # r
        <5>1. /\ pending'[q] = pending[q] /\ stuck'[q] = stuck[q]
              /\ taken'[q] = taken[q]
          BY <2>1, <2>5, <4>1, MemoryTypes
        <5>2. pending[q] \cup stuck[q] \subseteq Rank
          BY MemoryTypes
        <5> QED
          BY <1>2, <3>1, <4>1, <5>1, <5>2 DEF ListInv
      <4>2. CASE q = r
        <5>1. /\ pending'[r] = pending[r] \ {s} /\ stuck'[r] = stuck[r]
              /\ taken'[r] = None
          BY <2>1, <2>5, MemoryTypes
        <5>2. pending[r] \cup stuck[r] \subseteq Rank
          BY MemoryTypes
        <5> QED
          BY <1>2, <2>2, <3>1, <4>2, <5>1, <5>2 DEF ListInv
      <4> QED
        BY <4>1, <4>2
    <3>3. WireInv'
      <4> SUFFICES ASSUME NEW q \in Rank, NEW d \in Rank,
                          q \notin Live \/ d \notin Live \/ Apart(q) \/ Apart(d)
                   PROVE  Calm(q, d)'
        BY <1>2 DEF WireInv, Apart
      <4>1. ~(q = r /\ d = s)
        BY <1>1, <2>3, WorkingTogether
      <4> QED
        BY <1>2, <3>1, <4>1 DEF WireInv, Calm
    <3>4. BlankInv'
      <4> SUFFICES ASSUME NEW q \in Rank, q \notin Live \/ stage[q] = "set"
                   PROVE  Blank(q)'
        BY <1>2 DEF BlankInv
      <4>1. q # r
        BY <1>1
      <4> QED
        BY <1>2, <3>1, <4>1 DEF BlankInv, Blank
    <3>5. GhostInv'
      BY <1>2, <2>3, <3>1 DEF GhostInv
    <3>6. LinkInv'
      <4> SUFFICES ASSUME NEW q \in Live, NEW d \in Live, SameRound(q, d)
                   PROVE  Fits(q, d, chan[q][d])'
        BY <1>2 DEF LinkInv, SameRound
      <4>1. Fits(q, d, chan[q][d]) /\ q \in Rank /\ d \in Rank
        BY LiveRank DEF LinkInv
      <4>2. CASE ~(q = s /\ d = r)
        BY <1>2, <3>1, <4>1, <4>2 DEF Fits
      <4>3. CASE q = s /\ d = r
        <5>1. FlowTypes(chan[s][r], consumed[s][r], puts[s][r], signals[s][r],
                        acks[r][s], received[r][s], disposed[r][s])
          BY <4>1, <4>3, Access, LinkTypes
        <5>2. Flow(chan[s][r], consumed[s][r], puts[s][r], signals[s][r],
                   acks[r][s], received[r][s], n)
          BY <4>1, <4>3 DEF Fits
        <5>3. Flow(chan[s][r], consumed[s][r], puts[s][r], signals[s][r],
                   acks[r][s] \cup {AckFor(n)}, received[r][s], n + 1)
          BY <2>2, <5>1, <5>2, FlowReturn
        <5> QED
          BY <1>2, <3>1, <4>3, <5>3 DEF Fits
      <4> QED
        BY <4>2, <4>3
    <3> QED
      BY <1>3, <3>2, <3>3, <3>4, <3>5, <3>6
  <2> QED
    BY <2>1, <2>4, <2>5 DEF s
<1> QED
  BY <1>5, <1>6, <1>7 DEF Pull

\* The wires carry something only while both ends are between setup and reset.
LEMMA Carried ==
  ASSUME TypeInv, FlowInv, NEW p \in Rank, NEW d \in Rank, ~Calm(p, d)
  PROVE  /\ p \in Live /\ d \in Live /\ ~Apart(p) /\ ~Apart(d)
         /\ SameRound(p, d) /\ SameRound(d, p)
         /\ Fits(p, d, chan[p][d]) /\ Fits(d, p, chan[d][p])
<1>1. p \in Live /\ d \in Live /\ ~Apart(p) /\ ~Apart(d)
  BY DEF FlowInv, WireInv
<1>2. SameRound(p, d) /\ SameRound(d, p)
  BY <1>1 DEF SameRound, Apart
<1> QED
  BY <1>1, <1>2 DEF FlowInv, LinkInv

\* The arrival of puts
LEMMA NetworkFlow ==
  ASSUME TypeInv, FlowInv, NEW p \in Rank, NEW d \in Rank, Network(p, d)
  PROVE  FlowInv'
<1> USE DEF FlowInv
<1>1. UNCHANGED <<chan, disposed, pending, stuck, taken, stage, pc, todo>>
  BY DEF Network, DeliverData, DeliverSignal, DeliverAck, receiver, control,
         cycle
<1>2. StageInv'
  BY <1>1 DEF StageInv, Apart
<1>3. ChanOK(chan[p][d]) /\ ChanOK(chan[d][p])
  BY Access
<1>4. /\ puts \in [Rank -> [Rank -> SUBSET Data]]
      /\ signals \in [Rank -> [Rank -> SUBSET Signal]]
      /\ acks \in [Rank -> [Rank -> SUBSET Ack]]
      /\ received \in [Rank -> [Rank -> Nat]]
      /\ consumed \in [Rank -> [Rank -> [Level -> Nat]]]
  BY DEF TypeInv, TypeOK, Data, Signal, Ack
<1>5. CASE DeliverData(p, d)
  <2>1. PICK m \in puts[p][d] : puts' = [puts EXCEPT ![p][d] = @ \ {m}]
    BY <1>5, Zenon DEF DeliverData
  <2>2. UNCHANGED <<consumed, received, signals, acks>>
    BY <1>5 DEF DeliverData
  <2>3. /\ puts'[p][d] = puts[p][d] \ {m}
        /\ \A q, x \in Rank : q # p \/ x # d => puts'[q][x] = puts[q][x]
    BY <1>4, <2>1
  <2>4. \A q, x \in Rank : puts'[q][x] \subseteq puts[q][x]
    BY <2>3
  <2>5. WireInv' /\ BlankInv' /\ GhostInv' /\ ListInv'
    BY <1>1, <2>2, <2>4 DEF WireInv, BlankInv, GhostInv, ListInv, Apart, Calm,
                            Blank
  <2>6. LinkInv'
    <3> SUFFICES ASSUME NEW q \in Live, NEW x \in Live, SameRound(q, x)
                 PROVE  Fits(q, x, chan[q][x])'
      BY <1>1 DEF LinkInv, SameRound
    <3>1. Fits(q, x, chan[q][x]) /\ q \in Rank /\ x \in Rank
      BY LiveRank DEF LinkInv
    <3>2. CASE q # p \/ x # d
      BY <1>1, <2>2, <2>3, <3>1, <3>2 DEF Fits
    <3>3. CASE q = p /\ x = d
      BY <1>1, <2>2, <2>3, <3>1, <3>3, FlowData DEF Fits
    <3> QED
      BY <3>2, <3>3
  <2> QED
    BY <1>2, <2>5, <2>6
<1>6. CASE DeliverSignal(p, d)
  <2>1. PICK m \in signals[p][d] :
          /\ SignalMayArrive(p, d, m.n)
          /\ signals' = [signals EXCEPT ![p][d] = @ \ {m}]
          /\ received' = [received EXCEPT ![d][p] = m.value]
    BY <1>6, Zenon DEF DeliverSignal
  <2>2. UNCHANGED <<consumed, puts, acks>>
    BY <1>6 DEF DeliverSignal
  <2>3. /\ signals'[p][d] = signals[p][d] \ {m} /\ received'[d][p] = m.value
        /\ \A q, x \in Rank : q # p \/ x # d =>
             signals'[q][x] = signals[q][x] /\ received'[x][q] = received[x][q]
    BY <1>4, <2>1
  <2>4. /\ p \in Live /\ d \in Live /\ ~Apart(p) /\ ~Apart(d)
        /\ SameRound(p, d) /\ Fits(p, d, chan[p][d])
    BY <2>1, Carried DEF Calm
  <2>5. FlowTypes(chan[p][d], consumed[p][d], puts[p][d], signals[p][d],
                  acks[d][p], received[d][p], disposed[d][p])
    BY <1>3, LinkTypes
  <2>6. Nonblocking \/ \A x \in signals[p][d] : m.n <= x.n
    BY <2>1 DEF SignalMayArrive
  <2>7. /\ Flow(chan[p][d], consumed[p][d], puts[p][d], signals[p][d] \ {m},
                acks[d][p], m.value, disposed[d][p])
        /\ received[d][p] \div 2 <= m.value \div 2
    BY <2>4, <2>5, <2>6, FlowSignal DEF Fits
  <2>8. WireInv'
    <3>1. \A q, x \in Rank : signals'[q][x] \subseteq signals[q][x]
      BY <2>3
    <3> QED
      BY <1>1, <2>2, <3>1 DEF WireInv, Apart, Calm
  <2>9. BlankInv'
    <3> SUFFICES ASSUME NEW q \in Rank, q \notin Live \/ stage[q] = "set"
                 PROVE  Blank(q)'
      BY <1>1 DEF BlankInv
    <3>1. q # d
      BY <2>4 DEF Apart
    <3>2. Blank(q)
      BY DEF BlankInv
    <3> QED
      BY <1>1, <2>2, <2>3, <3>1, <3>2 DEF Blank
  <2>10. GhostInv'
    BY <1>1, <2>3, <2>4 DEF GhostInv
  <2>11. ListInv'
    <3> SUFFICES ASSUME NEW r \in Rank, NEW s \in pending[r] \cup stuck[r]
                 PROVE  disposed[r][s] < received'[r][s] \div 2
      BY <1>1 DEF ListInv
    <3>1. s \in Rank /\ disposed[r][s] < received[r][s] \div 2
      BY MemoryTypes DEF ListInv
    <3>2. CASE r # d \/ s # p
      BY <2>3, <3>1, <3>2
    <3>3. CASE r = d /\ s = p
      <4>1. m.value \in Nat
        BY <1>4, <2>1 DEF Signal
      <4>2. /\ received[d][p] \div 2 \in Nat /\ m.value \div 2 \in Nat
            /\ disposed[d][p] \in Nat
        BY <4>1, MemoryTypes
      <4> QED
        BY <2>3, <2>7, <3>1, <3>3, <4>2
    <3> QED
      BY <3>2, <3>3
  <2>12. LinkInv'
    <3> SUFFICES ASSUME NEW q \in Live, NEW x \in Live, SameRound(q, x)
                 PROVE  Fits(q, x, chan[q][x])'
      BY <1>1 DEF LinkInv, SameRound
    <3>1. Fits(q, x, chan[q][x]) /\ q \in Rank /\ x \in Rank
      BY LiveRank DEF LinkInv
    <3>2. CASE q # p \/ x # d
      BY <1>1, <2>2, <2>3, <3>1, <3>2 DEF Fits
    <3>3. CASE q = p /\ x = d
      BY <1>1, <2>2, <2>3, <2>7, <3>3 DEF Fits
    <3> QED
      BY <3>2, <3>3
  <2> QED
    BY <1>2, <2>8, <2>9, <2>10, <2>11, <2>12
<1>7. CASE DeliverAck(p, d)
  <2>1. PICK a \in acks[p][d] :
          /\ acks' = [acks EXCEPT ![p][d] = @ \ {a}]
          /\ consumed' = [consumed EXCEPT ![d][p][a.level] = a.value]
    BY <1>7, Zenon DEF DeliverAck
  <2>2. UNCHANGED <<received, puts, signals>>
    BY <1>7 DEF DeliverAck, receiver
  <2>3. /\ acks'[p][d] = acks[p][d] \ {a}
        /\ \A q, x \in Rank : q # p \/ x # d => acks'[q][x] = acks[q][x]
    BY <1>4, <2>1
  <2>4. /\ consumed'[d][p] = [consumed[d][p] EXCEPT ![a.level] = a.value]
        /\ \A q, x \in Rank : q # p \/ x # d =>
             consumed'[x][q] = consumed[x][q]
    <3> DEFINE k == [consumed[d][p] EXCEPT ![a.level] = a.value]
    <3>1. consumed' = [consumed EXCEPT ![d][p] = k]
      BY <2>1
    <3> HIDE DEF k
    <3>2. /\ consumed'[d][p] = k
          /\ \A q, x \in Rank : q # p \/ x # d =>
               consumed'[x][q] = consumed[x][q]
      BY <1>4, <3>1
    <3> QED
      BY <3>2 DEF k
  <2>5. /\ p \in Live /\ d \in Live /\ ~Apart(p) /\ ~Apart(d)
        /\ SameRound(d, p) /\ Fits(d, p, chan[d][p])
    BY <2>1, Carried DEF Calm
  <2>6. FlowTypes(chan[d][p], consumed[d][p], puts[d][p], signals[d][p],
                  acks[p][d], received[p][d], disposed[p][d])
    BY <1>3, LinkTypes
  <2>7. Flow(chan[d][p], [consumed[d][p] EXCEPT ![a.level] = a.value],
             puts[d][p], signals[d][p], acks[p][d] \ {a}, received[p][d],
             disposed[p][d])
    BY <2>5, <2>6, FlowAck DEF Fits
  <2>8. WireInv'
    <3>1. \A q, x \in Rank : acks'[q][x] \subseteq acks[q][x]
      BY <2>3
    <3> QED
      BY <1>1, <2>2, <3>1 DEF WireInv, Apart, Calm
  <2>9. BlankInv'
    <3> SUFFICES ASSUME NEW q \in Rank, q \notin Live \/ stage[q] = "set"
                 PROVE  Blank(q)'
      BY <1>1 DEF BlankInv
    <3>1. q # d
      BY <2>5 DEF Apart
    <3>2. Blank(q)
      BY DEF BlankInv
    <3> QED
      BY <1>1, <2>2, <2>4, <3>1, <3>2 DEF Blank
  <2>10. GhostInv' /\ ListInv'
    BY <1>1, <2>2 DEF GhostInv, ListInv
  <2>11. LinkInv'
    <3> SUFFICES ASSUME NEW q \in Live, NEW x \in Live, SameRound(q, x)
                 PROVE  Fits(q, x, chan[q][x])'
      BY <1>1 DEF LinkInv, SameRound
    <3>1. Fits(q, x, chan[q][x]) /\ q \in Rank /\ x \in Rank
      BY LiveRank DEF LinkInv
    <3>2. CASE q # d \/ x # p
      BY <1>1, <2>2, <2>3, <2>4, <3>1, <3>2 DEF Fits
    <3>3. CASE q = d /\ x = p
      BY <1>1, <2>2, <2>3, <2>4, <2>7, <3>3 DEF Fits
    <3> QED
      BY <3>2, <3>3
  <2> QED
    BY <1>2, <2>8, <2>9, <2>10, <2>11
<1> QED
  BY <1>5, <1>6, <1>7 DEF Network

-----------------------------------------------------------------------------
(* The rounds *)

\* Two PEs that are as good as new, with nothing on its way between them.
LEMMA BlankFits ==
  ASSUME NEW p \in Live, NEW d \in Live, Blank(p), Blank(d),
         Calm(p, d), Calm(d, p)
  PROVE  Fits(p, d, chan[p][d])
<1> DEFINE c == NewChannel(d)
<1>1. c.emitted = 0 /\ c.delivered = 0 /\ c.inflight = 0
  BY DEF NewChannel
<1> HIDE DEF c
<1>2. Flow(c, [l \in Level |-> 0], {}, {}, {}, 0, 0)
  BY <1>1, FlowNew
<1>3. /\ p \in Rank /\ d \in Rank /\ FirstReceived(p) = 0
  BY LiveRank DEF FirstReceived
<1>4. /\ chan[p][d] = c /\ consumed[p][d] = [l \in Level |-> 0]
      /\ received[d][p] = 0 /\ disposed[d][p] = 0
  BY <1>3 DEF Blank, c
<1>5. puts[p][d] = {} /\ signals[p][d] = {} /\ acks[d][p] = {}
  BY DEF Calm
<1> QED
  BY <1>2, <1>4, <1>5 DEF Fits

LEMMA BlankFitsNext ==
  ASSUME NEW p \in Live, NEW d \in Live, Blank(p)', Blank(d)',
         Calm(p, d)', Calm(d, p)'
  PROVE  Fits(p, d, chan[p][d])'
<1> QED
  BY BlankFits, PTL

\* At first every PE is as good as new.
LEMMA FlowInvInit == Init => FlowInv
<1> SUFFICES ASSUME Init PROVE FlowInv
  OBVIOUS
<1>1. \A p, d \in Rank : Calm(p, d)
  BY DEF Init, Calm
<1>2. \A p \in Rank : Blank(p)
  BY DEF Init, Blank
<1>3. StageInv
  BY LiveRank DEF Init, StageInv, Apart
<1>4. GhostInv
  BY DEF Init, GhostInv, FirstReceived
<1>5. ListInv
  BY DEF Init, ListInv
<1>6. LinkInv
  BY <1>1, <1>2, LiveRank, BlankFits DEF LinkInv
<1> QED
  BY <1>1, <1>2, <1>3, <1>4, <1>5, <1>6 DEF FlowInv, WireInv, BlankInv

\* porter_setup() up to the reduction.  The rest of the group is dormant or
\* has been set up too.
LEMMA SetupFlow ==
  ASSUME TypeInv, FlowInv, NEW p \in Rank, Setup(p)
  PROVE  FlowInv'
<1> USE DEF FlowInv
<1>1. /\ p \in Live /\ stage[p] = "dormant" /\ Apart(p)
      /\ UNCHANGED <<recvbuf, pc, todo, puts, signals, acks>>
  BY DEF Setup, wires, Apart
<1>2. /\ chan \in [Rank -> [Rank -> Channel]]
      /\ consumed \in [Rank -> [Rank -> [Level -> Nat]]]
      /\ stage \in [Rank -> Stages]
  BY DEF TypeInv, TypeOK
<1>3. /\ chan'[p] = [d \in Rank |-> NewChannel(d)]
      /\ consumed'[p] = [d \in Rank |-> [l \in Level |-> 0]]
      /\ received'[p] = [s \in Rank |-> FirstReceived(s)]
      /\ disposed'[p] = [s \in Rank |-> 0]
      /\ pending'[p] = {} /\ stuck'[p] = {} /\ taken'[p] = None
      /\ stage'[p] = "set"
  BY <1>2, MemoryTypes DEF Setup
<1>4. \A q \in Rank \ {p} :
        /\ chan'[q] = chan[q] /\ consumed'[q] = consumed[q]
        /\ received'[q] = received[q] /\ disposed'[q] = disposed[q]
        /\ pending'[q] = pending[q] /\ stuck'[q] = stuck[q]
        /\ taken'[q] = taken[q] /\ stage'[q] = stage[q]
  BY <1>2, MemoryTypes DEF Setup
<1>5. \A q \in Rank : Apart(q)' <=> Apart(q)
  BY <1>1, <1>3, <1>4 DEF Apart
<1>6. pc[p] = "idle"
  BY <1>1 DEF StageInv
<1>7. StageInv'
  BY <1>1, <1>3, <1>4, <1>5, <1>6, LiveRank DEF StageInv
<1>8. WireInv'
  BY <1>1, <1>5 DEF WireInv, Calm
<1>9. Blank(p)'
  BY <1>3 DEF Blank
<1>10. BlankInv'
  BY <1>3, <1>4, <1>9 DEF BlankInv, Blank
<1>11. GhostInv'
  <2> SUFFICES ASSUME NEW q \in Rank
               PROVE  /\ todo'[q] \subseteq Live
                      /\ \A d \in Rank \ Live :
                           /\ chan'[q][d] = NewChannel(d)
                           /\ received'[q][d] = 1 /\ disposed'[q][d] = 0
    BY DEF GhostInv
  <2> QED
    BY <1>1, <1>3, <1>4 DEF GhostInv, FirstReceived
<1>12. ListInv'
  BY <1>3, <1>4 DEF ListInv
<1>13. LinkInv'
  <2> SUFFICES ASSUME NEW q \in Live, NEW d \in Live, SameRound(q, d)'
               PROVE  Fits(q, d, chan[q][d])'
    BY DEF LinkInv
  <2>1. q \in Rank /\ d \in Rank
    BY LiveRank
  <2>2. CASE q # p /\ d # p
    <3>1. SameRound(q, d)
      BY <1>4, <2>1, <2>2 DEF SameRound
    <3> QED
      BY <1>1, <1>4, <2>1, <2>2, <3>1 DEF LinkInv, Fits
  <2>3. CASE q = p \/ d = p
    <3>1. stage'[q] = "set" /\ stage'[d] = "set"
      BY <1>3, <2>3 DEF SameRound
    <3>2. Blank(q)' /\ Blank(d)'
      BY <1>10, <2>1, <3>1 DEF BlankInv
    <3>3. Apart(q)' /\ Apart(d)'
      BY <3>1 DEF Apart
    <3>4. Calm(q, d)' /\ Calm(d, q)'
      BY <1>8, <2>1, <3>3 DEF WireInv
    <3> QED
      BY <3>2, <3>4, BlankFitsNext
  <2> QED
    BY <2>2, <2>3
<1> QED
  BY <1>7, <1>8, <1>10, <1>11, <1>12, <1>13

\* A step that only moves PEs to another stage.
LEMMA StageFlow ==
  ASSUME FlowInv, UNCHANGED <<chan, consumed, receiver, wires, pc, todo>>,
         \A p \in Rank : pc[p] # "idle" => stage'[p] = "working",
         \A p, d \in Live : Apart(p)' <=> Apart(d)',
         \A p, d \in Live : Apart(p)' => Calm(p, d),
         \A p, d \in Live : SameRound(p, d)' => SameRound(p, d),
         \A p \in Live : stage'[p] = "set" => stage[p] = "set"
  PROVE  FlowInv'
<1> USE DEF FlowInv
<1>1. StageInv'
  BY DEF StageInv
<1>2. WireInv'
  <2> SUFFICES ASSUME NEW p \in Rank, NEW d \in Rank,
                 p \notin Live \/ d \notin Live \/ Apart(p)' \/ Apart(d)'
               PROVE  Calm(p, d)
    BY DEF WireInv, Calm, wires
  <2> QED
    BY DEF WireInv
<1>3. BlankInv'
  BY DEF BlankInv, Blank, receiver
<1>4. GhostInv' /\ ListInv'
  BY DEF GhostInv, ListInv, receiver
<1>5. LinkInv'
  BY DEF LinkInv, Fits, receiver, wires
<1> QED
  BY <1>1, <1>2, <1>3, <1>4, <1>5

\* porter_advance(1), porter_reset() and porter_setup()
LEMMA CycleFlow ==
  ASSUME TypeInv, FlowInv,
         \/ \E p \in Rank : Finish(p) \/ Cycle(p)
         \/ ResetBarrier \/ SetupReduction \/ Finished
  PROVE  FlowInv'
<1> USE DEF FlowInv
<1>0. stage \in [Rank -> Stages]
  BY DEF TypeInv, TypeOK
<1>1. ASSUME UNCHANGED <<chan, consumed, receiver, wires, pc, todo, stage>>
      PROVE  FlowInv'
  <2>1. \A p \in Rank : Apart(p)' <=> Apart(p)
    BY <1>1 DEF Apart
  <2>2. \A p, d \in Live : SameRound(p, d)' <=> SameRound(p, d)
    BY <1>1 DEF SameRound
  <2>3. \A p, d \in Live : Apart(p)' => Calm(p, d)
    BY <2>1, LiveRank DEF WireInv
  <2> QED
    BY <1>1, <2>1, <2>2, <2>3, StageFlow, LiveRank DEF StageInv
<1>2. CASE \E p \in Rank : Finish(p)
  BY <1>1, <1>2 DEF Finish, control
<1>3. CASE Finished
  BY <1>1, <1>3 DEF Finished, vars, control, cycle
<1>4. ASSUME NEW p \in Rank, EnterReset(p) PROVE FlowInv'
  <2>1. /\ p \in Live /\ stage[p] = "working" /\ pc[p] = "idle"
        /\ stage' = [stage EXCEPT ![p] = "resetting"]
        /\ UNCHANGED <<chan, consumed, receiver, wires, pc, todo>>
    BY <1>4 DEF EnterReset, Idle, control
  <2>2. \A q \in Rank : Apart(q)' <=> Apart(q)
    BY <1>0, <2>1 DEF Apart
  <2>3. \A q \in Rank : stage'[q] = "set" <=> stage[q] = "set"
    BY <1>0, <2>1
  <2>4. \A q, d \in Live : SameRound(q, d)' <=> SameRound(q, d)
    BY <2>3, LiveRank DEF SameRound
  <2>5. \A q, d \in Live : Apart(q)' => Calm(q, d)
    BY <2>2, LiveRank DEF WireInv
  <2>6. \A q \in Rank : pc[q] # "idle" => stage'[q] = "working"
    BY <1>0, <2>1 DEF StageInv
  <2> QED
    BY <2>1, <2>2, <2>3, <2>4, <2>5, <2>6, StageFlow, LiveRank DEF StageInv
<1>5. ASSUME NEW p \in Rank, Setup(p) PROVE FlowInv'
  BY <1>5, SetupFlow
<1>6. CASE ResetBarrier
  <2>1. /\ \A p \in Live : stage[p] = "resetting"
        /\ \A p, d \in Live : Calm(p, d)
        /\ \A p \in Rank : stage'[p] = "dormant"
        /\ UNCHANGED <<chan, consumed, receiver, wires, pc, todo>>
    BY <1>6, LiveRank DEF ResetBarrier, BarrierMet, AllAt, Quiet, Calm, control
  <2>2. \A p \in Rank : pc[p] = "idle"
    BY <2>1 DEF StageInv
  <2>3. \A p, d \in Live : Apart(p)' <=> Apart(d)'
    BY <2>1, LiveRank DEF Apart
  <2>4. \A p, d \in Live : SameRound(p, d)
    BY <2>1 DEF SameRound
  <2>5. \A p \in Live : stage'[p] # "set"
    BY <2>1, LiveRank
  <2> QED
    BY <2>1, <2>2, <2>3, <2>4, <2>5, StageFlow
<1>7. CASE SetupReduction
  <2>1. /\ \A p \in Live : stage[p] = "set"
        /\ \A p \in Rank : stage'[p] = "working"
        /\ UNCHANGED <<chan, consumed, receiver, wires, pc, todo>>
    BY <1>7 DEF SetupReduction, AllAt, control
  <2>2. \A p \in Rank : ~Apart(p)' /\ stage'[p] # "set"
    BY <2>1 DEF Apart
  <2>3. \A p, d \in Live : SameRound(p, d)
    BY <2>1 DEF SameRound
  <2> QED
    BY <2>1, <2>2, <2>3, StageFlow, LiveRank
<1> QED
  BY <1>2, <1>3, <1>4, <1>5, <1>6, <1>7 DEF Cycle

LEMMA FlowInvNext ==
  ASSUME TypeInv, FlowInv, [Next]_vars
  PROVE  FlowInv'
<1>1. ASSUME NEW p \in Rank, NEW d \in Rank, Push(p, d) PROVE FlowInv'
  BY <1>1, PushFlow
<1>2. ASSUME NEW p \in Rank, NEW d \in Rank, Network(p, d) PROVE FlowInv'
  BY <1>2, NetworkFlow
<1>3. ASSUME NEW p \in Rank, Advance(p) PROVE FlowInv'
  BY <1>3, AdvanceFlow
<1>4. ASSUME NEW p \in Rank, Pull(p) PROVE FlowInv'
  BY <1>4, PullFlow
<1>5. CASE \/ \E p \in Rank : Finish(p) \/ Cycle(p)
           \/ ResetBarrier \/ SetupReduction \/ Finished
  BY <1>5, CycleFlow
<1>6. CASE UNCHANGED vars
  <2>1. UNCHANGED <<chan, consumed, received, disposed, pending, stuck, taken,
                    puts, signals, acks, pc, todo, stage>>
    BY <1>6 DEF vars, receiver, control, cycle, wires
  <2> QED
    BY <2>1 DEF FlowInv, StageInv, WireInv, BlankInv, GhostInv, ListInv,
       LinkInv, Apart, Calm, Blank, SameRound, Fits
<1> QED
  BY <1>1, <1>2, <1>3, <1>4, <1>5, <1>6 DEF Next

LEMMA FlowInvAlways == Spec => [](TypeInv /\ FlowInv)
<1>1. Init => TypeInv /\ FlowInv
  BY TypeInvInit, FlowInvInit
<1>2. TypeInv /\ FlowInv /\ [Next]_vars => (TypeInv /\ FlowInv)'
  BY TypeInvNext, FlowInvNext
<1> QED
  BY <1>1, <1>2, PTL DEF Spec

-----------------------------------------------------------------------------
(* What the flow control of the links gives *)

\* The types of the link from p to d.
LEMMA LinkNow ==
  ASSUME TypeInv, NEW p \in Rank, NEW d \in Rank
  PROVE  FlowTypes(chan[p][d], consumed[p][d], puts[p][d], signals[p][d],
                   acks[d][p], received[d][p], disposed[d][p])
BY Access, LinkTypes

\* The buffers a PE has begun to send and its receiver has not disposed of fit
\* in the receiver's ring, whatever the network does to the acknowledgements:
\* ready() in putp_send() is enough.
THEOREM FlowControlHolds == Spec => []FlowControl
<1>1. ASSUME TypeInv, FlowInv PROVE RingNotOverrun
  <2> SUFFICES ASSUME NEW p \in Live, NEW d \in Live, SameRound(p, d)
               PROVE  chan[p][d].emitted <= disposed[d][p] + Multiplicity
    BY DEF RingNotOverrun
  <2>1. Fits(p, d, chan[p][d])
    BY <1>1 DEF FlowInv, LinkInv
  <2> QED
    BY <1>1, <2>1, LiveRank, LinkNow, FlowRing DEF Fits
<1>2. ASSUME TypeInv, FlowInv PROVE AcksDistinct
  <2> SUFFICES ASSUME NEW d \in Rank, NEW p \in Rank, NEW a \in acks[d][p],
                      NEW b \in acks[d][p], a.level = b.level
               PROVE  a = b
    BY DEF AcksDistinct
  <2>1. Fits(p, d, chan[p][d])
    BY <1>2, Carried DEF Calm
  <2> QED
    BY <1>2, <2>1, LinkNow, FlowDistinct DEF Fits
<1> QED
  BY <1>1, <1>2, FlowInvAlways, PTL DEF FlowControl

\* A nonblocking put never reads the send buffer that porter_push() is filling.
THEOREM SourceStableHolds == Spec => []SourceStable
<1>1. ASSUME TypeInv, FlowInv PROVE SourceStable
  <2> SUFFICES ASSUME Nonblocking, NEW p \in Rank, NEW d \in Rank,
                      NEW m \in puts[p][d], chan[p][d].open
               PROVE  LevelOf(m.n) # LevelOf(chan[p][d].produced)
    BY DEF SourceStable
  <2>1. Fits(p, d, chan[p][d])
    BY <1>1, Carried DEF Calm
  <2> QED
    BY <1>1, <2>1, LinkNow, FlowSource DEF Fits
<1> QED
  BY <1>1, FlowInvAlways, PTL

\* What putp_setup() zeroes stays zero until the next round: the barrier of a
\* reset has waited for everything that was on its way.
THEOREM NoStaleTrafficHolds == Spec => []NoStaleTraffic
<1>1. ASSUME FlowInv PROVE NoStaleTraffic
  BY <1>1, LiveRank DEF NoStaleTraffic, FlowInv, WireInv, Apart, Calm
<1> QED
  BY <1>1, FlowInvAlways, PTL

-----------------------------------------------------------------------------
(* The count of the undelivered tickets *)

\* The ranks whose links have an undelivered ticket, for the channels C.
Awaits(c)  == c.urgent > c.delivered
Urgents(C) == {d \in Rank : Awaits(C[d])}

LEMMA UrgentsFinite == \A C : IsFiniteSet(Urgents(C))
                              /\ Cardinality(Urgents(C)) \in Nat
<1> SUFFICES ASSUME NEW C
             PROVE  IsFiniteSet(Urgents(C)) /\ Cardinality(Urgents(C)) \in Nat
  OBVIOUS
<1>1. IsFiniteSet(Urgents(C))
  BY RankFinite, FS_Subset DEF Urgents
<1> QED
  BY <1>1, FS_CardinalityType

\* porter_record_delivery() counts the tickets that nonblock_progress()
\* delivers.
LEMMA ProgressedCount ==
  ASSUME NEW C, ChansOK(C), NEW force \in BOOLEAN
  PROVE  Cardinality(Urgents(Progressed(C, force)))
           = Cardinality(Urgents(C)) - Crossings(C, force)
<1> DEFINE S == {d \in Owed(C, force) : Crosses(C[d], C[d].emitted)}
           U == Urgents(Progressed(C, force))
<1>1. ASSUME NEW d \in Rank
      PROVE  Awaits(Progressed(C, force)[d]) <=> Awaits(C[d]) /\ d \notin S
  <2>1. /\ C[d] \in Channel /\ C[d].delivered <= C[d].emitted
        /\ C[d].emitted \in Nat /\ C[d].delivered \in Nat /\ C[d].urgent \in Nat
    BY FieldTypes DEF ChansOK, ChanOK
  <2>2. CASE d \notin Owed(C, force)
    <3>1. Progressed(C, force)[d] = C[d]
      BY <2>2 DEF Progressed
    <3> QED
      BY <2>2, <3>1
  <2>3. CASE d \in Owed(C, force)
    <3> DEFINE w == Progressed(C, force)[d]
    <3>1. w = [C[d] EXCEPT !.delivered = C[d].emitted, !.waiting = 0,
                           !.inflight = 0]
      BY <2>1, <2>3 DEF Progressed, Recorded, Channel
    <3> HIDE DEF w
    <3>2. w.urgent = C[d].urgent /\ w.delivered = C[d].emitted
      BY <2>1, <3>1 DEF Channel
    <3>3. Awaits(w) <=> Awaits(C[d]) /\ ~Crosses(C[d], C[d].emitted)
      BY <2>1, <3>2 DEF Awaits, Crosses
    <3> QED
      BY <2>3, <3>3 DEF w
  <2> QED
    BY <2>2, <2>3
<1>2. U = Urgents(C) \ S
  BY <1>1 DEF Urgents
<1>3. S \subseteq Urgents(C)
  <2> SUFFICES ASSUME NEW d \in S PROVE d \in Urgents(C)
    OBVIOUS
  <2>1. d \in Rank /\ Crosses(C[d], C[d].emitted)
    BY DEF Owed
  <2>2. /\ C[d].delivered \in Nat /\ C[d].urgent \in Nat
    BY <2>1, FieldTypes DEF ChansOK
  <2> QED
    BY <2>1, <2>2 DEF Urgents, Awaits, Crosses
<1>4. Urgents(C) \cap S = S
  BY <1>3
<1> HIDE DEF U, S
<1>5. Cardinality(U) = Cardinality(Urgents(C)) - Cardinality(Urgents(C) \cap S)
  BY <1>2, UrgentsFinite, FS_Difference
<1> QED
  BY <1>4, <1>5 DEF U, S, Crossings

\* The channel of one rank replaced.
LEMMA ReplaceCount ==
  ASSUME NEW C, C \in [Rank -> Channel], NEW d \in Rank, NEW b
  PROVE  LET m == Cardinality(Urgents([C EXCEPT ![d] = b]))
             n == Cardinality(Urgents(C))
         IN /\ (Awaits(b) <=> Awaits(C[d])) => m = n
            /\ ~Awaits(b) /\ Awaits(C[d]) => m = n - 1
            /\ Awaits(b) /\ ~Awaits(C[d]) => m = n + 1
<1> DEFINE D == [C EXCEPT ![d] = b]
<1>1. D[d] = b /\ \A x \in Rank \ {d} : D[x] = C[x]
  OBVIOUS
<1> HIDE DEF D
<1>2. CASE Awaits(b) <=> Awaits(C[d])
  <2>1. Urgents(D) = Urgents(C)
    BY <1>1, <1>2 DEF Urgents
  <2> QED
    BY <1>2, <2>1 DEF D
<1>3. CASE ~Awaits(b) /\ Awaits(C[d])
  <2>1. Urgents(D) = Urgents(C) \ {d} /\ d \in Urgents(C)
    BY <1>1, <1>3 DEF Urgents
  <2>2. Cardinality(Urgents(D)) = Cardinality(Urgents(C)) - 1
    BY <2>1, UrgentsFinite, FS_RemoveElement
  <2> QED
    BY <1>3, <2>2 DEF D
<1>4. CASE Awaits(b) /\ ~Awaits(C[d])
  <2>1. Urgents(D) = Urgents(C) \cup {d} /\ d \notin Urgents(C)
    BY <1>1, <1>4 DEF Urgents
  <2>2. Cardinality(Urgents(D)) = Cardinality(Urgents(C)) + 1
    BY <2>1, UrgentsFinite, FS_AddElement
  <2> QED
    BY <1>4, <2>2 DEF D
<1> QED
  BY <1>2, <1>3, <1>4 DEF D

\* A blocking send delivers a ticket, or not; a nonblocking one never does.
LEMMA SentAwaits ==
  ASSUME NEW c, ChanOK(c), NEW e \in c.emitted .. c.produced,
         NEW final \in BOOLEAN
  PROVE  /\ Awaits(Sent(c, e, final)) => Awaits(c)
         /\ Crosses(c, Arrived(c, e))
              <=> Awaits(c) /\ ~Awaits(Sent(c, e, final))
<1> DEFINE w == Sent(c, e, final)
           v == Arrived(c, e)
<1>1. /\ c \in Channel /\ c.delivered \in Nat /\ c.urgent \in Nat
      /\ c.emitted \in Nat /\ e \in Nat /\ c.emitted <= e
      /\ c.produced \in Nat
  BY FieldTypes DEF ChanOK
<1>2. w.urgent = c.urgent /\ w.delivered = v
  <2>1. CASE e = c.emitted
    <3>1. w = c /\ v = c.delivered
      BY <1>1, <2>1 DEF Sent, Arrived
    <3> QED
      BY <3>1
  <2>2. CASE e # c.emitted /\ Nonblocking
    <3> DEFINE sig == SignalFor(e-1, c.bufs[LevelOf(e-1)], final)
    <3>1. w = [c EXCEPT !.inflight = sig, !.emitted = e]
      BY <1>1, <2>2 DEF Sent, Channel
    <3>2. v = c.delivered
      BY <2>2 DEF Arrived
    <3> HIDE DEF sig, w, v
    <3> QED
      BY <1>1, <3>1, <3>2 DEF Channel
  <2>3. CASE e # c.emitted /\ ~Nonblocking
    <3>1. w = [c EXCEPT !.delivered = v, !.waiting = 0, !.emitted = e]
      BY <1>1, <2>3 DEF Sent, Recorded, Channel
    <3> HIDE DEF w, v
    <3> QED
      BY <1>1, <3>1 DEF Channel
  <2> QED
    BY <2>1, <2>2, <2>3
<1>3. v \in Nat /\ c.delivered <= v
  BY <1>1 DEF Arrived
<1> HIDE DEF w, v
<1>4. /\ Awaits(w) => Awaits(c)
      /\ Crosses(c, v) <=> Awaits(c) /\ ~Awaits(w)
  BY <1>1, <1>2, <1>3 DEF Awaits, Crosses
<1> QED
  BY <1>4 DEF w, v

\* n_urgent counts the undelivered tickets of p.
Counts(p) == n_urgent[p] = Cardinality(Urgents(chan[p]))

LEMMA TrySendCount ==
  ASSUME TypeInv, NEW p \in Rank, NEW d \in Rank, NEW C, ChansOK(C), NEW nu,
         nu = Cardinality(Urgents(C)), TrySend(p, d, C, nu)
  PROVE  OnlyOf(p) /\ Counts(p)'
<1>1. OnlyOf(p)
  BY TrySendEffect
<1>2. PICK force \in BOOLEAN, e \in C[d].emitted .. C[d].produced :
        SendEffect(p, d, C, nu, force, e)
  BY TrySendEffect
<1> DEFINE C1    == Progressed(C, force)
           c     == C1[d]
           final == endgame[p] /\ e = c.produced /\ e > c.emitted
           t     == Sent(c, e, final)
           s     == [t EXCEPT !.all_sent = @ \/ final]
           o     == IF Opens(p, s, final) THEN Opened(s) ELSE s
           x     == Crosses(c, Arrived(c, e))
<1>3. /\ chan'[p] = [C1 EXCEPT ![d] = o]
      /\ n_urgent'[p] = nu - Crossings(C, force) - (IF x THEN 1 ELSE 0)
  BY <1>2, Zenon DEF SendEffect
<1>4. /\ ChansOK(C1) /\ c.emitted = C[d].emitted /\ c.produced = C[d].produced
      /\ Crossings(C, force) \in Nat
  BY ProgressedOK
<1>5. ChanOK(c) /\ c \in Channel /\ C1 \in [Rank -> Channel]
  BY <1>4 DEF ChansOK
<1>6. e \in c.emitted .. c.produced /\ final \in BOOLEAN
  BY <1>4
<1>7. Cardinality(Urgents(C1)) = nu - Crossings(C, force)
  BY ProgressedCount
<1>8. ChanOK(t) /\ t \in Channel
  <2>1. ChanOK(t)
    BY <1>5, <1>6, SentOK
  <2> QED
    BY <2>1 DEF ChanOK
<1>9. Awaits(o) <=> Awaits(t)
  <2> HIDE DEF t, final
  <2>1. /\ s.urgent = t.urgent /\ s.delivered = t.delivered /\ s \in Channel
    BY <1>6, <1>8 DEF Channel
  <2> HIDE DEF s
  <2>2. Opened(s).urgent = s.urgent /\ Opened(s).delivered = s.delivered
    BY <2>1 DEF Opened, Channel
  <2> QED
    BY <2>1, <2>2 DEF Awaits
<1>10. (Awaits(t) => Awaits(c)) /\ (x <=> Awaits(c) /\ ~Awaits(t))
  BY <1>5, <1>6, SentAwaits
<1> HIDE DEF o, t, final, x
<1>11. Cardinality(Urgents([C1 EXCEPT ![d] = o]))
         = Cardinality(Urgents(C1)) - (IF x THEN 1 ELSE 0)
  <2> DEFINE m == Cardinality(Urgents([C1 EXCEPT ![d] = o]))
             n == Cardinality(Urgents(C1))
  <2>1. /\ (Awaits(o) <=> Awaits(C1[d])) => m = n
        /\ ~Awaits(o) /\ Awaits(C1[d]) => m = n - 1
    BY <1>5, ReplaceCount
  <2>2. n \in Nat
    BY UrgentsFinite
  <2> HIDE DEF m, n
  <2>3. CASE x
    BY <1>9, <1>10, <2>1, <2>3 DEF m, n
  <2>4. CASE ~x
    BY <1>9, <1>10, <2>1, <2>2, <2>4 DEF m, n
  <2> QED
    BY <2>3, <2>4
<1> QED
  BY <1>1, <1>3, <1>7, <1>11 DEF Counts

CountInv == \A p \in Rank : Counts(p)

LEMMA OthersCount ==
  ASSUME CountInv, NEW p \in Rank, OnlyOf(p), Counts(p)'
  PROVE  CountInv'
BY DEF CountInv, Counts, OnlyOf

\* The assignments that touch neither a ticket nor a delivery.
SameTicket(b, c) == b.urgent = c.urgent /\ b.delivered = c.delivered

LEMMA SameTicketOps ==
  ASSUME NEW c \in Channel, NEW item \in Nat
  PROVE  /\ SameTicket(Written(c, item), c) /\ SameTicket(Closed(c), c)
         /\ \A w \in 0 .. Patience : SameTicket([c EXCEPT !.waiting = w], c)
<1>1. SameTicket(Written(c, item), c)
  <2> DEFINE bs == [c.bufs EXCEPT ![LevelOf(c.produced)] =
                      Append(SubSeq(@, 1, c.fill), item)]
  <2>1. Written(c, item) = [c EXCEPT !.bufs = bs, !.fill = c.fill + 1]
    BY DEF Written, Channel
  <2> HIDE DEF bs
  <2> QED
    BY <2>1 DEF SameTicket, Channel
<1>2. SameTicket(Closed(c), c)
  <2> DEFINE bs == [c.bufs EXCEPT ![LevelOf(c.produced)] = SubSeq(@, 1, c.fill)]
  <2>1. Closed(c) = [c EXCEPT !.bufs = bs, !.open = FALSE, !.fill = 0,
                              !.produced = c.produced + 1]
    BY DEF Closed, Channel
  <2> HIDE DEF bs
  <2> QED
    BY <2>1 DEF SameTicket, Channel
<1>3. \A w \in 0 .. Patience : SameTicket([c EXCEPT !.waiting = w], c)
  BY DEF SameTicket, Channel
<1> QED
  BY <1>1, <1>2, <1>3

\* One assignment to a channel.
LEMMA OneChannelCount ==
  ASSUME TypeInv, NEW p \in Rank, Counts(p), NEW d \in Rank, NEW b,
         SameTicket(b, chan[p][d]), chan' = [chan EXCEPT ![p][d] = b],
         UNCHANGED <<n_urgent, wires>>
  PROVE  OnlyOf(p) /\ Counts(p)'
<1>1. chan \in [Rank -> [Rank -> Channel]]
  BY DEF TypeInv, TypeOK
<1>2. chan'[p] = [chan[p] EXCEPT ![d] = b] /\ OnlyOf(p)
  BY <1>1 DEF OnlyOf, wires
<1>3. Awaits(b) <=> Awaits(chan[p][d])
  BY DEF Awaits, SameTicket
<1>4. Cardinality(Urgents(chan'[p])) = Cardinality(Urgents(chan[p]))
  BY <1>1, <1>2, <1>3, ReplaceCount
<1> QED
  BY <1>2, <1>4 DEF Counts

\* porter_try_send() after an assignment to the channel of d.
LEMMA TrySendFromCount ==
  ASSUME TypeInv, NEW p \in Rank, Counts(p), NEW d \in Rank, NEW b, ChanOK(b),
         SameTicket(b, chan[p][d]),
         TrySend(p, d, [chan[p] EXCEPT ![d] = b], n_urgent[p])
  PROVE  OnlyOf(p) /\ Counts(p)'
<1> DEFINE C == [chan[p] EXCEPT ![d] = b]
<1>1. chan[p] \in [Rank -> Channel] /\ ChansOK(C)
  BY ReplaceOK DEF TypeInv, TypeOK
<1>2. Awaits(b) <=> Awaits(chan[p][d])
  BY DEF Awaits, SameTicket
<1>3. Cardinality(Urgents(C)) = Cardinality(Urgents(chan[p]))
  BY <1>1, <1>2, ReplaceCount
<1>4. TrySend(p, d, C, n_urgent[p]) /\ n_urgent[p] = Cardinality(Urgents(C))
  BY <1>3 DEF Counts
<1> HIDE DEF C
<1> QED
  BY <1>1, <1>4, TrySendCount

LEMMA TrySendNowCount ==
  ASSUME TypeInv, NEW p \in Rank, Counts(p), NEW d \in Rank,
         TrySend(p, d, chan[p], n_urgent[p])
  PROVE  OnlyOf(p) /\ Counts(p)'
BY TrySendCount DEF TypeInv, Counts

LEMMA ProgressAllCount ==
  ASSUME TypeInv, NEW p \in Rank, Counts(p), ProgressAll(p)
  PROVE  OnlyOf(p) /\ Counts(p)'
<1>1. ChansOK(chan[p]) /\ Nonblocking \in BOOLEAN
  BY OptionAssumption DEF TypeInv
<1>2. Cardinality(Urgents(Progressed(chan[p], Nonblocking)))
        = Cardinality(Urgents(chan[p])) - Crossings(chan[p], Nonblocking)
  BY <1>1, ProgressedCount
<1> QED
  BY <1>2, ProgressAllEffect DEF Counts

LEMMA StillCount ==
  ASSUME NEW p \in Rank, Counts(p), UNCHANGED <<chan, n_urgent, wires>>
  PROVE  OnlyOf(p) /\ Counts(p)'
BY DEF Counts, OnlyOf, wires

LEMMA PutTicket ==
  ASSUME TypeInv, NEW p \in Rank, NEW d \in Rank, chan[p][d].open
  PROVE  /\ ChanOK(Put(p, d)) /\ Put(p, d).open
         /\ SameTicket(Put(p, d), chan[p][d])
         /\ Put(p, d).produced = chan[p][d].produced
         /\ ChanOK(Closed(Put(p, d)))
         /\ SameTicket(Closed(Put(p, d)), chan[p][d])
<1>1. /\ chan[p][d] \in Channel /\ pushed[p][d] + 1 \in Nat
      /\ ChanOK(chan[p][d])
  BY Access
<1>2. ChanOK(Put(p, d)) /\ Put(p, d).open /\ Put(p, d) \in Channel
  BY PutSame
<1>3. SameTicket(Put(p, d), chan[p][d])
  BY <1>1, SameTicketOps DEF Put
<1>4. Put(p, d).produced = chan[p][d].produced
  <2> DEFINE c    == chan[p][d]
             item == pushed[p][d] + 1
             bs   == [c.bufs EXCEPT ![LevelOf(c.produced)] =
                        Append(SubSeq(@, 1, c.fill), item)]
  <2>1. Put(p, d) = [c EXCEPT !.bufs = bs, !.fill = c.fill + 1]
    BY <1>1 DEF Put, Written, Channel
  <2> HIDE DEF bs, item
  <2> QED
    BY <1>1, <2>1 DEF Channel
<1>5. ChanOK(Closed(Put(p, d)))
  BY <1>2, ClosedOK
<1>6. SameTicket(Closed(Put(p, d)), Put(p, d))
  <2>1. 0 \in Nat
    OBVIOUS
  <2> QED
    BY <1>2, <2>1, SameTicketOps
<1> QED
  BY <1>2, <1>3, <1>4, <1>5, <1>6 DEF SameTicket

\* A ticket counts unless the link already has an undelivered one.
LEMMA TicketCount ==
  ASSUME TypeInv, NEW p \in Rank, Counts(p), NEW d \in Rank, chan[p][d].open,
         NEW nu,
         nu = n_urgent[p] + (IF chan[p][d].urgent <= chan[p][d].delivered
                             THEN 1 ELSE 0),
         TrySend(p, d, [chan[p] EXCEPT ![d] = Closed(Ticketed(Put(p, d)))], nu)
  PROVE  OnlyOf(p) /\ Counts(p)'
<1> DEFINE w == Put(p, d)
           t == Ticketed(w)
           b == Closed(t)
           c == chan[p][d]
           C == [chan[p] EXCEPT ![d] = b]
<1>1. /\ c \in Channel /\ c.produced \in Nat /\ c.delivered \in Nat
      /\ c.urgent \in Nat /\ c.delivered <= c.emitted /\ c.emitted <= c.produced
      /\ c.emitted \in Nat /\ n_urgent[p] \in Int
  BY Access, FieldTypes DEF ChanOK
<1>2. ChanOK(w) /\ w.open /\ SameTicket(w, c) /\ w.produced = c.produced
  BY PutTicket
<1>3. w \in Channel
  BY <1>2 DEF ChanOK
<1>4. ChanOK(t) /\ t.open /\ t \in Channel
  <2>1. ChanOK(t) /\ t.open
    BY <1>2, TicketedOK
  <2> QED
    BY <2>1 DEF ChanOK
<1>5. t.urgent = c.produced + 1 /\ t.delivered = c.delivered
  <2> HIDE DEF w
  <2>1. t = [w EXCEPT !.urgent = w.produced + 1]
    BY DEF Ticketed
  <2> HIDE DEF t
  <2> QED
    BY <1>2, <1>3, <2>1 DEF Channel, SameTicket
<1> HIDE DEF t
<1>6. ChanOK(b) /\ SameTicket(b, t)
  <2>1. 0 \in Nat
    OBVIOUS
  <2> QED
    BY <1>4, <2>1, ClosedOK, SameTicketOps
<1> HIDE DEF b
<1>7. Awaits(b)
  BY <1>1, <1>5, <1>6 DEF Awaits, SameTicket
<1>8. chan[p] \in [Rank -> Channel] /\ ChansOK(C)
  BY <1>6, ReplaceOK DEF TypeInv, TypeOK
<1>9. nu = Cardinality(Urgents(C))
  <2> DEFINE m == Cardinality(Urgents(C))
             n == Cardinality(Urgents(chan[p]))
  <2>1. /\ (Awaits(b) <=> Awaits(c)) => m = n
        /\ Awaits(b) /\ ~Awaits(c) => m = n + 1
    BY <1>8, ReplaceCount
  <2>2. n = n_urgent[p]
    BY DEF Counts
  <2>3. Awaits(c) <=> ~(c.urgent <= c.delivered)
    BY <1>1 DEF Awaits
  <2> HIDE DEF m, n, c
  <2> QED
    BY <1>1, <1>7, <2>1, <2>2, <2>3 DEF m, c
<1>10. TrySend(p, d, C, nu)
  BY DEF b, t
<1> HIDE DEF C
<1> QED
  BY <1>8, <1>9, <1>10, TrySendCount

LEMMA PushCount ==
  ASSUME TypeInv, CountInv, NEW p \in Rank, NEW d \in Rank, Push(p, d)
  PROVE  CountInv'
<1>1. Counts(p) /\ ChanOK(chan[p][d]) /\ chan[p][d] \in Channel /\ 0 \in Nat
  BY Access DEF CountInv
<1>2. ASSUME PushRoom(p, d) PROVE OnlyOf(p) /\ Counts(p)'
  <2>1. chan[p][d].open
    BY <1>2 DEF PushRoom
  <2>2. \/ TrySend(p, d, [chan[p] EXCEPT ![d] = Closed(Put(p, d))], n_urgent[p])
        \/ chan' = [chan EXCEPT ![p][d] = Put(p, d)]
           /\ UNCHANGED <<n_urgent, wires>>
    BY <1>2 DEF PushRoom
  <2>3. /\ SameTicket(Put(p, d), chan[p][d]) /\ ChanOK(Closed(Put(p, d)))
        /\ SameTicket(Closed(Put(p, d)), chan[p][d])
    BY <2>1, PutTicket
  <2>4. CASE TrySend(p, d, [chan[p] EXCEPT ![d] = Closed(Put(p, d))], n_urgent[p])
    BY ONLY TypeInv, <1>1, <2>3, <2>4, p \in Rank, d \in Rank, TrySendFromCount
  <2>5. CASE chan' = [chan EXCEPT ![p][d] = Put(p, d)] /\ UNCHANGED <<n_urgent, wires>>
    BY ONLY TypeInv, <1>1, <2>3, <2>5, p \in Rank, d \in Rank, OneChannelCount
  <2> QED
    BY <2>2, <2>4, <2>5
<1>3. ASSUME NEW ticket \in BOOLEAN, EPushRoom(p, d, ticket)
      PROVE  OnlyOf(p) /\ Counts(p)'
  <2>1. chan[p][d].open
    BY <1>3 DEF EPushRoom
  <2>2. CASE ticket
    <3> DEFINE nu == n_urgent[p] + (IF chan[p][d].urgent <= chan[p][d].delivered
                                    THEN 1 ELSE 0)
    <3>1. TrySend(p, d, [chan[p] EXCEPT ![d] = Closed(Ticketed(Put(p, d)))], nu)
      BY <1>3, <2>2 DEF EPushRoom
    <3>2. nu = n_urgent[p] + (IF chan[p][d].urgent <= chan[p][d].delivered
                              THEN 1 ELSE 0)
      OBVIOUS
    <3> HIDE DEF nu
    <3> QED
      BY <1>1, <2>1, <3>1, <3>2, TicketCount
  <2>3. CASE ~ticket
    <3>1. \/ TrySend(p, d, [chan[p] EXCEPT ![d] = Closed(Put(p, d))],
                     n_urgent[p] + 0)
          \/ chan' = [chan EXCEPT ![p][d] = Put(p, d)]
             /\ UNCHANGED <<n_urgent, wires>>
      BY <1>3, <2>3 DEF EPushRoom
    <3>2. n_urgent[p] + 0 = n_urgent[p]
      BY Access
    <3>3. /\ ChanOK(Closed(Put(p, d)))
          /\ SameTicket(Closed(Put(p, d)), chan[p][d])
          /\ SameTicket(Put(p, d), chan[p][d])
      BY <2>1, PutTicket
    <3>4. \/ TrySend(p, d, [chan[p] EXCEPT ![d] = Closed(Put(p, d))],
                     n_urgent[p])
          \/ chan' = [chan EXCEPT ![p][d] = Put(p, d)]
             /\ UNCHANGED <<n_urgent, wires>>
      BY <3>1, <3>2
    <3>5. CASE TrySend(p, d, [chan[p] EXCEPT ![d] = Closed(Put(p, d))],
                       n_urgent[p])
      BY <1>1, <3>3, <3>5, TrySendFromCount
    <3>6. CASE chan' = [chan EXCEPT ![p][d] = Put(p, d)]
               /\ UNCHANGED <<n_urgent, wires>>
      BY <1>1, <3>3, <3>6, OneChannelCount
    <3> QED
      BY <3>4, <3>5, <3>6
  <2> QED
    BY <2>2, <2>3
<1>4. ASSUME PushNoRoom(p, d) PROVE OnlyOf(p) /\ Counts(p)'
  <2>1. \/ TrySend(p, d, chan[p], n_urgent[p])
        \/ /\ chan[p][d].open
           /\ TrySend(p, d, [chan[p] EXCEPT ![d] = Closed(chan[p][d])],
                      n_urgent[p])
    BY <1>4 DEF PushNoRoom
  <2>2. chan[p][d].open => ChanOK(Closed(chan[p][d]))
    BY <1>1, ClosedOK
  <2>3. SameTicket(Closed(chan[p][d]), chan[p][d])
    BY <1>1, SameTicketOps
  <2> QED
    BY <1>1, <2>1, <2>2, <2>3, TrySendNowCount, TrySendFromCount
<1> QED
  BY <1>2, <1>3, <1>4, OthersCount DEF Push

LEMMA EnsureProgressCount ==
  ASSUME TypeInv, NEW p \in Rank, Counts(p), NEW d \in Rank,
         EnsureProgress(p, d)
  PROVE  OnlyOf(p) /\ Counts(p)'
<1> DEFINE c       == chan[p][d]
           full    == c.produced > c.delivered
           partial == c.open /\ c.fill > 0
<1>1. ChanOK(c) /\ c \in Channel /\ 0 \in Nat
  BY Access
<1>2. ASSUME NEW w \in 0 .. Patience,
             chan' = [chan EXCEPT ![p][d].waiting = w],
             UNCHANGED <<n_urgent, wires>>
      PROVE  OnlyOf(p) /\ Counts(p)'
  <2>1. SameTicket([c EXCEPT !.waiting = w], c)
    BY <1>1, SameTicketOps
  <2>2. chan' = [chan EXCEPT ![p][d] = [c EXCEPT !.waiting = w]]
    BY <1>2
  <2> QED
    BY <1>2, <2>1, <2>2, OneChannelCount
<1>3. CASE c.waiting \in 1 .. Patience-1
  <2>1. c.waiting + 1 \in 0 .. Patience
    BY <1>3 DEF Patience
  <2> QED
    BY <1>2, <1>3, <2>1 DEF EnsureProgress
<1>4. CASE c.waiting \notin 1 .. Patience-1 /\ c.waiting > 0
  <2> DEFINE b == IF ~full /\ partial THEN Closed(c) ELSE c
  <2>1. ChanOK(b) /\ SameTicket(b, c)
    BY <1>1, ClosedOK, SameTicketOps DEF SameTicket
  <2>2. TrySend(p, d, [chan[p] EXCEPT ![d] = b], n_urgent[p])
    BY <1>4 DEF EnsureProgress
  <2> QED
    BY <2>1, <2>2, TrySendFromCount
<1>5. CASE ~(c.waiting > 0)
  <2> DEFINE w == IF full \/ partial THEN 1 ELSE c.waiting
  <2>1. w \in 0 .. Patience
    BY <1>1, <1>5, FieldTypes DEF Patience
  <2>2. chan' = [chan EXCEPT ![p][d].waiting = w]
        /\ UNCHANGED <<n_urgent, wires>>
    BY <1>5 DEF EnsureProgress, Patience
  <2> QED
    BY <1>2, <2>1, <2>2
<1> QED
  BY <1>3, <1>4, <1>5

LEMMA AdvanceCount ==
  ASSUME TypeInv, CountInv, NEW p \in Rank, Advance(p)
  PROVE  CountInv'
<1>1. Counts(p) /\ todo[p] \subseteq Rank /\ phase[p] \in Rank
  BY DEF CountInv, TypeInv, TypeOK
<1>2. ASSUME StartAdvance(p) PROVE OnlyOf(p) /\ Counts(p)'
  <2>1. EnsureProgress(p, phase[p]) \/ UNCHANGED <<chan, n_urgent, wires>>
    BY <1>2 DEF StartAdvance
  <2> QED
    BY <1>1, <2>1, EnsureProgressCount, StillCount
<1>3. ASSUME UrgentSend(p) PROVE OnlyOf(p) /\ Counts(p)'
  <2>1. PICK d \in todo[p] : TrySend(p, d, chan[p], n_urgent[p])
    BY <1>3, Zenon DEF UrgentSend
  <2> QED
    BY <1>1, <2>1, TrySendNowCount
<1>4. ASSUME UrgentProgress(p) \/ FlushProgress(p)
      PROVE  OnlyOf(p) /\ Counts(p)'
  <2>1. ProgressAll(p)
    BY <1>4 DEF UrgentProgress, FlushProgress
  <2> QED
    BY <1>1, <2>1, ProgressAllCount
<1>5. ASSUME ResumeFlush(p) PROVE OnlyOf(p) /\ Counts(p)'
  BY <1>1, <1>5, StillCount DEF ResumeFlush
<1>6. ASSUME FlushSend(p) PROVE OnlyOf(p) /\ Counts(p)'
  <2> DEFINE b(d) == IF chan[p][d].open THEN Closed(chan[p][d]) ELSE chan[p][d]
  <2>1. PICK d \in todo[p] :
          TrySend(p, d, [chan[p] EXCEPT ![d] = b(d)], n_urgent[p])
    BY <1>6, Zenon DEF FlushSend
  <2>2. d \in Rank /\ ChanOK(chan[p][d]) /\ chan[p][d] \in Channel /\ 0 \in Nat
    BY <1>1, Access
  <2>3. ChanOK(b(d)) /\ SameTicket(b(d), chan[p][d])
    BY <2>2, ClosedOK, SameTicketOps DEF SameTicket
  <2> QED
    BY <1>1, <2>1, <2>2, <2>3, TrySendFromCount
<1> QED
  BY <1>2, <1>3, <1>4, <1>5, <1>6, OthersCount DEF Advance

LEMMA CountInvInit == Init => CountInv
<1> SUFFICES ASSUME Init, NEW p \in Rank PROVE Counts(p)
  BY DEF CountInv
<1>1. \A d \in Rank : chan[p][d] = NewChannel(d)
  BY DEF Init
<1>2. \A d \in Rank : ~Awaits(NewChannel(d))
  BY DEF NewChannel, Awaits
<1>3. Urgents(chan[p]) = {}
  BY <1>1, <1>2 DEF Urgents
<1> QED
  BY <1>3, FS_EmptySet DEF Init, Counts

LEMMA CountInvNext ==
  ASSUME TypeInv, CountInv, [Next]_vars
  PROVE  CountInv'
<1>1. ASSUME UNCHANGED <<chan, n_urgent>> PROVE CountInv'
  BY <1>1 DEF CountInv, Counts
<1>2. ASSUME NEW p \in Rank, Setup(p) PROVE CountInv'
  <2>1. /\ chan' = [chan EXCEPT ![p] = [d \in Rank |-> NewChannel(d)]]
        /\ n_urgent' = [n_urgent EXCEPT ![p] = 0]
    BY <1>2 DEF Setup
  <2>2. chan \in [Rank -> [Rank -> Channel]] /\ n_urgent \in [Rank -> Int]
    BY DEF TypeInv, TypeOK
  <2>3. \A d \in Rank : ~Awaits(NewChannel(d))
    BY DEF NewChannel, Awaits
  <2>4. /\ \A q \in Rank \ {p} : chan'[q] = chan[q] /\ n_urgent'[q] = n_urgent[q]
        /\ \A d \in Rank : chan'[p][d] = NewChannel(d)
        /\ n_urgent'[p] = 0
    BY <2>1, <2>2
  <2>5. Urgents(chan'[p]) = {}
    BY <2>3, <2>4 DEF Urgents
  <2>6. Counts(p)'
    BY <2>4, <2>5, FS_EmptySet DEF Counts
  <2> QED
    BY <2>4, <2>6 DEF CountInv, Counts
<1>3. ASSUME NEW p \in Rank, NEW d \in Rank, Network(p, d) PROVE CountInv'
  BY <1>1, <1>3 DEF Network, DeliverData, DeliverSignal, DeliverAck
<1>4. ASSUME NEW p \in Rank, Pull(p) PROVE CountInv'
  BY <1>1, <1>4 DEF Pull, Borrow, Take, Return
<1>5. ASSUME NEW p \in Rank, Finish(p) \/ EnterReset(p) PROVE CountInv'
  BY <1>1, <1>5 DEF Finish, EnterReset
<1>6. CASE ResetBarrier \/ SetupReduction \/ Finished \/ UNCHANGED vars
  BY <1>1, <1>6 DEF ResetBarrier, SetupReduction, Finished, vars
<1> QED
  BY <1>2, <1>3, <1>4, <1>5, <1>6, PushCount, AdvanceCount DEF Next, Cycle

\* n_urgent is the number of links with an undelivered ticket, so that
\* porter_advance() may skip porter_try_urgent() when it is zero: no delivery
\* is recorded twice and no ticket is counted twice.
THEOREM UrgentCountHolds == Spec => []UrgentCount
<1>1. Init => TypeInv /\ CountInv
  BY TypeInvInit, CountInvInit
<1>2. TypeInv /\ CountInv /\ [Next]_vars => (TypeInv /\ CountInv)'
  BY TypeInvNext, CountInvNext
<1>3. CountInv => UrgentCount
  BY LiveRank DEF CountInv, Counts, Urgents, Awaits, UrgentCount
<1> QED
  BY <1>1, <1>2, <1>3, PTL DEF Spec

-----------------------------------------------------------------------------
(* What a link holds *)

\* Buffer n of a link holds the items f[n]+1 .. f[n+1].
IsRun(s, f, n) == /\ Len(s) = f[n+1] - f[n]
                  /\ \A i \in 1 .. Len(s) : s[i] = f[n] + i

\* What the sender holds, np items having been pushed.  Only the last buffer
\* of the endgame is empty, and only when nothing follows it.
Filled(c, f, eg, np) ==
  /\ f[0] = 0
  /\ \A i, j \in 0 .. c.produced : i <= j => f[i] <= f[j]
  /\ \A n \in 0 .. c.produced-1 :
       \/ f[n] < f[n+1]
       \/ /\ n = c.produced-1 /\ eg /\ ~c.open
          /\ c.emitted = c.produced => c.all_sent
  /\ np = f[c.produced] + c.fill
  /\ c.fill > 0 => c.open
  /\ \A i \in 1 .. c.fill : c.bufs[LevelOf(c.produced)][i] = f[c.produced] + i
  /\ \A n \in c.delivered .. c.produced-1 : IsRun(c.bufs[LevelOf(n)], f, n)
  /\ c.all_sent => eg /\ ~c.open /\ c.emitted = c.produced

\* Buffer n is at the receiver, which has consumed D buffers and some items of
\* the next.
Landed(b, f, n, D, gs) ==
  /\ IsRun(b.items, f, n)
  /\ n = D => f[D] + b.start = Len(gs) /\ Len(gs) <= f[D+1]
  /\ n # D => b.start = 0

\* Every buffer emitted is empty, on its way or there, and what the receiver
\* has taken are the items from the first on.
Arrives(e, f, P, rb, rcv, D, gs) ==
  /\ \A m \in P : /\ rcv <= 2 * m.n + 1 /\ f[m.n] < f[m.n+1]
                  /\ ~Nonblocking => IsRun(m.items, f, m.n)
  /\ \A n \in D .. e-1 : \/ f[n] = f[n+1]
                         \/ \E m \in P : m.n = n
                         \/ Landed(rb[LevelOf(n)], f, n, D, gs)
  /\ (D = e \/ f[D] = f[D+1] \/ \E m \in P : m.n = D) => Len(gs) = f[D]
  /\ \A i \in 1 .. Len(gs) : gs[i] = i

\* The signal v tells of buffers that have items, and if it is odd of all.
Tells(c, f, v) ==
  /\ \A n \in Nat : n < v \div 2 => f[n] < f[n+1]
  /\ v % 2 = 1 => c.all_sent /\ f[v \div 2] = f[c.produced]

Told(c, f, S, rcv) ==
  /\ Tells(c, f, rcv) /\ Tells(c, f, c.inflight)
  /\ \A x \in S : Tells(c, f, x.value)
  /\ \A x \in S : x.value % 2 = 1 => x.n + 1 = c.produced
  /\ rcv % 2 = 1 => S = {} /\ c.inflight = 0

\* The two ends of a link hold the items pushed on it.
Carries(c, f, eg, np, P, S, rb, rcv, D, gs) ==
  /\ Filled(c, f, eg, np) /\ Arrives(c.emitted, f, P, rb, rcv, D, gs)
  /\ Told(c, f, S, rcv)

\* The assignments that none of this sees.
SameData(b, c) ==
  /\ b.bufs = c.bufs /\ b.open = c.open /\ b.fill = c.fill
  /\ b.produced = c.produced /\ b.emitted = c.emitted
  /\ b.delivered = c.delivered /\ b.inflight = c.inflight
  /\ b.all_sent = c.all_sent

LEMMA CarriesSame ==
  ASSUME NEW b, NEW c, SameData(b, c), NEW f, NEW eg \in BOOLEAN,
         NEW g \in BOOLEAN, eg => g, NEW np, NEW P, NEW S, NEW rb, NEW rcv,
         NEW D, NEW gs, Carries(c, f, eg, np, P, S, rb, rcv, D, gs)
  PROVE  Carries(b, f, g, np, P, S, rb, rcv, D, gs)
<1>1. Filled(b, f, g, np)
  BY DEF Carries, Filled, SameData
<1>2. Arrives(b.emitted, f, P, rb, rcv, D, gs) /\ Told(b, f, S, rcv)
  BY DEF Carries, Told, Tells, SameData
<1> QED
  BY <1>1, <1>2 DEF Carries

\* What the lemmas below assume of a link.
LinkOK(c, f, cons, P, S, A, rb, rcv, D, gs, np) ==
  /\ FlowTypes(c, cons, P, S, A, rcv, D) /\ Flow(c, cons, P, S, A, rcv, D)
  /\ f \in [Nat -> Nat] /\ np \in Nat /\ gs \in Seq(Nat)
  /\ rb \in [Level -> [start : Nat, items : Seq(Nat)]]

LEMMA LinkFields ==
  ASSUME NEW c, NEW f, NEW cons, NEW P, NEW S, NEW A, NEW rb, NEW rcv, NEW D,
         NEW gs, NEW np, LinkOK(c, f, cons, P, S, A, rb, rcv, D, gs, np)
  PROVE  /\ ChanOK(c) /\ c \in Channel
         /\ c.produced \in Nat /\ c.emitted \in Nat /\ c.delivered \in Nat
         /\ c.fill \in Nat /\ c.inflight \in Nat /\ c.open \in BOOLEAN
         /\ c.all_sent \in BOOLEAN /\ c.bufs \in [Level -> Seq(Nat)]
         /\ c.delivered <= c.emitted /\ c.emitted <= c.produced
         /\ rcv \in Nat /\ D \in Nat /\ D <= rcv \div 2
         /\ rcv <= 2 * c.delivered + 1 /\ rcv \div 2 <= c.delivered
         /\ rcv \div 2 \in Nat
         /\ c.emitted <= D + Multiplicity
<1>1. ChanOK(c) /\ c \in Channel /\ rcv \in Nat /\ D \in Nat
  BY DEF LinkOK, FlowTypes, ChanOK
<1>2. /\ c.produced \in Nat /\ c.emitted \in Nat /\ c.delivered \in Nat
      /\ c.fill \in Nat /\ c.inflight \in Nat /\ c.open \in BOOLEAN
      /\ c.all_sent \in BOOLEAN /\ c.bufs \in [Level -> Seq(Nat)]
  BY <1>1, FieldTypes
<1>3. rcv <= 2 * c.delivered + 1 /\ D <= rcv \div 2
  BY DEF LinkOK, Flow, Signalled
<1>4. rcv \div 2 <= c.delivered /\ rcv \div 2 \in Nat
  BY <1>1, <1>2, <1>3
<1>5. c.emitted <= D + Multiplicity
  BY FlowRing DEF LinkOK
<1>6. c.delivered <= c.emitted /\ c.emitted <= c.produced
  BY <1>1 DEF ChanOK
<1> QED
  BY <1>1, <1>2, <1>3, <1>4, <1>5, <1>6

\* Buffers less than a turn of the ring apart are on different levels.
LEMMA Elsewhere ==
  ASSUME NEW n \in Nat, NEW k \in Nat, n # k, n < k + Multiplicity,
         k < n + Multiplicity
  PROVE  LevelOf(n) # LevelOf(k)
<1>1. CASE n < k
  BY <1>1, LevelGap, MultiplicityAssumption
<1>2. CASE k < n
  BY <1>2, LevelGap, MultiplicityAssumption
<1> QED
  BY <1>1, <1>2

\* The two operators on sequences, by element.
LEMMA AppendCut ==
  ASSUME NEW s \in Seq(Nat), NEW k \in Nat, k <= Len(s), NEW x \in Nat
  PROVE  LET t == Append(SubSeq(s, 1, k), x)
         IN /\ t \in Seq(Nat) /\ Len(t) = k + 1 /\ t[k + 1] = x
            /\ \A i \in 1 .. k : t[i] = s[i]
<1> DEFINE u == SubSeq(s, 1, k)
<1>1. u \in Seq(Nat) /\ Len(u) = k /\ \A i \in 1 .. k : u[i] = s[i]
  OBVIOUS
<1> HIDE DEF u
<1> QED
  BY <1>1 DEF u

LEMMA Cut ==
  ASSUME NEW s \in Seq(Nat), NEW k \in Nat, k <= Len(s)
  PROVE  LET t == SubSeq(s, 1, k)
         IN /\ t \in Seq(Nat) /\ Len(t) = k
            /\ \A i \in 1 .. k : t[i] = s[i]
OBVIOUS

\* A packet is written behind the last one.
LEMMA DataWrite ==
  ASSUME NEW c, NEW f, NEW cons, NEW P, NEW S, NEW A, NEW rb, NEW rcv, NEW D,
         NEW gs, NEW np, LinkOK(c, f, cons, P, S, A, rb, rcv, D, gs, np),
         NEW eg \in BOOLEAN, c.open,
         Carries(c, f, eg, np, P, S, rb, rcv, D, gs)
  PROVE  Carries(Written(c, np + 1), f, eg, np + 1, P, S, rb, rcv, D, gs)
<1> DEFINE l  == LevelOf(c.produced)
           b  == Append(SubSeq(c.bufs[l], 1, c.fill), np + 1)
           bs == [c.bufs EXCEPT ![l] = b]
           w  == Written(c, np + 1)
<1>0. /\ c.produced \in Nat /\ c.delivered \in Nat
      /\ c.produced < c.delivered + Multiplicity
  BY LinkFields DEF ChanOK
<1>1. /\ ChanOK(c) /\ c \in Channel /\ c.produced \in Nat /\ c.fill \in Nat
      /\ c.bufs \in [Level -> Seq(Nat)] /\ c.emitted \in Nat
      /\ c.delivered \in Nat /\ c.delivered <= c.emitted
      /\ c.emitted <= c.produced /\ c.open \in BOOLEAN
  BY LinkFields
<1>2. /\ np \in Nat /\ l \in Level /\ c.fill <= Len(c.bufs[l])
      /\ f \in [Nat -> Nat]
  <2>1. l \in Level
    BY <1>0, LevelType
  <2>2. c.fill <= Len(c.bufs[l])
    BY <1>1, Zenon DEF ChanOK
  <2> QED
    BY <2>1, <2>2, Zenon DEF LinkOK
<1>3. /\ b \in Seq(Nat) /\ Len(b) = c.fill + 1 /\ b[c.fill + 1] = np + 1
      /\ \A i \in 1 .. c.fill : b[i] = c.bufs[l][i]
  <2>1. c.bufs[l] \in Seq(Nat) /\ np + 1 \in Nat
    BY <1>1, <1>2
  <2> DEFINE q == c.bufs[l]
  <2>2. q \in Seq(Nat) /\ c.fill \in Nat /\ c.fill <= Len(q)
    BY <1>1, <1>2, <2>1
  <2> HIDE DEF q
  <2>3. LET t == Append(SubSeq(q, 1, c.fill), np + 1)
        IN /\ t \in Seq(Nat) /\ Len(t) = c.fill + 1 /\ t[c.fill + 1] = np + 1
           /\ \A i \in 1 .. c.fill : t[i] = q[i]
    BY <2>1, <2>2, AppendCut
  <2> QED
    BY <2>3 DEF q
<1>4. w = [c EXCEPT !.bufs = bs, !.fill = c.fill + 1]
  BY <1>1 DEF Written, Channel
<1>5. /\ bs[l] = b /\ \A k \in Level : k # l => bs[k] = c.bufs[k]
  BY <1>1, <1>2
<1> HIDE DEF b, bs, w
<1>6. /\ w.bufs = bs /\ w.fill = c.fill + 1 /\ w.open = c.open
      /\ w.produced = c.produced /\ w.emitted = c.emitted
      /\ w.delivered = c.delivered /\ w.inflight = c.inflight
      /\ w.all_sent = c.all_sent
  BY <1>1, <1>4 DEF Channel
<1>7. Filled(w, f, eg, np + 1)
  <2>1. /\ f[0] = 0
        /\ \A i, j \in 0 .. c.produced : i <= j => f[i] <= f[j]
        /\ \A n \in 0 .. c.produced-1 :
             \/ f[n] < f[n+1]
             \/ /\ n = c.produced-1 /\ eg /\ ~c.open
                /\ c.emitted = c.produced => c.all_sent
        /\ c.all_sent => eg /\ ~c.open /\ c.emitted = c.produced
    BY DEF Carries, Filled
  <2>2. np = f[c.produced] + c.fill /\ f[c.produced] \in Nat
    BY <1>1, <1>2 DEF Carries, Filled
  <2>3. \A i \in 1 .. c.fill : c.bufs[l][i] = f[c.produced] + i
    BY DEF Carries, Filled
  <2>4. \A i \in 1 .. c.fill + 1 : bs[l][i] = f[c.produced] + i
    <3> SUFFICES ASSUME NEW i \in 1 .. c.fill + 1
                 PROVE  b[i] = f[c.produced] + i
      BY <1>5
    <3>1. CASE i = c.fill + 1
      BY <1>1, <1>3, <2>2, <3>1
    <3>2. CASE i # c.fill + 1
      <4>1. i \in 1 .. c.fill
        BY <1>1, <3>2
      <4> QED
        BY <1>3, <2>3, <4>1
    <3> QED
      BY <3>1, <3>2
  <2>5. ASSUME NEW n \in c.delivered .. c.produced-1
        PROVE  IsRun(bs[LevelOf(n)], f, n)
    <3>1. n \in Nat /\ n < c.produced /\ c.produced < n + Multiplicity
      BY <1>0, MultiplicityAssumption
    <3>2. LevelOf(n) # l /\ LevelOf(n) \in Level
      BY <1>1, <3>1, LevelType, Elsewhere, MultiplicityAssumption
    <3>3. IsRun(c.bufs[LevelOf(n)], f, n)
      BY DEF Carries, Filled
    <3> QED
      BY <1>5, <3>2, <3>3
  <2>6. np + 1 = f[c.produced] + (c.fill + 1)
    BY <1>1, <2>2
  <2> QED
    BY <1>6, <2>1, <2>4, <2>5, <2>6 DEF Filled
<1>8. Arrives(w.emitted, f, P, rb, rcv, D, gs) /\ Told(w, f, S, rcv)
  BY <1>6 DEF Carries, Told, Tells
<1> QED
  BY <1>7, <1>8 DEF Carries, w

\* A change of f beyond what has been produced.
Agree(f, g, k) == \A n \in 0 .. k : g[n] = f[n]

LEMMA ArrivesAgree ==
  ASSUME NEW f, NEW g, NEW e \in Nat, NEW k \in Nat, e <= k, Agree(f, g, k),
         NEW P, P \subseteq Data, \A m \in P : m.n < e,
         NEW rb, NEW rcv, NEW D \in Nat, D <= e, NEW gs,
         Arrives(e, f, P, rb, rcv, D, gs)
  PROVE  Arrives(e, g, P, rb, rcv, D, gs)
<1>1. \A n \in 0 .. e-1 : g[n] = f[n] /\ g[n+1] = f[n+1]
  BY DEF Agree
<1>2. \A m \in P : m.n \in 0 .. e-1
  BY DEF Data
<1>3. g[D] = f[D] /\ (D # e => g[D+1] = f[D+1])
  BY DEF Agree
<1>4. \A m \in P : /\ rcv <= 2 * m.n + 1 /\ g[m.n] < g[m.n+1]
                   /\ ~Nonblocking => IsRun(m.items, g, m.n)
  <2> SUFFICES ASSUME NEW m \in P
               PROVE  /\ rcv <= 2 * m.n + 1 /\ g[m.n] < g[m.n+1]
                      /\ ~Nonblocking => IsRun(m.items, g, m.n)
    OBVIOUS
  <2>1. /\ rcv <= 2 * m.n + 1 /\ f[m.n] < f[m.n+1]
        /\ ~Nonblocking => IsRun(m.items, f, m.n)
    BY DEF Arrives
  <2>2. g[m.n] = f[m.n] /\ g[m.n+1] = f[m.n+1]
    BY <1>1, <1>2
  <2> QED
    BY <2>1, <2>2 DEF IsRun
<1>5. ASSUME NEW n \in D .. e-1
      PROVE  \/ g[n] = g[n+1]
             \/ \E m \in P : m.n = n
             \/ Landed(rb[LevelOf(n)], g, n, D, gs)
  <2>1. n \in 0 .. e-1 /\ D # e
    OBVIOUS
  <2>2. \/ f[n] = f[n+1]
        \/ \E m \in P : m.n = n
        \/ Landed(rb[LevelOf(n)], f, n, D, gs)
    BY DEF Arrives
  <2>3. Landed(rb[LevelOf(n)], f, n, D, gs)
          => Landed(rb[LevelOf(n)], g, n, D, gs)
    BY <1>1, <1>3, <2>1 DEF Landed, IsRun
  <2> QED
    BY <1>1, <2>1, <2>2, <2>3
<1>6. (D = e \/ g[D] = g[D+1] \/ \E m \in P : m.n = D) => Len(gs) = g[D]
  BY <1>3 DEF Arrives
<1>7. \A i \in 1 .. Len(gs) : gs[i] = i
  BY DEF Arrives
<1> QED
  BY <1>4, <1>5, <1>6, <1>7 DEF Arrives

\* The number of buffers that a signal counts.
LEMMA SignalCounts ==
  ASSUME NEW c, NEW f, NEW cons, NEW P, NEW S, NEW A, NEW rb, NEW rcv, NEW D,
         NEW gs, NEW np, LinkOK(c, f, cons, P, S, A, rb, rcv, D, gs, np)
  PROVE  /\ c.inflight \div 2 \in Nat /\ c.inflight \div 2 <= c.emitted
         /\ \A x \in S : /\ x.value \div 2 \in Nat /\ x.value \in Nat
                         /\ x.n \in Nat /\ x.value \div 2 <= c.delivered
                         /\ x.n < c.delivered
                         /\ 2 * x.n <= x.value /\ x.value <= 2 * x.n + 3
<1>1. c.inflight \in Nat /\ c.emitted \in Nat /\ c.delivered \in Nat
  BY LinkFields
<1>2. c.inflight <= 2 * c.emitted + 1
  <2>1. c.inflight # 0 => c.inflight <= 2 * c.emitted + 1
    BY DEF LinkOK, Flow, Recording
  <2>2. CASE c.inflight = 0
    BY <1>1, <2>2
  <2> QED
    BY <2>1, <2>2
<1>3. ASSUME NEW x \in S
      PROVE  /\ x.value \div 2 \in Nat /\ x.value \in Nat
             /\ x.n \in Nat /\ x.value \div 2 <= c.delivered
             /\ x.n < c.delivered
             /\ 2 * x.n <= x.value /\ x.value <= 2 * x.n + 3
  <2>1. x.value \in Nat /\ x.n \in Nat
    BY DEF LinkOK, FlowTypes, Signal
  <2>2. /\ x.n < c.delivered /\ x.value <= 2 * x.n + 3 /\ 2 * x.n <= x.value
    BY DEF LinkOK, Flow, Signalled
  <2> QED
    BY <1>1, <2>1, <2>2
<1> QED
  BY <1>1, <1>2, <1>3

\* The sender closes its buffer.
LEMMA DataClose ==
  ASSUME NEW c, NEW f, NEW cons, NEW P, NEW S, NEW A, NEW rb, NEW rcv, NEW D,
         NEW gs, NEW np, LinkOK(c, f, cons, P, S, A, rb, rcv, D, gs, np),
         NEW eg \in BOOLEAN, c.open, eg \/ c.fill > 0,
         Carries(c, f, eg, np, P, S, rb, rcv, D, gs)
  PROVE  \E g \in [Nat -> Nat] :
           Carries(Closed(c), g, eg, np, P, S, rb, rcv, D, gs)
<1> DEFINE l  == LevelOf(c.produced)
           k  == c.produced + 1
           b  == SubSeq(c.bufs[l], 1, c.fill)
           bs == [c.bufs EXCEPT ![l] = b]
           w  == Closed(c)
           g  == [f EXCEPT ![k] = np]
<1>0. /\ c.produced \in Nat /\ c.delivered \in Nat
      /\ c.produced < c.delivered + Multiplicity
  BY LinkFields DEF ChanOK
<1>1. /\ ChanOK(c) /\ c \in Channel /\ c.produced \in Nat /\ c.fill \in Nat
      /\ c.bufs \in [Level -> Seq(Nat)] /\ c.emitted \in Nat
      /\ c.delivered \in Nat /\ c.delivered <= c.emitted
      /\ c.emitted <= c.produced /\ c.open \in BOOLEAN
      /\ c.all_sent \in BOOLEAN
  BY LinkFields
<1>2. /\ np \in Nat /\ l \in Level /\ c.fill <= Len(c.bufs[l])
      /\ f \in [Nat -> Nat]
  <2>1. l \in Level
    BY <1>0, LevelType
  <2>2. c.fill <= Len(c.bufs[l])
    BY <1>1, Zenon DEF ChanOK
  <2> QED
    BY <2>1, <2>2, Zenon DEF LinkOK
<1>k. k \in Nat /\ k # 0 /\ k - 1 = c.produced /\ c.produced \in 0 .. k
  BY <1>0
<1>3. /\ Len(b) = c.fill /\ \A i \in 1 .. c.fill : b[i] = c.bufs[l][i]
  BY <1>1, <1>2, Cut
<1>4. w = [c EXCEPT !.bufs = bs, !.open = FALSE, !.fill = 0, !.produced = k]
  BY <1>1 DEF Closed, Channel
<1>5. /\ bs[l] = b /\ \A m \in Level : m # l => bs[m] = c.bufs[m]
  BY <1>1, <1>2
<1>6. g \in [Nat -> Nat] /\ g[k] = np /\ Agree(f, g, c.produced)
  <2> HIDE DEF k
  <2>1. g \in [Nat -> Nat] /\ g[k] = np /\ \A n \in Nat : n # k => g[n] = f[n]
    BY <1>2, <1>k
  <2>2. \A n \in 0 .. c.produced : n \in Nat /\ n # k
    BY <1>0 DEF k
  <2> HIDE DEF g
  <2> QED
    BY <2>1, <2>2 DEF Agree
<1> HIDE DEF b, bs, w, g
<1>7. /\ w.bufs = bs /\ w.fill = 0 /\ w.open = FALSE
      /\ w.produced = k /\ w.emitted = c.emitted
      /\ w.delivered = c.delivered /\ w.inflight = c.inflight
      /\ w.all_sent = c.all_sent
  BY <1>1, <1>4 DEF Channel
<1>8. ~c.all_sent
  BY <1>1 DEF Carries, Filled
<1>9. \A n \in 0 .. c.produced : g[n] = f[n] /\ f[n] \in Nat
  <2>1. \A n \in 0 .. c.produced : f[n] \in Nat
    BY <1>2
  <2> QED
    BY <1>6, <2>1 DEF Agree
<1>10. Filled(w, g, eg, np)
  <2>1. g[0] = 0
    BY <1>1, <1>9 DEF Carries, Filled
  <2>2. np = f[c.produced] + c.fill /\ f[c.produced] \in Nat
    BY <1>1, <1>2 DEF Carries, Filled
  <2>3. ASSUME NEW i \in 0 .. k, NEW j \in 0 .. k, i <= j PROVE g[i] <= g[j]
    <3>1. \A x \in 0 .. c.produced : f[x] <= f[c.produced]
      BY <1>1, SMTT(30) DEF Carries, Filled
    <3>2. CASE j = k
      <4>1. CASE i = k
        <5>1. g[i] = np /\ g[j] = np
          BY <1>6, <3>2, <4>1
        <5> QED
          BY <1>2, <5>1
      <4>2. CASE i # k
        <5>1. i \in 0 .. c.produced
          BY <1>1, <4>2
        <5>2. g[j] = np /\ g[i] = f[i] /\ f[i] \in Nat /\ f[i] <= f[c.produced]
          BY <1>6, <1>9, <3>1, <3>2, <5>1
        <5> QED
          BY <1>1, <2>2, <5>2
      <4> QED
        BY <4>1, <4>2
    <3>3. CASE j # k
      <4>1. i \in 0 .. c.produced /\ j \in 0 .. c.produced
        BY <1>1, <2>3, <3>3
      <4> QED
        BY <1>9, <2>3, <4>1 DEF Carries, Filled
    <3> QED
      BY <3>2, <3>3
  <2>4. ASSUME NEW n \in 0 .. k-1
        PROVE  g[n] < g[n+1] \/ (n = k-1 /\ eg /\ c.emitted # k)
    <3>1. CASE n = c.produced
      <4>1. g[n] = f[c.produced] /\ g[n+1] = np
        BY <1>0, <1>6, <1>9, <3>1
      <4> QED
        BY <1>1, <2>2, <3>1, <4>1
    <3>2. CASE n # c.produced
      <4>1. n \in 0 .. c.produced-1 /\ n \in 0 .. c.produced
            /\ n+1 \in 0 .. c.produced
        BY <1>1, <3>2
      <4>2. f[n] < f[n+1]
        BY <4>1 DEF Carries, Filled
      <4> QED
        BY <1>9, <4>1, <4>2
    <3> QED
      BY <3>1, <3>2
  <2>5. ASSUME NEW n \in c.delivered .. k-1 PROVE IsRun(bs[LevelOf(n)], g, n)
    <3>1. CASE n = c.produced
      <4>1. /\ Len(b) = np - f[c.produced]
            /\ \A i \in 1 .. Len(b) : b[i] = f[c.produced] + i
        BY <1>1, <1>3, <2>2 DEF Carries, Filled
      <4>2. g[n] = f[c.produced] /\ g[n+1] = np /\ LevelOf(n) = l
        BY <1>0, <1>6, <1>9, <3>1
      <4> QED
        BY <1>5, <4>1, <4>2 DEF IsRun
    <3>2. CASE n # c.produced
      <4>1. n \in c.delivered .. c.produced-1 /\ n \in 0 .. c.produced
            /\ n+1 \in 0 .. c.produced
        BY <1>1, <3>2
      <4>2. n \in Nat /\ n < c.produced /\ c.produced < n + Multiplicity
        BY <1>0, <4>1, MultiplicityAssumption
      <4>3. LevelOf(n) # l /\ LevelOf(n) \in Level
        BY <1>1, <4>2, LevelType, Elsewhere, MultiplicityAssumption
      <4>4. IsRun(c.bufs[LevelOf(n)], f, n)
        BY <4>1 DEF Carries, Filled
      <4> QED
        BY <1>5, <1>9, <4>1, <4>3, <4>4 DEF IsRun
    <3> QED
      BY <3>1, <3>2
  <2>6. np = g[k] + 0
    BY <1>2, <1>6
  <2> QED
    BY <1>1, <1>7, <1>8, <2>1, <2>3, <2>4, <2>5, <2>6 DEF Filled
<1>11. Arrives(w.emitted, g, P, rb, rcv, D, gs)
  <2>1. P \subseteq Data /\ \A m \in P : m.n < c.emitted
    BY DEF LinkOK, FlowTypes, Flow, InFlight
  <2>2. D \in Nat /\ D <= c.emitted
    BY LinkFields
  <2>3. Arrives(c.emitted, f, P, rb, rcv, D, gs)
    BY DEF Carries
  <2> QED
    BY <1>1, <1>6, <1>7, <2>1, <2>2, <2>3, ArrivesAgree
<1>12. ASSUME NEW v \in Nat, v \div 2 \in Nat, v \div 2 <= c.produced,
              Tells(c, f, v)
       PROVE  Tells(w, g, v) /\ v % 2 # 1
  <2>1. v % 2 # 1
    BY <1>8, <1>12 DEF Tells
  <2>2. ASSUME NEW n \in Nat, n < v \div 2 PROVE g[n] < g[n+1]
    <3>1. n \in 0 .. c.produced /\ n+1 \in 0 .. c.produced
      BY <1>1, <1>12, <2>2
    <3>2. f[n] < f[n+1]
      BY <1>12, <2>2 DEF Tells
    <3> QED
      BY <1>9, <3>1, <3>2
  <2> QED
    BY <2>1, <2>2 DEF Tells
<1>13. Told(w, g, S, rcv)
  <2>1. /\ rcv \in Nat /\ rcv \div 2 \in Nat /\ rcv \div 2 <= c.produced
        /\ c.inflight \in Nat
    BY <1>1, LinkFields
  <2>2. /\ c.inflight \div 2 \in Nat /\ c.inflight \div 2 <= c.produced
    BY <1>1, SignalCounts
  <2>3. \A x \in S : /\ x.value \in Nat /\ x.value \div 2 \in Nat
                     /\ x.value \div 2 <= c.produced
    BY <1>1, SignalCounts
  <2>4. /\ Tells(c, f, rcv) /\ Tells(c, f, c.inflight)
        /\ \A x \in S : Tells(c, f, x.value)
    BY DEF Carries, Told
  <2>5. Tells(w, g, rcv) /\ rcv % 2 # 1
    BY <1>12, <2>1, <2>4
  <2>6. Tells(w, g, c.inflight)
    BY <1>12, <2>1, <2>2, <2>4
  <2>7. \A x \in S : Tells(w, g, x.value) /\ x.value % 2 # 1
    BY <1>12, <2>3, <2>4
  <2> QED
    BY <1>7, <2>5, <2>6, <2>7 DEF Told
<1> QED
  BY <1>6, <1>10, <1>11, <1>13 DEF Carries, w

-----------------------------------------------------------------------------
(* What the sender does to a link *)

\* What has been told stays true while the sender goes on.
LEMMA TellsOn ==
  ASSUME NEW c, NEW b, NEW f, NEW v, Tells(c, f, v),
         b.produced = c.produced, c.all_sent => b.all_sent
  PROVE  Tells(b, f, v)
BY DEF Tells

\* nonblock_progress() sends the signal that is owed.
LEMMA DataProgress ==
  ASSUME NEW c, NEW f, NEW cons, NEW P, NEW S, NEW A, NEW rb, NEW rcv, NEW D,
         NEW gs, NEW np, LinkOK(c, f, cons, P, S, A, rb, rcv, D, gs, np),
         NEW eg \in BOOLEAN, NEW force \in BOOLEAN,
         force => P = {} /\ S = {},
         Carries(c, f, eg, np, P, S, rb, rcv, D, gs)
  PROVE  Carries(Recording1(c, force), f, eg, np, P, Told1(c, S, force), rb,
                 rcv, D, gs)
<1> DEFINE b == Recording1(c, force)
           T == Told1(c, S, force)
<1>1. CASE ~(force /\ c.inflight # 0)
  <2>1. b = c /\ T = S
    BY <1>1 DEF Recording1, Told1
  <2> QED
    BY <2>1
<1>2. CASE force /\ c.inflight # 0
  <2>1. /\ c \in Channel /\ c.produced \in Nat /\ c.emitted \in Nat
        /\ c.delivered \in Nat /\ c.delivered <= c.emitted
        /\ c.emitted <= c.produced
    BY LinkFields
  <2>2. /\ b.bufs = c.bufs /\ b.open = c.open /\ b.fill = c.fill
        /\ b.produced = c.produced /\ b.emitted = c.emitted
        /\ b.delivered = c.emitted /\ b.inflight = 0
        /\ b.all_sent = c.all_sent
    <3>1. b = [c EXCEPT !.delivered = c.emitted, !.waiting = 0, !.inflight = 0]
      BY <1>2, <2>1 DEF Recording1, Recorded, Channel
    <3> HIDE DEF b
    <3> QED
      BY <2>1, <3>1 DEF Channel
  <2>3. T = {[n |-> c.emitted-1, value |-> c.inflight]} /\ P = {}
    BY <1>2 DEF Told1
  <2> HIDE DEF b, T
  <2>4. Filled(b, f, eg, np)
    <3>1. Filled(c, f, eg, np)
      BY DEF Carries
    <3>2. \A n \in b.delivered .. b.produced-1 :
            n \in c.delivered .. c.produced-1
      BY <2>1, <2>2
    <3>3. \A n \in b.delivered .. b.produced-1 : IsRun(b.bufs[LevelOf(n)], f, n)
      BY <2>2, <3>1, <3>2 DEF Filled
    <3> QED
      BY <2>2, <3>1, <3>3 DEF Filled
  <2>5. Arrives(b.emitted, f, P, rb, rcv, D, gs)
    BY <2>2 DEF Carries
  <2>6. Told(b, f, T, rcv)
    <3>1. /\ Tells(c, f, rcv) /\ Tells(c, f, c.inflight)
          /\ rcv % 2 = 1 => c.inflight = 0
      BY DEF Carries, Told
    <3>2. Tells(b, f, rcv) /\ Tells(b, f, c.inflight)
      BY <2>2, <3>1, TellsOn
    <3>3. Tells(b, f, b.inflight)
      <4>1. b.inflight \div 2 = 0 /\ b.inflight % 2 = 0
        BY <2>2
      <4> QED
        BY <4>1 DEF Tells
    <3>4. \A x \in T : x.n = c.emitted-1 /\ x.value = c.inflight
      BY <2>3
    <3>5. c.inflight % 2 = 1 => c.emitted-1 + 1 = c.produced
      <4>1. c.inflight % 2 = 1 => c.emitted = c.produced
        BY <3>1 DEF Tells, Carries, Filled
      <4> QED
        BY <2>1, <4>1
    <3>6. rcv % 2 # 1
      BY <1>2, <3>1
    <3> QED
      BY <2>2, <3>2, <3>3, <3>4, <3>5, <3>6 DEF Told
  <2> QED
    BY <2>4, <2>5, <2>6 DEF Carries, b, T
<1> QED
  BY <1>1, <1>2

LEMMA SignalHalves ==
  ASSUME NEW n \in Nat, NEW items, NEW last \in BOOLEAN
  PROVE  LET v == SignalFor(n, items, last)
         IN /\ v \in Nat /\ (v % 2 = 1 <=> last)
            /\ items # <<>> => v \div 2 = n + 1
            /\ items = <<>> => v \div 2 = n
<1>1. \A k \in Nat : /\ (2 * k + 0 + 0) \div 2 = k /\ (2 * k + 0 + 0) % 2 = 0
                      /\ (2 * k + 1 + 0) \div 2 = k /\ (2 * k + 1 + 0) % 2 = 1
                      /\ (2 * k + 0 + 2) \div 2 = k + 1
                      /\ (2 * k + 0 + 2) % 2 = 0
                      /\ (2 * k + 1 + 2) \div 2 = k + 1
                      /\ (2 * k + 1 + 2) % 2 = 1
  OBVIOUS
<1> DEFINE a == IF last THEN 1 ELSE 0
           b == IF items # <<>> THEN 2 ELSE 0
<1>2. SignalFor(n, items, last) = 2 * n + a + b
  BY DEF SignalFor
<1>3. /\ (last => a = 1) /\ (~last => a = 0)
      /\ (items # <<>> => b = 2) /\ (items = <<>> => b = 0)
  OBVIOUS
<1> HIDE DEF a, b
<1>4. a \in Nat /\ b \in Nat
  BY <1>3
<1> QED
  BY <1>1, <1>2, <1>3, <1>4

\* The value of the signal that goes with buffer n.
Signable(c, f, n, items, last) ==
  /\ c.produced \in Nat /\ f \in [Nat -> Nat] /\ n \in Nat /\ n < c.produced
  /\ \A k \in Nat : k + 1 < c.produced => f[k] < f[k+1]
  /\ (items # <<>> <=> f[n] < f[n+1]) /\ f[n] <= f[n+1]
  /\ (last => n + 1 = c.produced /\ c.all_sent)

LEMMA SignalTells ==
  ASSUME NEW c, NEW f, NEW n, NEW items, NEW last \in BOOLEAN,
         Signable(c, f, n, items, last)
  PROVE  /\ Tells(c, f, SignalFor(n, items, last))
         /\ SignalFor(n, items, last) % 2 = 1 => n + 1 = c.produced
<1> DEFINE v == SignalFor(n, items, last)
           h == v \div 2
           K == c.produced
<1>0. /\ K \in Nat /\ f \in [Nat -> Nat] /\ n \in Nat /\ n < K
      /\ \A k \in Nat : k + 1 < K => f[k] < f[k+1]
      /\ (items # <<>> <=> f[n] < f[n+1]) /\ f[n] <= f[n+1]
      /\ (last => n + 1 = K /\ c.all_sent)
  BY DEF Signable
<1> HIDE DEF K
<1>1. /\ v % 2 = 1 <=> last
      /\ items # <<>> => h = n + 1
      /\ items = <<>> => h = n
  BY <1>0, SignalHalves
<1> HIDE DEF v, h
<1>2. f[n] \in Nat /\ f[n+1] \in Nat
  BY <1>0
<1>3. ASSUME NEW k \in Nat, k < h PROVE f[k] < f[k+1]
  <2>1. CASE k = n
    <3>1. items # <<>>
      BY <1>1, <1>3, <2>1
    <3> QED
      BY <1>0, <2>1, <3>1
  <2>2. CASE k # n
    <3>1. k < n
      <4>1. CASE items # <<>>
        <5>1. k < n + 1
          BY <1>0, <1>1, <1>3, <4>1
        <5> QED
          BY <1>0, <2>2, <5>1
      <4>2. CASE items = <<>>
        BY <1>0, <1>1, <1>3, <4>2
      <4> QED
        BY <4>1, <4>2
    <3>2. k + 1 < K
      BY <1>0, <3>1
    <3> QED
      BY <1>0, <3>2
  <2> QED
    BY <2>1, <2>2
<1>4. last => f[h] = f[c.produced]
  <2> SUFFICES ASSUME last PROVE f[h] = f[K]
    BY DEF K
  <2>1. CASE items # <<>>
    BY <1>0, <1>1, <2>1
  <2>2. CASE items = <<>>
    <3>1. f[n] = f[n+1]
      BY <1>0, <1>2, <2>2
    <3> QED
      BY <1>0, <1>1, <2>2, <3>1
  <2> QED
    BY <2>1, <2>2
<1>5. last => n + 1 = c.produced /\ c.all_sent
  BY <1>0 DEF K
<1> QED
  BY <1>1, <1>3, <1>4, <1>5 DEF Tells, v, h

\* A buffer that may be emitted, its items and its signal.
LEMMA EmittedRun ==
  ASSUME NEW c, NEW f, NEW cons, NEW P, NEW S, NEW A, NEW rb, NEW rcv, NEW D,
         NEW gs, NEW np, LinkOK(c, f, cons, P, S, A, rb, rcv, D, gs, np),
         NEW eg, Filled(c, f, eg, np), NEW n \in c.emitted .. c.produced-1
  PROVE  /\ n \in Nat /\ n \in 0 .. c.produced-1 /\ c.bufs[LevelOf(n)] \in Seq(Nat)
         /\ IsRun(c.bufs[LevelOf(n)], f, n)
         /\ c.bufs[LevelOf(n)] # <<>> <=> f[n] < f[n+1]
         /\ f[n] <= f[n+1]
<1>1. /\ c.produced \in Nat /\ c.emitted \in Nat /\ c.delivered \in Nat
      /\ c.delivered <= c.emitted /\ c.bufs \in [Level -> Seq(Nat)]
  BY LinkFields
<1>2. /\ n \in Nat /\ n \in c.delivered .. c.produced-1
      /\ n \in 0 .. c.produced-1
  BY <1>1
<1>3. IsRun(c.bufs[LevelOf(n)], f, n)
  BY <1>2 DEF Filled
<1>4. c.bufs[LevelOf(n)] \in Seq(Nat)
  BY <1>1, <1>2, LevelType
<1>5. f[n] \in Nat /\ f[n+1] \in Nat
  <2>1. f \in [Nat -> Nat]
    BY Zenon DEF LinkOK
  <2> QED
    BY <1>2, <2>1
<1>6. c.bufs[LevelOf(n)] # <<>> <=> f[n] < f[n+1]
  <2> DEFINE q == c.bufs[LevelOf(n)]
  <2>1. q \in Seq(Nat) /\ Len(q) = f[n+1] - f[n]
    BY <1>3, <1>4 DEF IsRun
  <2> HIDE DEF q
  <2>2. q # <<>> <=> f[n] < f[n+1]
    BY <1>5, <2>1
  <2> QED
    BY <2>2 DEF q
<1>7. f[n] <= f[n+1]
  <2>1. n \in 0 .. c.produced /\ n+1 \in 0 .. c.produced /\ n <= n+1
    BY <1>1, <1>2
  <2> QED
    BY <2>1 DEF Filled
<1> QED
  BY <1>2, <1>3, <1>4, <1>6, <1>7

-----------------------------------------------------------------------------
(* Sending *)

\* What the loop of porter_try_send() makes of the channel.
SentMark(c, e, final) ==
  [Sent(c, e, final) EXCEPT !.all_sent = @ \/ final]

LEMMA SentFields ==
  ASSUME NEW c \in Channel, NEW e \in Nat, c.emitted <= e,
         NEW final \in BOOLEAN, ~Nonblocking => c.delivered = c.emitted
  PROVE  LET s == SentMark(c, e, final)
         IN /\ s \in Channel
            /\ s.bufs = c.bufs /\ s.open = c.open /\ s.fill = c.fill
            /\ s.produced = c.produced /\ s.emitted = e
            /\ s.all_sent = (c.all_sent \/ final)
            /\ s.delivered = c.delivered \/ s.delivered = e
            /\ s.inflight = c.inflight
               \/ /\ Nonblocking /\ e # c.emitted
                  /\ s.inflight = SignalFor(e-1, c.bufs[LevelOf(e-1)], final)
<1> DEFINE t == Sent(c, e, final)
           s == SentMark(c, e, final)
<1>1. /\ c.emitted \in Nat /\ c.delivered \in Nat /\ c.all_sent \in BOOLEAN
      /\ 0 \in 0 .. Patience
  BY FieldTypes DEF Patience
<1>2. /\ t \in Channel
      /\ t.bufs = c.bufs /\ t.open = c.open /\ t.fill = c.fill
      /\ t.produced = c.produced /\ t.emitted = e
      /\ t.all_sent = c.all_sent
      /\ t.delivered = c.delivered \/ t.delivered = e
      /\ t.inflight = c.inflight
         \/ /\ Nonblocking /\ e # c.emitted
            /\ t.inflight = SignalFor(e-1, c.bufs[LevelOf(e-1)], final)
  <2>1. CASE e = c.emitted
    <3>1. t = c
      BY <2>1 DEF Sent
    <3> QED
      BY <2>1, <3>1
  <2>2. CASE e # c.emitted /\ Nonblocking
    <3> DEFINE sig == SignalFor(e-1, c.bufs[LevelOf(e-1)], final)
    <3>1. sig \in Nat
      BY <1>1, <2>2 DEF SignalFor
    <3>2. t = [c EXCEPT !.inflight = sig, !.emitted = e]
      BY <1>1, <2>2 DEF Sent, Channel
    <3> HIDE DEF sig, t
    <3>3. t \in Channel
      BY <3>1, <3>2 DEF Channel
    <3>4. /\ t.bufs = c.bufs /\ t.open = c.open /\ t.fill = c.fill
          /\ t.produced = c.produced /\ t.emitted = e
          /\ t.all_sent = c.all_sent /\ t.delivered = c.delivered
          /\ t.inflight = sig
      BY <3>2 DEF Channel
    <3> QED
      BY <2>2, <3>3, <3>4 DEF sig
  <2>3. CASE e # c.emitted /\ ~Nonblocking
    <3> DEFINE v == Arrived(c, e)
    <3>1. v = e
      BY <1>1, <2>3 DEF Arrived
    <3>2. t = [c EXCEPT !.delivered = v, !.waiting = 0, !.emitted = e]
      BY <1>1, <2>3 DEF Sent, Recorded, Channel
    <3> HIDE DEF v, t
    <3>3. t \in Channel
      BY <1>1, <3>1, <3>2 DEF Channel
    <3>4. /\ t.bufs = c.bufs /\ t.open = c.open /\ t.fill = c.fill
          /\ t.produced = c.produced /\ t.emitted = e
          /\ t.all_sent = c.all_sent /\ t.delivered = e
          /\ t.inflight = c.inflight
      BY <3>1, <3>2 DEF Channel
    <3> QED
      BY <3>3, <3>4
  <2> QED
    BY <2>1, <2>2, <2>3
<1>3. s = [t EXCEPT !.all_sent = t.all_sent \/ final]
  BY <1>2 DEF SentMark, Channel
<1> HIDE DEF s, t
<1>4. t.all_sent \/ final \in BOOLEAN
  BY <1>1, <1>2
<1>5. s \in Channel
  BY <1>2, <1>3, <1>4 DEF Channel
<1>6. /\ s.bufs = t.bufs /\ s.open = t.open /\ s.fill = t.fill
      /\ s.produced = t.produced /\ s.emitted = t.emitted
      /\ s.delivered = t.delivered /\ s.inflight = t.inflight
  BY <1>2, <1>3 DEF Channel
<1>7. s.all_sent = (t.all_sent \/ final)
  BY <1>2, <1>3, Zenon DEF Channel
<1> QED
  BY <1>2, <1>5, <1>6, <1>7 DEF s

\* Buffers are sent.  In the endgame their channel is closed and not marked.
LEMMA DataSend ==
  ASSUME NEW c, NEW f, NEW cons, NEW P, NEW S, NEW A, NEW rb, NEW rcv, NEW D,
         NEW gs, NEW np, LinkOK(c, f, cons, P, S, A, rb, rcv, D, gs, np),
         NEW eg \in BOOLEAN, eg => ~c.open /\ ~c.all_sent,
         NEW e \in c.emitted .. c.produced, NEW final \in BOOLEAN,
         final <=> eg /\ e = c.produced /\ e > c.emitted,
         Carries(c, f, eg, np, P, S, rb, rcv, D, gs)
  PROVE  Carries(SentMark(c, e, final), f, eg, np, P \cup DataPuts(c, e),
                 S \cup SignalPuts(c, e, final), rb, rcv, D, gs)
<1> DEFINE s == SentMark(c, e, final)
           Q == P \cup DataPuts(c, e)
           T == S \cup SignalPuts(c, e, final)
<1>1. /\ c \in Channel /\ c.produced \in Nat /\ c.emitted \in Nat
      /\ c.delivered \in Nat /\ c.delivered <= c.emitted
      /\ c.emitted <= c.produced /\ c.all_sent \in BOOLEAN
      /\ c.open \in BOOLEAN
      /\ rcv \in Nat /\ D \in Nat /\ rcv <= 2 * c.delivered + 1
  BY LinkFields
<1>2. e \in Nat /\ c.emitted <= e /\ e <= c.produced
  BY <1>1
<1>3. ~Nonblocking => c.delivered = c.emitted /\ c.inflight = 0
  BY DEF LinkOK, Flow, Recording
<1>4. /\ s \in Channel
      /\ s.bufs = c.bufs /\ s.open = c.open /\ s.fill = c.fill
      /\ s.produced = c.produced /\ s.emitted = e
      /\ s.all_sent = (c.all_sent \/ final)
      /\ s.delivered = c.delivered \/ s.delivered = e
      /\ s.inflight = c.inflight
         \/ /\ Nonblocking /\ e # c.emitted
            /\ s.inflight = SignalFor(e-1, c.bufs[LevelOf(e-1)], final)
  BY <1>1, <1>2, <1>3, SentFields
<1>5. Filled(c, f, eg, np)
  BY DEF Carries
<1>6. ~c.all_sent
  BY <1>1, <1>5 DEF Filled
<1>7. \A n \in c.emitted .. c.produced-1 :
        /\ n \in Nat /\ n \in 0 .. c.produced-1
        /\ c.bufs[LevelOf(n)] \in Seq(Nat)
        /\ IsRun(c.bufs[LevelOf(n)], f, n)
        /\ c.bufs[LevelOf(n)] # <<>> <=> f[n] < f[n+1]
        /\ f[n] <= f[n+1]
  BY <1>5, EmittedRun
<1>8. \A n \in c.emitted .. e-1 : n \in c.emitted .. c.produced-1
  BY <1>1, <1>2
<1>9. f \in [Nat -> Nat]
  BY Zenon DEF LinkOK
<1> HIDE DEF s
<1>10. Filled(s, f, eg, np)
  <2>1. ASSUME NEW n \in 0 .. s.produced-1
        PROVE  \/ f[n] < f[n+1]
               \/ /\ n = s.produced-1 /\ eg /\ ~s.open
                  /\ s.emitted = s.produced => s.all_sent
    <3>1. \/ f[n] < f[n+1]
          \/ /\ n = c.produced-1 /\ eg /\ ~c.open
             /\ c.emitted = c.produced => c.all_sent
      BY <1>4, <1>5 DEF Filled
    <3>2. eg /\ e = c.produced /\ c.emitted # c.produced => final
      BY <1>1, <1>2
    <3> QED
      BY <1>4, <1>6, <3>1, <3>2
  <2>2. \A n \in s.delivered .. s.produced-1 : n \in c.delivered .. c.produced-1
    BY <1>1, <1>2, <1>4
  <2>3. \A n \in s.delivered .. s.produced-1 : IsRun(s.bufs[LevelOf(n)], f, n)
    BY <1>4, <1>5, <2>2 DEF Filled
  <2>4. s.all_sent => eg /\ ~s.open /\ s.emitted = s.produced
    BY <1>4, <1>6
  <2> QED
    BY <1>4, <1>5, <2>1, <2>3, <2>4 DEF Filled
<1>11. Arrives(e, f, Q, rb, rcv, D, gs)
  <2>1. Arrives(c.emitted, f, P, rb, rcv, D, gs)
    BY DEF Carries
  <2>2. D <= c.emitted
    BY LinkFields
  <2>3. \A m \in DataPuts(c, e) :
          /\ m.n \in c.emitted .. e-1
          /\ c.bufs[LevelOf(m.n)] # <<>>
          /\ ~Nonblocking => m.items = c.bufs[LevelOf(m.n)]
    BY DEF DataPuts
  <2>4. ASSUME NEW m \in Q
        PROVE  /\ rcv <= 2 * m.n + 1 /\ f[m.n] < f[m.n+1]
               /\ ~Nonblocking => IsRun(m.items, f, m.n)
    <3>1. CASE m \in P
      BY <2>1, <3>1 DEF Arrives
    <3>2. CASE m \in DataPuts(c, e)
      <4>1. m.n \in c.emitted .. c.produced-1 /\ m.n \in Nat
        BY <1>7, <1>8, <2>3, <3>2
      <4>2. c.emitted <= m.n
        BY <4>1
      <4>3. rcv <= 2 * m.n + 1
        BY <1>1, <4>1, <4>2
      <4> QED
        BY <1>7, <2>3, <3>2, <4>1, <4>3
    <3> QED
      BY <3>1, <3>2
  <2>5. ASSUME NEW n \in D .. e-1
        PROVE  \/ f[n] = f[n+1]
               \/ \E m \in Q : m.n = n
               \/ Landed(rb[LevelOf(n)], f, n, D, gs)
    <3>1. CASE n \in D .. c.emitted-1
      BY <2>1, <3>1 DEF Arrives
    <3>2. CASE n \notin D .. c.emitted-1
      <4>1. n \in c.emitted .. e-1 /\ n \in c.emitted .. c.produced-1
        BY <1>1, <1>2, <3>2
      <4>2. n \in Nat /\ f[n] <= f[n+1]
            /\ (c.bufs[LevelOf(n)] # <<>> <=> f[n] < f[n+1])
        BY <1>7, <4>1
      <4>3. CASE c.bufs[LevelOf(n)] = <<>>
        <5>1. f[n] \in Nat /\ f[n+1] \in Nat
          BY <1>9, <4>2
        <5> QED
          BY <4>2, <4>3, <5>1
      <4>4. CASE c.bufs[LevelOf(n)] # <<>>
        <5> DEFINE m == [n |-> n, items |-> IF Nonblocking THEN <<>>
                                            ELSE c.bufs[LevelOf(n)]]
        <5>1. m \in DataPuts(c, e)
          BY <4>1, <4>4 DEF DataPuts
        <5>2. m.n = n
          OBVIOUS
        <5> HIDE DEF m
        <5> QED
          BY <5>1, <5>2
      <4> QED
        BY <4>3, <4>4
    <3> QED
      BY <3>1, <3>2
  <2>6. (D = e \/ f[D] = f[D+1] \/ \E m \in Q : m.n = D) => Len(gs) = f[D]
    <3>1. CASE D = c.emitted
      BY <2>1, <3>1 DEF Arrives
    <3>2. CASE D # c.emitted
      <4>1. D # e
        BY <1>1, <1>2, <2>2, <3>2
      <4>2. \A m \in DataPuts(c, e) : m.n # D
        BY <1>1, <2>2, <2>3, <3>2
      <4> QED
        BY <2>1, <4>1, <4>2 DEF Arrives
    <3> QED
      BY <3>1, <3>2
  <2>7. \A i \in 1 .. Len(gs) : gs[i] = i
    BY <2>1 DEF Arrives
  <2> QED
    BY <2>4, <2>5, <2>6, <2>7 DEF Arrives
<1>12. Told(s, f, T, rcv)
  <2>1. Told(c, f, S, rcv)
    BY DEF Carries
  <2>2. \A v : Tells(c, f, v) => Tells(s, f, v)
    BY <1>4, TellsOn
  <2>3. \A k \in Nat : k + 1 < c.produced => f[k] < f[k+1]
    <3> SUFFICES ASSUME NEW k \in Nat, k + 1 < c.produced PROVE f[k] < f[k+1]
      OBVIOUS
    <3>1. k \in 0 .. c.produced-1 /\ k # c.produced-1
      BY <1>1
    <3> QED
      BY <1>5, <3>1 DEF Filled
  <2>4. ASSUME NEW n \in c.emitted .. e-1, NEW last \in BOOLEAN,
               last => final /\ n = e-1
        PROVE  /\ Tells(s, f, SignalFor(n, c.bufs[LevelOf(n)], last))
               /\ SignalFor(n, c.bufs[LevelOf(n)], last) % 2 = 1
                    => n + 1 = s.produced
    <3> DEFINE q == c.bufs[LevelOf(n)]
    <3>1. /\ n \in Nat /\ n < c.produced
          /\ q # <<>> <=> f[n] < f[n+1]
          /\ f[n] <= f[n+1]
      <4>1. n \in c.emitted .. c.produced-1 /\ n < c.produced
        BY <1>1, <1>8
      <4> QED
        BY <1>7, <4>1
    <3>2. last => n + 1 = c.produced /\ s.all_sent
      <4>1. last => final /\ n + 1 = e /\ e = c.produced
        BY <1>2, <2>4, <3>1
      <4> QED
        BY <1>4, <4>1
    <3> HIDE DEF q
    <3>3. /\ s.produced = c.produced /\ c.produced \in Nat
      BY <1>1, <1>4
    <3>4. Signable(s, f, n, q, last)
      BY <1>9, <2>3, <3>1, <3>2, <3>3 DEF Signable
    <3>5. /\ Tells(s, f, SignalFor(n, q, last))
          /\ (SignalFor(n, q, last) % 2 = 1 => n + 1 = s.produced)
      BY <3>4, SignalTells, Zenon
    <3> QED
      BY <3>5 DEF q
  <2>5. Tells(s, f, rcv) /\ rcv % 2 # 1
    BY <1>6, <2>1, <2>2 DEF Told, Tells
  <2>6. Tells(s, f, s.inflight)
    <3>1. CASE s.inflight = c.inflight
      BY <2>1, <2>2, <3>1 DEF Told
    <3>2. CASE s.inflight # c.inflight
      <4>1. e # c.emitted
            /\ s.inflight = SignalFor(e-1, c.bufs[LevelOf(e-1)], final)
        BY <1>4, <3>2
      <4>2. e-1 \in c.emitted .. e-1
        BY <1>1, <1>2, <4>1
      <4> QED
        BY <2>4, <4>1, <4>2
    <3> QED
      BY <3>1, <3>2
  <2>7. ASSUME NEW x \in T
        PROVE  Tells(s, f, x.value) /\ (x.value % 2 = 1 => x.n + 1 = s.produced)
    <3>1. CASE x \in S
      BY <1>4, <2>1, <2>2, <3>1 DEF Told
    <3>2. CASE x \in SignalPuts(c, e, final)
      <4>1. PICK n \in c.emitted .. e-1 :
              x = [n |-> n, value |-> SignalFor(n, c.bufs[LevelOf(n)],
                                                final /\ n = e-1)]
        BY <3>2 DEF SignalPuts
      <4>2. /\ x.n = n
            /\ x.value = SignalFor(n, c.bufs[LevelOf(n)], final /\ n = e-1)
        BY <4>1
      <4>3. (final /\ n = e-1) \in BOOLEAN
        OBVIOUS
      <4> QED
        BY <2>4, <4>2, <4>3
    <3> QED
      BY <3>1, <3>2
  <2> QED
    BY <2>5, <2>6, <2>7 DEF Told
<1> QED
  BY <1>4, <1>10, <1>11, <1>12 DEF Carries, s

-----------------------------------------------------------------------------
(* What the receiver does to a link *)

\* A new buffer is opened, in the endgame only if the last one sent was not
\* marked as final.
LEMMA DataOpen ==
  ASSUME NEW c \in Channel, NEW f, NEW P, NEW S, NEW rb, NEW rcv, NEW D,
         NEW gs, NEW np, NEW eg \in BOOLEAN, ~c.open,
         eg => c.emitted = c.produced /\ ~c.all_sent,
         Carries(c, f, eg, np, P, S, rb, rcv, D, gs)
  PROVE  Carries(Opened(c), f, eg, np, P, S, rb, rcv, D, gs)
<1> DEFINE b == Opened(c)
<1>1. /\ b.bufs = c.bufs /\ b.open = TRUE /\ b.fill = 0
      /\ b.produced = c.produced /\ b.emitted = c.emitted
      /\ b.delivered = c.delivered /\ b.inflight = c.inflight
      /\ b.all_sent = c.all_sent
  <2>1. b = [c EXCEPT !.open = TRUE, !.fill = 0]
    BY DEF Opened
  <2> HIDE DEF b
  <2> QED
    BY <2>1 DEF Channel
<1>2. c.fill \in Nat
  BY FieldTypes
<1>3. Filled(c, f, eg, np)
  BY DEF Carries
<1>4. ~c.all_sent
  BY <1>3 DEF Filled
<1>5. c.fill = 0
  BY <1>2, <1>3 DEF Filled
<1> HIDE DEF b
<1>6. Filled(b, f, eg, np)
  <2>1. \A n \in 0 .. b.produced-1 : f[n] < f[n+1]
    BY <1>1, <1>3, <1>4 DEF Filled
  <2>2. \A n \in b.delivered .. b.produced-1 : IsRun(b.bufs[LevelOf(n)], f, n)
    BY <1>1, <1>3 DEF Filled
  <2>3. \A i \in 1 .. b.fill : FALSE
    BY <1>1
  <2> QED
    BY <1>1, <1>3, <1>4, <1>5, <2>1, <2>2, <2>3 DEF Filled
<1>7. Arrives(b.emitted, f, P, rb, rcv, D, gs) /\ Told(b, f, S, rcv)
  BY <1>1 DEF Carries, Told, Tells
<1> QED
  BY <1>6, <1>7 DEF Carries, b

\* The types of what a link holds.
LinkTyped(f, P, S, gs, np) ==
  /\ \A n \in Nat : f[n] \in Nat /\ f[n+1] \in Nat
  /\ gs \in Seq(Nat) /\ Len(gs) \in Nat /\ np \in Nat
  /\ \A m \in P : m.n \in Nat
  /\ \A y \in S : y.n \in Nat /\ y.value \in Nat

LEMMA TypesOfLink ==
  ASSUME NEW c, NEW f, NEW cons, NEW P, NEW S, NEW A, NEW rb, NEW rcv, NEW D,
         NEW gs, NEW np, LinkOK(c, f, cons, P, S, A, rb, rcv, D, gs, np)
  PROVE  LinkTyped(f, P, S, gs, np)
<1>1. f \in [Nat -> Nat] /\ np \in Nat /\ gs \in Seq(Nat)
  BY Zenon DEF LinkOK
<1>2. P \subseteq Data /\ S \subseteq Signal
  BY Zenon DEF LinkOK, FlowTypes
<1>3. \A m \in P : m.n \in Nat
  BY <1>2 DEF Data
<1>4. \A y \in S : y.n \in Nat /\ y.value \in Nat
  BY <1>2 DEF Signal
<1>5. \A n \in Nat : f[n] \in Nat /\ f[n+1] \in Nat
  <2>1. f \in [Nat -> Nat]
    BY <1>1
  <2> QED
    BY <2>1
<1> QED
  BY <1>1, <1>3, <1>4, <1>5 DEF LinkTyped

\* Where a put is on its way.
LEMMA PutsAhead ==
  ASSUME NEW c, NEW f, NEW cons, NEW P, NEW S, NEW A, NEW rb, NEW rcv, NEW D,
         NEW gs, NEW np, LinkOK(c, f, cons, P, S, A, rb, rcv, D, gs, np),
         NEW m \in P, rcv <= 2 * m.n + 1
  PROVE  /\ m.n \in Nat /\ rcv \div 2 <= m.n /\ D <= m.n /\ m.n < c.emitted
         /\ Nonblocking => c.delivered <= m.n
<1>0. LinkTyped(f, P, S, gs, np)
  BY TypesOfLink
<1>1. rcv \in Nat /\ D \in Nat /\ D <= rcv \div 2 /\ rcv \div 2 \in Nat
  BY LinkFields
<1>2. m.n \in Nat
  BY <1>0 DEF LinkTyped
<1>3. m.n < c.emitted /\ (Nonblocking => c.delivered <= m.n)
  BY DEF LinkOK, Flow, InFlight
<1>4. rcv \div 2 <= m.n
  <2> rcv \in Nat /\ m.n \in Nat /\ rcv <= 2 * m.n + 1
    BY <1>1, <1>2
  <2> HIDE DEF LinkOK
  <2> QED
    OBVIOUS
<1>5. D <= m.n
  BY <1>1, <1>2, <1>4
<1> QED
  BY <1>2, <1>3, <1>4, <1>5

\* A put lands in the buffer of its level.
LEMMA DataArrive ==
  ASSUME NEW c, NEW f, NEW cons, NEW P, NEW S, NEW A, NEW rb, NEW rcv, NEW D,
         NEW gs, NEW np, LinkOK(c, f, cons, P, S, A, rb, rcv, D, gs, np),
         NEW eg, Carries(c, f, eg, np, P, S, rb, rcv, D, gs),
         NEW m \in P, NEW w,
         w = [start |-> 0,
              items |-> IF Nonblocking THEN c.bufs[LevelOf(m.n)]
                        ELSE m.items]
  PROVE  Carries(c, f, eg, np, P \ {m}, S, [rb EXCEPT ![LevelOf(m.n)] = w],
                 rcv, D, gs)
<1> DEFINE rb2 == [rb EXCEPT ![LevelOf(m.n)] = w]
<1>0. LinkTyped(f, P, S, gs, np)
  BY TypesOfLink
<1>1. /\ Filled(c, f, eg, np) /\ Told(c, f, S, rcv)
      /\ Arrives(c.emitted, f, P, rb, rcv, D, gs)
  BY DEF Carries
<1>2. /\ c.produced \in Nat /\ c.emitted \in Nat /\ c.delivered \in Nat
      /\ c.emitted <= c.produced /\ D \in Nat
      /\ c.emitted <= D + Multiplicity
  BY LinkFields
<1>3. /\ rcv <= 2 * m.n + 1 /\ f[m.n] < f[m.n+1]
      /\ ~Nonblocking => IsRun(m.items, f, m.n)
  BY <1>1 DEF Arrives
<1>4. /\ m.n \in Nat /\ D <= m.n /\ m.n < c.emitted
      /\ Nonblocking => c.delivered <= m.n
  BY <1>3, PutsAhead
<1>5. f \in [Nat -> Nat] /\ gs \in Seq(Nat)
      /\ DOMAIN rb = Level
  BY DEF LinkOK
<1>6. IsRun(w.items, f, m.n) /\ w.start = 0
  <2>1. CASE Nonblocking
    <3>1. m.n \in c.delivered .. c.produced-1
      BY <1>2, <1>4, <2>1
    <3>2. IsRun(c.bufs[LevelOf(m.n)], f, m.n)
      BY <1>1, <3>1 DEF Filled
    <3> QED
      BY <2>1, <3>2
  <2>2. CASE ~Nonblocking
    BY <1>3, <2>2
  <2> QED
    BY <2>1, <2>2
<1>7. Landed(w, f, m.n, D, gs)
  <2>1. m.n = D => Len(gs) = f[D]
    BY <1>1 DEF Arrives
  <2>2. f[m.n] \in Nat /\ f[m.n+1] \in Nat /\ Len(gs) \in Nat
    BY <1>4, <1>0 DEF LinkTyped
  <2>3. m.n = D => f[D] + 0 = Len(gs) /\ Len(gs) <= f[D+1]
    BY <1>3, <2>1, <2>2
  <2> QED
    BY <1>6, <2>3 DEF Landed
<1>8. ASSUME NEW n \in D .. c.emitted-1
      PROVE  \/ f[n] = f[n+1]
             \/ \E x \in P \ {m} : x.n = n
             \/ Landed(rb2[LevelOf(n)], f, n, D, gs)
  <2>1. n \in Nat /\ D <= n /\ n < c.emitted
    BY <1>2
  <2>2. CASE n = m.n
    <3>1. LevelOf(m.n) \in Level
      BY <1>4, LevelType
    <3>2. rb2[LevelOf(n)] = w
      BY <1>5, <2>2, <3>1
    <3> HIDE DEF rb2
    <3> QED
      BY <1>7, <2>2, <3>2
  <2>3. CASE n # m.n
    <3>1. n < m.n + Multiplicity /\ m.n < n + Multiplicity
      BY <1>2, <1>4, <2>1, MultiplicityAssumption
    <3>2. LevelOf(n) # LevelOf(m.n)
      BY <1>4, <2>1, <2>3, <3>1, Elsewhere
    <3>3. LevelOf(n) \in Level
      BY <2>1, LevelType
    <3>4. rb2[LevelOf(n)] = rb[LevelOf(n)]
      BY <1>5, <3>2, <3>3
    <3>5. \/ f[n] = f[n+1]
          \/ \E x \in P : x.n = n
          \/ Landed(rb[LevelOf(n)], f, n, D, gs)
      BY <1>1 DEF Arrives
    <3> HIDE DEF rb2
    <3>6. ASSUME NEW x \in P, x.n = n PROVE x \in P \ {m}
      BY <2>3, <3>6
    <3> QED
      BY <3>4, <3>5, <3>6
  <2> QED
    BY <2>2, <2>3
<1>9. Arrives(c.emitted, f, P \ {m}, rb2, rcv, D, gs)
  <2> HIDE DEF rb2
  <2>1. /\ \A x \in P \ {m} :
             /\ rcv <= 2 * x.n + 1 /\ f[x.n] < f[x.n+1]
             /\ ~Nonblocking => IsRun(x.items, f, x.n)
        /\ \A i \in 1 .. Len(gs) : gs[i] = i
    BY <1>1 DEF Arrives
  <2>2. (D = c.emitted \/ f[D] = f[D+1] \/ \E x \in P \ {m} : x.n = D)
          => Len(gs) = f[D]
    BY <1>1 DEF Arrives
  <2> QED
    BY <1>8, <2>1, <2>2 DEF Arrives
<1> QED
  BY <1>1, <1>9 DEF Carries, rb2

\* A signal reaches the receiver after the buffers and the signals before it.
LEMMA DataSignal ==
  ASSUME NEW c, NEW f, NEW cons, NEW P, NEW S, NEW A, NEW rb, NEW rcv, NEW D,
         NEW gs, NEW np, LinkOK(c, f, cons, P, S, A, rb, rcv, D, gs, np),
         NEW eg, Carries(c, f, eg, np, P, S, rb, rcv, D, gs),
         NEW x \in S,
         Nonblocking \/ /\ \A y \in P : x.n < y.n
                        /\ \A y \in S : x.n <= y.n
  PROVE  Carries(c, f, eg, np, P, S \ {x}, rb, x.value, D, gs)
<1>0. LinkTyped(f, P, S, gs, np)
  BY TypesOfLink
<1>1. /\ Filled(c, f, eg, np) /\ Told(c, f, S, rcv)
      /\ Arrives(c.emitted, f, P, rb, rcv, D, gs)
  BY DEF Carries
<1>2. /\ c.produced \in Nat /\ c.emitted \in Nat /\ c.delivered \in Nat
      /\ c.delivered <= c.emitted /\ c.emitted <= c.produced
      /\ c.inflight \in Nat
  BY LinkFields
<1>3. \A y \in S : y.n \in Nat /\ y.value \in Nat
  BY <1>0 DEF LinkTyped
<1>4. \A y \in S : y.n < c.delivered /\ y.value <= 2 * y.n + 3
  BY DEF LinkOK, Flow, Signalled
<1>5. \A y, z \in S : (Nonblocking \/ y.n = z.n) => y = z
  BY DEF LinkOK, Flow, Signalled
<1>6. \A m \in P : m.n \in Nat /\ (Nonblocking => c.delivered <= m.n)
  <2>1. \A m \in P : m.n \in Nat
    BY <1>0 DEF LinkTyped
  <2>2. \A m \in P : (Nonblocking => c.delivered <= m.n)
    BY DEF LinkOK, Flow, InFlight
  <2> QED
    BY <2>1, <2>2
<1>7. \A m \in P : x.n < m.n
  BY <1>2, <1>3, <1>4, <1>6
<1>8. \A m \in P : x.value <= 2 * m.n + 1
  <2> SUFFICES ASSUME NEW m \in P PROVE x.value <= 2 * m.n + 1
    OBVIOUS
  <2>1. /\ x.n \in Nat /\ x.value \in Nat /\ m.n \in Nat /\ x.n < m.n
        /\ x.value <= 2 * x.n + 3
    BY <1>3, <1>4, <1>6, <1>7
  <2> QED
    BY <2>1
<1>9. Arrives(c.emitted, f, P, rb, x.value, D, gs)
  BY <1>1, <1>8 DEF Arrives
<1>10. Tells(c, f, x.value) /\ Tells(c, f, c.inflight)
       /\ (x.value % 2 = 1 => x.n + 1 = c.produced)
  BY <1>1 DEF Told
<1>11. \A y \in S \ {x} : /\ Tells(c, f, y.value)
                          /\ y.value % 2 = 1 => y.n + 1 = c.produced
  BY <1>1 DEF Told
<1>12. ASSUME x.value % 2 = 1 PROVE S \ {x} = {} /\ c.inflight = 0
  <2>1. x.n + 1 = c.produced
    BY <1>10, <1>12
  <2>2. ASSUME NEW y \in S PROVE y = x
    <3>1. CASE Nonblocking
      BY <1>5, <3>1
    <3>2. CASE ~Nonblocking
      <4>1. x.n <= y.n /\ y.n < c.delivered
        BY <1>4, <3>2
      <4>2. y.n = x.n
        BY <1>2, <1>3, <2>1, <4>1
      <4> QED
        BY <1>5, <4>2
    <3> QED
      BY <3>1, <3>2
  <2>3. ~(c.delivered < c.emitted)
    BY <1>2, <1>3, <1>4, <2>1
  <2>4. c.inflight = 0
    BY <2>3 DEF LinkOK, Flow, Recording
  <2> QED
    BY <2>2, <2>4
<1>13. Told(c, f, S \ {x}, x.value)
  BY <1>10, <1>11, <1>12 DEF Told
<1> QED
  BY <1>1, <1>9, <1>13 DEF Carries

\* The buffer that the receiver is using has items and is there.
LEMMA DataBorrowed ==
  ASSUME NEW c, NEW f, NEW cons, NEW P, NEW S, NEW A, NEW rb, NEW rcv, NEW D,
         NEW gs, NEW np, LinkOK(c, f, cons, P, S, A, rb, rcv, D, gs, np),
         NEW eg, Carries(c, f, eg, np, P, S, rb, rcv, D, gs), D < rcv \div 2
  PROVE  /\ D < c.emitted /\ f[D] < f[D+1] /\ f[D+1] <= np
         /\ \A m \in P : m.n # D
         /\ Landed(rb[LevelOf(D)], f, D, D, gs)
<1>0. LinkTyped(f, P, S, gs, np)
  BY TypesOfLink
<1>1. /\ Filled(c, f, eg, np) /\ Told(c, f, S, rcv)
      /\ Arrives(c.emitted, f, P, rb, rcv, D, gs)
  BY DEF Carries
<1>2. /\ c.produced \in Nat /\ c.emitted \in Nat /\ c.delivered \in Nat
      /\ c.delivered <= c.emitted /\ c.emitted <= c.produced
      /\ D \in Nat /\ rcv \div 2 <= c.delivered /\ rcv \div 2 \in Nat
      /\ c.fill \in Nat
  BY LinkFields
<1>3. D < c.emitted /\ D \in D .. c.emitted-1
  BY <1>2
<1>4. f[D] < f[D+1]
  BY <1>1, <1>2 DEF Told, Tells
<1>5. ASSUME NEW m \in P PROVE m.n # D
  <2>1. rcv <= 2 * m.n + 1
    BY <1>1 DEF Arrives
  <2>2. m.n \in Nat /\ rcv \div 2 <= m.n
    BY <2>1, PutsAhead
  <2> QED
    BY <1>2, <2>2
<1>6. /\ f[D] \in Nat /\ f[D+1] \in Nat /\ f[c.produced] \in Nat
      /\ np \in Nat
  BY <1>2, <1>0 DEF LinkTyped
<1>7. Landed(rb[LevelOf(D)], f, D, D, gs)
  <2>1. f[D] # f[D+1]
    BY <1>4, <1>6
  <2> QED
    BY <1>1, <1>3, <1>5, <2>1 DEF Arrives
<1>8. f[D+1] <= np
  <2>1. D+1 \in 0 .. c.produced /\ c.produced \in 0 .. c.produced
        /\ D+1 <= c.produced
    BY <1>2
  <2>2. f[D+1] <= f[c.produced]
    BY <1>1, <2>1 DEF Filled
  <2>3. np = f[c.produced] + c.fill
    BY <1>1 DEF Filled
  <2> QED
    BY <1>2, <1>6, <2>2, <2>3
<1> QED
  BY <1>3, <1>4, <1>5, <1>7, <1>8

LEMMA OneMore ==
  ASSUME NEW a \in Nat, NEW b \in Nat, NEW k \in Nat, NEW g \in Nat,
         NEW m \in Nat, m = b - a, a + k = g, k < m
  PROVE  a + (k + 1) = g + 1 /\ g + 1 <= b /\ k + 1 \in 1 .. m
OBVIOUS

\* The client takes the item v from it, which leaves w.
Reads(rb, rcv, D, w, v) ==
  /\ D < rcv \div 2 /\ rb[LevelOf(D)].start < Len(rb[LevelOf(D)].items)
  /\ w.start = rb[LevelOf(D)].start + 1 /\ w.items = rb[LevelOf(D)].items
  /\ v = rb[LevelOf(D)].items[rb[LevelOf(D)].start + 1]

LEMMA DataTake ==
  ASSUME NEW c, NEW f, NEW cons, NEW P, NEW S, NEW A, NEW rb, NEW rcv, NEW D,
         NEW gs, NEW np, LinkOK(c, f, cons, P, S, A, rb, rcv, D, gs, np),
         NEW eg, Carries(c, f, eg, np, P, S, rb, rcv, D, gs),
         NEW w, NEW v, Reads(rb, rcv, D, w, v)
  PROVE  /\ v = Len(gs) + 1 /\ Len(gs) < np
         /\ Carries(c, f, eg, np, P, S, [rb EXCEPT ![LevelOf(D)] = w], rcv, D,
                    Append(gs, v))
<1> DEFINE l == LevelOf(D)
           rb2 == [rb EXCEPT ![l] = w]
           t == Append(gs, v)
<1>r. /\ D < rcv \div 2 /\ rb[l].start < Len(rb[l].items)
      /\ w.start = rb[l].start + 1 /\ w.items = rb[l].items
      /\ v = rb[l].items[rb[l].start + 1]
  BY DEF Reads
<1>0. LinkTyped(f, P, S, gs, np)
  BY TypesOfLink
<1>1. /\ Filled(c, f, eg, np) /\ Told(c, f, S, rcv)
      /\ Arrives(c.emitted, f, P, rb, rcv, D, gs)
  BY DEF Carries
<1>2. /\ D < c.emitted /\ f[D] < f[D+1] /\ f[D+1] <= np
      /\ \A m \in P : m.n # D
  BY <1>r, DataBorrowed
<1>3. Landed(rb[l], f, D, D, gs)
  BY <1>r, DataBorrowed
<1>4. /\ c.emitted \in Nat /\ D \in Nat /\ c.emitted <= D + Multiplicity
  BY LinkFields
<1>5. /\ f[D] \in Nat /\ f[D+1] \in Nat /\ gs \in Seq(Nat) /\ np \in Nat
      /\ Len(gs) \in Nat
  BY <1>4, <1>0 DEF LinkTyped
<1>6. l \in Level /\ DOMAIN rb = Level
      /\ rb[l] \in [start : Nat, items : Seq(Nat)]
  BY <1>4, LevelType DEF LinkOK
<1> HIDE DEF l
<1>7. rb[l].start \in Nat /\ rb[l].items \in Seq(Nat)
  BY <1>6
<1>8. Len(rb[l].items) = f[D+1] - f[D] /\ f[D] + rb[l].start = Len(gs)
  BY <1>3 DEF Landed, IsRun
<1>9. /\ f[D] + (rb[l].start + 1) = Len(gs) + 1 /\ Len(gs) + 1 <= f[D+1]
      /\ rb[l].start + 1 \in 1 .. Len(rb[l].items)
  <2>1. f[D] \in Nat /\ f[D+1] \in Nat /\ Len(gs) \in Nat
    BY <1>5
  <2>2. rb[l].start \in Nat /\ Len(rb[l].items) \in Nat
    BY <1>7
  <2>3. rb[l].start < Len(rb[l].items)
    BY <1>r
  <2> QED
    BY <1>8, <2>1, <2>2, <2>3, OneMore, SMTT(30)
<1>10. rb[l].items[rb[l].start + 1] = f[D] + (rb[l].start + 1)
  BY <1>3, <1>9 DEF Landed, IsRun
<1>11. v = Len(gs) + 1
  BY <1>r, <1>9, <1>10
<1>12. Len(gs) + 1 <= f[D+1]
  BY <1>9
<1>13. Len(gs) < np
  BY <1>2, <1>5, <1>12
<1>14. Len(t) = Len(gs) + 1 /\ \A i \in 1 .. Len(t) : t[i] = i
  <2>1. v \in Nat
    BY <1>5, <1>11
  <2>2. Len(t) = Len(gs) + 1 /\ t[Len(gs) + 1] = v
        /\ \A i \in 1 .. Len(gs) : t[i] = gs[i]
    BY <1>5, <2>1
  <2> HIDE DEF t
  <2>3. \A i \in 1 .. Len(gs) : gs[i] = i
    BY <1>1 DEF Arrives
  <2> QED
    BY <1>5, <1>11, <2>2, <2>3
<1> HIDE DEF t
<1>15. rb2[l] = w
  BY <1>6
<1>16. Landed(w, f, D, D, t)
  <2>1. IsRun(w.items, f, D)
    BY <1>r, <1>3 DEF Landed
  <2>2. f[D] + w.start = Len(t) /\ Len(t) <= f[D+1]
    <3>1. w.start = rb[l].start + 1
      BY <1>r
    <3> QED
      BY <1>9, <1>14, <3>1
  <2> QED
    BY <2>1, <2>2 DEF Landed
<1>17. ASSUME NEW n \in D .. c.emitted-1
       PROVE  \/ f[n] = f[n+1]
              \/ \E x \in P : x.n = n
              \/ Landed(rb2[LevelOf(n)], f, n, D, t)
  <2>1. n \in Nat /\ D <= n /\ n < c.emitted
    BY <1>4
  <2>2. CASE n = D
    <3>1. rb2[LevelOf(n)] = w
      BY <1>15, <2>2 DEF l
    <3> HIDE DEF rb2
    <3> QED
      BY <1>16, <2>2, <3>1
  <2>3. CASE n # D
    <3>1. n < D + Multiplicity /\ D < n + Multiplicity
      BY <1>4, <2>1, MultiplicityAssumption
    <3>2. LevelOf(n) # l
      BY <1>4, <2>1, <2>3, <3>1, Elsewhere DEF l
    <3>3. LevelOf(n) \in Level
      BY <2>1, LevelType
    <3>4. rb2[LevelOf(n)] = rb[LevelOf(n)]
      BY <1>6, <3>2, <3>3
    <3>5. \/ f[n] = f[n+1]
          \/ \E x \in P : x.n = n
          \/ Landed(rb[LevelOf(n)], f, n, D, gs)
      BY <1>1 DEF Arrives
    <3> HIDE DEF rb2
    <3>6. Landed(rb[LevelOf(n)], f, n, D, gs)
            => Landed(rb2[LevelOf(n)], f, n, D, t)
      BY <2>3, <3>4 DEF Landed
    <3> QED
      BY <3>5, <3>6
  <2> QED
    BY <2>2, <2>3
<1> HIDE DEF rb2
<1>18. Arrives(c.emitted, f, P, rb2, rcv, D, t)
  <2>1. \A x \in P : /\ rcv <= 2 * x.n + 1 /\ f[x.n] < f[x.n+1]
                     /\ ~Nonblocking => IsRun(x.items, f, x.n)
    BY <1>1 DEF Arrives
  <2>2. D # c.emitted /\ f[D] # f[D+1]
    BY <1>2, <1>4, <1>5
  <2> QED
    BY <1>2, <1>14, <1>17, <2>1, <2>2 DEF Arrives
<1> QED
  BY <1>1, <1>11, <1>13, <1>18 DEF Carries, rb2, t, l

\* The buffer is used up.
LEMMA DataReturn ==
  ASSUME NEW c, NEW f, NEW cons, NEW P, NEW S, NEW A, NEW rb, NEW rcv, NEW D,
         NEW gs, NEW np, LinkOK(c, f, cons, P, S, A, rb, rcv, D, gs, np),
         NEW eg, Carries(c, f, eg, np, P, S, rb, rcv, D, gs), D < rcv \div 2,
         rb[LevelOf(D)].start >= Len(rb[LevelOf(D)].items)
  PROVE  Carries(c, f, eg, np, P, S, rb, rcv, D+1, gs)
<1> DEFINE b == rb[LevelOf(D)]
<1>0. LinkTyped(f, P, S, gs, np)
  BY TypesOfLink
<1>1. /\ Filled(c, f, eg, np) /\ Told(c, f, S, rcv)
      /\ Arrives(c.emitted, f, P, rb, rcv, D, gs)
  BY DEF Carries
<1>2. D < c.emitted
  BY DataBorrowed
<1>3. Landed(b, f, D, D, gs)
  BY DataBorrowed
<1>4. /\ c.emitted \in Nat /\ D \in Nat /\ c.produced \in Nat
      /\ c.emitted <= c.produced
  BY LinkFields
<1>5. f \in [Nat -> Nat]
  BY Zenon DEF LinkOK
<1>6. b \in [start : Nat, items : Seq(Nat)] /\ gs \in Seq(Nat)
  BY <1>4, LevelType DEF LinkOK
<1>7. b.start >= Len(b.items)
  OBVIOUS
<1> HIDE DEF b
<1>8. Len(gs) = f[D+1]
  <2>1. /\ b.start \in Nat /\ Len(gs) \in Nat /\ f[D] \in Nat
        /\ f[D+1] \in Nat
    <3>1. f[D] \in Nat /\ f[D+1] \in Nat /\ Len(gs) \in Nat
      BY <1>4, <1>0 DEF LinkTyped
    <3>2. b.start \in Nat
      BY <1>6
    <3> QED
      BY <3>1, <3>2
  <2>2. Len(b.items) = f[D+1] - f[D] /\ f[D] + b.start = Len(gs)
        /\ Len(gs) <= f[D+1]
    BY <1>3 DEF Landed, IsRun
  <2> QED
    BY <1>7, <2>1, <2>2
<1>9. ASSUME NEW n \in D+1 .. c.emitted-1
      PROVE  \/ f[n] = f[n+1]
             \/ \E x \in P : x.n = n
             \/ Landed(rb[LevelOf(n)], f, n, D+1, gs)
  <2>1. n \in D .. c.emitted-1 /\ n # D /\ n \in Nat
        /\ n \in 0 .. c.produced /\ n+1 \in 0 .. c.produced
    BY <1>4
  <2>2. ASSUME Landed(rb[LevelOf(n)], f, n, D, gs)
        PROVE  Landed(rb[LevelOf(n)], f, n, D+1, gs)
    <3>1. IsRun(rb[LevelOf(n)].items, f, n) /\ rb[LevelOf(n)].start = 0
      BY <2>1, <2>2 DEF Landed
    <3>2. f[n] <= f[n+1] /\ f[n] \in Nat
      <4>1. n <= n + 1
        BY <2>1
      <4> QED
        BY <1>1, <1>5, <2>1, <4>1 DEF Filled
    <3>3. n = D+1 => f[D+1] + 0 = Len(gs) /\ Len(gs) <= f[D+1+1]
      BY <1>8, <3>2
    <3> QED
      BY <3>1, <3>3 DEF Landed
  <2>3. \/ f[n] = f[n+1]
        \/ \E x \in P : x.n = n
        \/ Landed(rb[LevelOf(n)], f, n, D, gs)
    BY <1>1, <2>1 DEF Arrives
  <2> QED
    BY <2>2, <2>3
<1>10. /\ \A x \in P : /\ rcv <= 2 * x.n + 1 /\ f[x.n] < f[x.n+1]
                       /\ ~Nonblocking => IsRun(x.items, f, x.n)
       /\ \A i \in 1 .. Len(gs) : gs[i] = i
  BY <1>1 DEF Arrives
<1>11. Arrives(c.emitted, f, P, rb, rcv, D+1, gs)
  BY <1>8, <1>9, <1>10 DEF Arrives
<1> QED
  BY <1>1, <1>11 DEF Carries

\* The receiver has used up all the buffers of a link that has sent its last
\* signal.
UsedUpTo(rcv, D) == rcv \div 2 <= D /\ rcv % 2 = 1

LEMMA DataDrained ==
  ASSUME NEW c, NEW f, NEW cons, NEW P, NEW S, NEW A, NEW rb, NEW rcv, NEW D,
         NEW gs, NEW np, LinkOK(c, f, cons, P, S, A, rb, rcv, D, gs, np),
         NEW eg, Carries(c, f, eg, np, P, S, rb, rcv, D, gs),
         UsedUpTo(rcv, D)
  PROVE  Len(gs) = np /\ c.all_sent
<1>r. rcv \div 2 <= D /\ rcv % 2 = 1
  BY DEF UsedUpTo
<1>0. LinkTyped(f, P, S, gs, np)
  BY TypesOfLink
<1>1. /\ Filled(c, f, eg, np) /\ Told(c, f, S, rcv)
      /\ Arrives(c.emitted, f, P, rb, rcv, D, gs)
  BY DEF Carries
<1>2. /\ c.produced \in Nat /\ c.emitted \in Nat /\ c.delivered \in Nat
      /\ c.delivered <= c.emitted /\ c.emitted <= c.produced
      /\ D \in Nat /\ rcv \div 2 <= c.delivered /\ rcv \div 2 \in Nat
      /\ c.fill \in Nat /\ D <= rcv \div 2
  BY LinkFields
<1>3. D = rcv \div 2 /\ D <= c.produced
  BY <1>r, <1>2
<1>4. c.all_sent /\ f[D] = f[c.produced]
  BY <1>r, <1>1, <1>3 DEF Told, Tells
<1>5. c.fill = 0 /\ np = f[c.produced] + c.fill
  BY <1>1, <1>2, <1>4 DEF Filled
<1>6. f[D] \in Nat /\ f[D+1] \in Nat /\ f[c.produced] \in Nat
  BY <1>2, <1>0 DEF LinkTyped
<1>7. D # c.emitted => f[D] = f[D+1]
  <2> SUFFICES ASSUME D # c.emitted PROVE f[D] = f[D+1]
    OBVIOUS
  <2>1. /\ D \in 0 .. c.produced /\ D+1 \in 0 .. c.produced
        /\ c.produced \in 0 .. c.produced /\ D <= D+1 /\ D+1 <= c.produced
    BY <1>2
  <2>2. f[D] <= f[D+1] /\ f[D+1] <= f[c.produced]
    BY <1>1, <2>1 DEF Filled
  <2> QED
    BY <1>4, <1>6, <2>2
<1>8. Len(gs) = f[D]
  BY <1>1, <1>7 DEF Arrives
<1> QED
  BY <1>4, <1>5, <1>6, <1>8

-----------------------------------------------------------------------------
(* The links of one PE *)

\* The link from p to x, would its channel be c, the puts and signals on their
\* way P and S, and the items pushed k.
Held(p, x, c, g, k, P, S) ==
  \E f \in [Nat -> Nat] :
    Carries(c, f, g, k, P, S, recvbuf[x][p], received[x][p], disposed[x][p],
            got[x][p])

Holds(p, x, c, g, k) == Held(p, x, c, g, k, puts[p][x], signals[p][x])

\* The types of the receiver's side of a link.
LEMMA ReceiverTypes ==
  ASSUME TypeInv, NEW p \in Rank, NEW x \in Rank
  PROVE  /\ recvbuf[x][p] \in [Level -> [start : Nat, items : Seq(Nat)]]
         /\ got[x][p] \in Seq(Nat)
         /\ received[x][p] \in Nat /\ disposed[x][p] \in Nat
<1>1. /\ recvbuf \in [Rank -> [Rank ->
                        [Level -> [start : Nat, items : Seq(Nat)]]]]
      /\ got \in [Rank -> [Rank -> Seq(Nat)]]
      /\ received \in [Rank -> [Rank -> Nat]]
      /\ disposed \in [Rank -> [Rank -> Nat]]
  BY DEF TypeInv, TypeOK
<1>2. recvbuf[x][p] \in [Level -> [start : Nat, items : Seq(Nat)]]
  BY <1>1
<1>3. got[x][p] \in Seq(Nat)
  BY <1>1
<1>4. received[x][p] \in Nat /\ disposed[x][p] \in Nat
  BY <1>1
<1> QED
  BY <1>2, <1>3, <1>4

LEMMA LinkOKNow ==
  ASSUME TypeInv, NEW p \in Rank, NEW x \in Rank, NEW c, ChanOK(c),
         NEW P, P \subseteq Data, NEW S, S \subseteq Signal,
         Flow(c, consumed[p][x], P, S, acks[x][p], received[x][p],
              disposed[x][p]),
         NEW k \in Nat, NEW f \in [Nat -> Nat]
  PROVE  LinkOK(c, f, consumed[p][x], P, S, acks[x][p], recvbuf[x][p],
                received[x][p], disposed[x][p], got[x][p], k)
<1>1. FlowTypes(c, consumed[p][x], P, S, acks[x][p], received[x][p],
                disposed[x][p])
  <2>1. FlowTypes(c, consumed[p][x], puts[p][x], signals[p][x], acks[x][p],
                  received[x][p], disposed[x][p])
    BY LinkTypes
  <2> QED
    BY <2>1 DEF FlowTypes
<1> QED
  BY <1>1, ReceiverTypes DEF LinkOK

\* The wires of a link are typed.
LEMMA WireTypes ==
  ASSUME TypeInv, NEW p \in Rank, NEW x \in Rank
  PROVE  /\ puts[p][x] \subseteq Data /\ signals[p][x] \subseteq Signal
         /\ acks[x][p] \subseteq Ack
<1>1. /\ puts \in [Rank -> [Rank -> SUBSET Data]]
      /\ signals \in [Rank -> [Rank -> SUBSET Signal]]
      /\ acks \in [Rank -> [Rank -> SUBSET Ack]]
  BY DEF TypeInv, TypeOK, Data, Signal, Ack
<1> QED
  BY <1>1

LEMMA LinkOKHeld ==
  ASSUME TypeInv, NEW p \in Rank, NEW x \in Rank, NEW c, ChanOK(c),
         Fits(p, x, c), NEW k \in Nat, NEW f \in [Nat -> Nat]
  PROVE  LinkOK(c, f, consumed[p][x], puts[p][x], signals[p][x], acks[x][p],
                recvbuf[x][p], received[x][p], disposed[x][p], got[x][p], k)
BY WireTypes, LinkOKNow DEF Fits

LEMMA HeldSame ==
  ASSUME NEW b, NEW c, SameData(b, c), NEW g \in BOOLEAN, NEW h \in BOOLEAN,
         g => h, NEW p, NEW x, NEW k, NEW P, NEW S, Held(p, x, c, g, k, P, S)
  PROVE  Held(p, x, b, h, k, P, S)
<1>1. PICK f \in [Nat -> Nat] :
        Carries(c, f, g, k, P, S, recvbuf[x][p], received[x][p],
                disposed[x][p], got[x][p])
  BY DEF Held
<1>2. Carries(b, f, h, k, P, S, recvbuf[x][p], received[x][p],
              disposed[x][p], got[x][p])
  BY <1>1, CarriesSame
<1> QED
  BY <1>2 DEF Held

\* Writing, closing and marking a ticket.
LEMMA HoldsWritten ==
  ASSUME TypeInv, NEW p \in Rank, NEW x \in Rank, NEW c, ChanOK(c), c.open,
         Fits(p, x, c), NEW k \in Nat, NEW g \in BOOLEAN, Holds(p, x, c, g, k)
  PROVE  Holds(p, x, Written(c, k + 1), g, k + 1)
<1>1. PICK f \in [Nat -> Nat] :
        Carries(c, f, g, k, puts[p][x], signals[p][x], recvbuf[x][p],
                received[x][p], disposed[x][p], got[x][p])
  BY DEF Holds, Held
<1>2. LinkOK(c, f, consumed[p][x], puts[p][x], signals[p][x], acks[x][p],
             recvbuf[x][p], received[x][p], disposed[x][p], got[x][p], k)
  BY LinkOKHeld
<1>3. Carries(Written(c, k + 1), f, g, k + 1, puts[p][x], signals[p][x],
              recvbuf[x][p], received[x][p], disposed[x][p], got[x][p])
  BY <1>1, <1>2, DataWrite
<1> QED
  BY <1>3 DEF Holds, Held

LEMMA HoldsClosed ==
  ASSUME TypeInv, NEW p \in Rank, NEW x \in Rank, NEW c, ChanOK(c), c.open,
         Fits(p, x, c), NEW k \in Nat, NEW g \in BOOLEAN, g \/ c.fill > 0,
         Holds(p, x, c, g, k)
  PROVE  Holds(p, x, Closed(c), g, k)
<1>1. PICK f \in [Nat -> Nat] :
        Carries(c, f, g, k, puts[p][x], signals[p][x], recvbuf[x][p],
                received[x][p], disposed[x][p], got[x][p])
  BY DEF Holds, Held
<1>2. LinkOK(c, f, consumed[p][x], puts[p][x], signals[p][x], acks[x][p],
             recvbuf[x][p], received[x][p], disposed[x][p], got[x][p], k)
  BY LinkOKHeld
<1>3. \E h \in [Nat -> Nat] :
        Carries(Closed(c), h, g, k, puts[p][x], signals[p][x],
                recvbuf[x][p], received[x][p], disposed[x][p], got[x][p])
  BY <1>1, <1>2, DataClose
<1> QED
  BY <1>3 DEF Holds, Held

\* The links of p after nonblock_progress().
LEMMA HeldProgressed ==
  ASSUME TypeInv, NEW p \in Rank, NEW C, ChansOK(C), NEW force \in BOOLEAN,
         force => Quiet(p), NEW x \in Live, Fits(p, x, C[x]), NEW k \in Nat,
         NEW g \in BOOLEAN, Holds(p, x, C[x], g, k)
  PROVE  Held(p, x, Progressed(C, force)[x], g, k, puts[p][x],
              OwedSignals(p, C, force)[x])
<1>0. x \in Rank /\ ChanOK(C[x])
  BY LiveRank DEF ChansOK
<1>1. PICK f \in [Nat -> Nat] :
        Carries(C[x], f, g, k, puts[p][x], signals[p][x], recvbuf[x][p],
                received[x][p], disposed[x][p], got[x][p])
  BY DEF Holds, Held
<1>2. LinkOK(C[x], f, consumed[p][x], puts[p][x], signals[p][x], acks[x][p],
             recvbuf[x][p], received[x][p], disposed[x][p], got[x][p], k)
  BY <1>0, LinkOKHeld
<1>3. force => puts[p][x] = {} /\ signals[p][x] = {}
  BY <1>0 DEF Quiet
<1>4. Carries(Recording1(C[x], force), f, g, k, puts[p][x],
              Told1(C[x], signals[p][x], force), recvbuf[x][p],
              received[x][p], disposed[x][p], got[x][p])
  BY <1>1, <1>2, <1>3, DataProgress
<1>5. Held(p, x, Recording1(C[x], force), g, k, puts[p][x],
           Told1(C[x], signals[p][x], force))
  BY <1>4 DEF Held
<1> QED
  BY <1>0, <1>5, ProgressedAt

\* One link after porter_try_send() has sent on it.
LEMMA HeldSent ==
  ASSUME TypeInv, NEW p \in Rank, NEW d \in Rank, NEW c, ChanOK(c),
         NEW P, P \subseteq Data, NEW S, S \subseteq Signal,
         Flow(c, consumed[p][d], P, S, acks[d][p], received[d][p],
              disposed[d][p]),
         NEW k \in Nat, endgame[p] \in BOOLEAN,
         endgame[p] => ~c.open /\ ~c.all_sent,
         Held(p, d, c, endgame[p], k, P, S),
         NEW e \in c.emitted .. c.produced, NEW final \in BOOLEAN,
         final <=> endgame[p] /\ e = c.produced /\ e > c.emitted,
         NEW o, o = IF Opens(p, SentMark(c, e, final), final)
                    THEN Opened(SentMark(c, e, final))
                    ELSE SentMark(c, e, final)
  PROVE  Held(p, d, o, endgame[p], k, P \cup DataPuts(c, e),
              S \cup SignalPuts(c, e, final))
<1> DEFINE g == endgame[p]
           s == SentMark(c, e, final)
           Q == P \cup DataPuts(c, e)
           T == S \cup SignalPuts(c, e, final)
<1>1. PICK f \in [Nat -> Nat] :
        Carries(c, f, g, k, P, S, recvbuf[d][p], received[d][p],
                disposed[d][p], got[d][p])
  BY DEF Held
<1>2. LinkOK(c, f, consumed[p][d], P, S, acks[d][p], recvbuf[d][p],
             received[d][p], disposed[d][p], got[d][p], k)
  BY LinkOKNow
<1>3. Carries(s, f, g, k, Q, T, recvbuf[d][p], received[d][p],
              disposed[d][p], got[d][p])
  BY <1>1, <1>2, DataSend
<1>4. /\ c \in Channel /\ e \in Nat /\ c.emitted <= e
      /\ ~Nonblocking => c.delivered = c.emitted
  <2>1. c \in Channel
    BY DEF ChanOK
  <2>2. c.emitted \in Nat /\ c.produced \in Nat
    BY <2>1, FieldTypes
  <2>3. ~Nonblocking => c.delivered = c.emitted
    BY DEF Flow, Recording
  <2> QED
    BY <2>1, <2>2, <2>3
<1>5. /\ s \in Channel /\ s.produced = c.produced /\ s.emitted = e
      /\ s.all_sent = (c.all_sent \/ final)
  BY <1>4, SentFields
<1> HIDE DEF s, Q, T
<1>6. CASE Opens(p, s, final)
  <2>1. /\ ~endgame[p] \/ (s.emitted = s.produced /\ ~final)
        /\ ~s.open
    BY <1>6 DEF Opens
  <2>2. g => s.emitted = s.produced /\ ~s.all_sent
    BY <1>5, <2>1
  <2>3. Carries(Opened(s), f, g, k, Q, T, recvbuf[d][p], received[d][p],
                disposed[d][p], got[d][p])
    BY <1>3, <1>5, <2>1, <2>2, DataOpen
  <2>4. o = Opened(s)
    BY <1>6 DEF s
  <2> QED
    BY <2>3, <2>4 DEF Held, Q, T
<1>7. CASE ~Opens(p, s, final)
  <2>1. o = s
    BY <1>7 DEF s
  <2> QED
    BY <1>3, <2>1 DEF Held, Q, T
<1> QED
  BY <1>6, <1>7

\* The links of p after a step of its sending side, np[x] items having been
\* pushed to x.
SentData(p, np) ==
  \A x \in Live : Held(p, x, chan'[p][x], endgame[p], np[x], puts'[p][x],
                       signals'[p][x])

\* nonblock_progress() marks no channel as final and opens or closes none.
LEMMA ProgressedMarks ==
  ASSUME NEW C, ChansOK(C), NEW force, NEW x \in Rank
  PROVE  /\ Progressed(C, force)[x].all_sent = C[x].all_sent
         /\ Progressed(C, force)[x].open = C[x].open
<1>1. C[x] \in Channel
  BY DEF ChansOK
<1>2. /\ Recording1(C[x], force).all_sent = C[x].all_sent
      /\ Recording1(C[x], force).open = C[x].open
  BY <1>1 DEF Recording1, Recorded, Channel
<1> QED
  BY <1>2, ProgressedAt

LEMMA TrySendData ==
  ASSUME TypeInv, NEW p \in Rank, NEW d \in Live, NEW C, ChansOK(C), NEW nu,
         TrySend(p, d, C, nu),
         \A x \in Live : Fits(p, x, C[x]),
         \A x \in Rank \ Live : C[x] = NewChannel(x),
         NEW np \in [Rank -> Nat],
         \A x \in Live : Holds(p, x, C[x], endgame[p], np[x]),
         endgame[p] => ~C[d].open /\ ~C[d].all_sent
  PROVE  /\ SentData(p, np)
         /\ \A x \in Rank \ {d} : chan'[p][x].all_sent = C[x].all_sent
<1>1. d \in Rank /\ endgame[p] \in BOOLEAN
  BY LiveRank DEF TypeInv, TypeOK
<1>2. PICK force \in BOOLEAN, e \in C[d].emitted .. C[d].produced :
        SendEffect(p, d, C, nu, force, e)
  BY <1>1, TrySendEffect
<1> DEFINE C1    == Progressed(C, force)
           c     == C1[d]
           final == endgame[p] /\ e = c.produced /\ e > c.emitted
           s     == SentMark(c, e, final)
           o     == IF Opens(p, s, final) THEN Opened(s) ELSE s
           T     == OwedSignals(p, C, force)
<1>4. /\ force => Quiet(p)
      /\ chan'[p] = [C1 EXCEPT ![d] = o]
      /\ puts'[p] = [puts[p] EXCEPT ![d] = @ \cup DataPuts(c, e)]
      /\ signals'[p] = [T EXCEPT ![d] = @ \cup SignalPuts(c, e, final)]
  BY <1>2, Zenon DEF SendEffect, SentMark
<1>5. /\ ChansOK(C1) /\ c.emitted = C[d].emitted /\ c.produced = C[d].produced
  BY <1>1, ProgressedOK
<1>6. ChanOK(c) /\ c \in Channel
  BY <1>1, <1>5 DEF ChansOK
<1>7. \A x \in Live :
        /\ Flow(C1[x], consumed[p][x], puts[p][x], T[x], acks[x][p],
                received[x][p], disposed[x][p])
  BY <1>4, ProgressedLinks
<1>8. \A x \in Live : Held(p, x, C1[x], endgame[p], np[x], puts[p][x], T[x])
  <2> SUFFICES ASSUME NEW x \in Live
               PROVE  Held(p, x, C1[x], endgame[p], np[x], puts[p][x], T[x])
    OBVIOUS
  <2>1. Holds(p, x, C[x], endgame[p], np[x]) /\ Fits(p, x, C[x])
        /\ np[x] \in Nat
    BY LiveRank
  <2> QED
    BY <1>1, <1>4, <2>1, HeldProgressed
<1>9. T \in [Rank -> SUBSET Signal] /\ puts[p] \in [Rank -> SUBSET Data]
  <2>1. puts \in [Rank -> [Rank -> SUBSET Data]]
    BY DEF TypeInv, TypeOK, Data
  <2> QED
    BY <2>1, OwedSignalsType DEF TypeInv
<1>10. C1 \in [Rank -> Channel]
  BY <1>5 DEF ChansOK
<1>11. e \in c.emitted .. c.produced /\ final \in BOOLEAN
  BY <1>5
<1>12. /\ \A x \in Rank : C1[x].all_sent = C[x].all_sent
       /\ c.open = C[d].open
  BY <1>1, ProgressedMarks
<1>13. Held(p, d, o, endgame[p], np[d], puts[p][d] \cup DataPuts(c, e),
            T[d] \cup SignalPuts(c, e, final))
  <2>1. final <=> endgame[p] /\ e = c.produced /\ e > c.emitted
    OBVIOUS
  <2>2. o = IF Opens(p, s, final) THEN Opened(s) ELSE s
    OBVIOUS
  <2>3. Flow(c, consumed[p][d], puts[p][d], T[d], acks[d][p],
             received[d][p], disposed[d][p])
        /\ Held(p, d, c, endgame[p], np[d], puts[p][d], T[d])
    BY <1>7, <1>8
  <2>4. endgame[p] => ~c.open /\ ~c.all_sent
    BY <1>1, <1>12
  <2>5. puts[p][d] \subseteq Data /\ T[d] \subseteq Signal /\ np[d] \in Nat
    BY <1>1, <1>9
  <2> HIDE DEF o, final, c, T
  <2> QED
    BY <1>1, <1>6, <1>11, <2>1, <2>2, <2>3, <2>4, <2>5, HeldSent,
       ZenonT(60)
<1> HIDE DEF o, final, c, T
<1>14. /\ chan'[p][d] = o /\ puts'[p][d] = puts[p][d] \cup DataPuts(c, e)
       /\ signals'[p][d] = T[d] \cup SignalPuts(c, e, final)
       /\ \A x \in Rank \ {d} : /\ chan'[p][x] = C1[x]
                                /\ puts'[p][x] = puts[p][x]
                                /\ signals'[p][x] = T[x]
  BY <1>1, <1>4, <1>9, <1>10
<1> HIDE DEF C1
<1>15. ASSUME NEW x \in Live
       PROVE  Held(p, x, chan'[p][x], endgame[p], np[x], puts'[p][x],
                   signals'[p][x])
  <2>1. CASE x = d
    BY <1>13, <1>14, <2>1
  <2>2. CASE x # d
    <3>1. x \in Rank \ {d}
      BY <2>2, LiveRank
    <3> QED
      BY <1>8, <1>14, <3>1
  <2> QED
    BY <2>1, <2>2
<1>16. \A x \in Rank \ {d} : chan'[p][x].all_sent = C[x].all_sent
  BY <1>12, <1>14
<1> QED
  BY <1>15, <1>16 DEF SentData

LEMMA ProgressAllData ==
  ASSUME TypeInv, NEW p \in Rank, ProgressAll(p),
         \A x \in Live : Fits(p, x, chan[p][x]),
         NEW np \in [Rank -> Nat],
         \A x \in Live : Holds(p, x, chan[p][x], endgame[p], np[x])
  PROVE  SentData(p, np)
<1>1. /\ Nonblocking => Quiet(p)
      /\ chan'[p] = Progressed(chan[p], Nonblocking) /\ puts'[p] = puts[p]
      /\ signals'[p] = OwedSignals(p, chan[p], Nonblocking)
  BY ProgressAllEffect
<1>2. ChansOK(chan[p]) /\ Nonblocking \in BOOLEAN /\ endgame[p] \in BOOLEAN
  BY OptionAssumption DEF TypeInv, TypeOK
<1> SUFFICES ASSUME NEW x \in Live
             PROVE  Held(p, x, chan'[p][x], endgame[p], np[x], puts'[p][x],
                         signals'[p][x])
  BY DEF SentData
<1>3. Holds(p, x, chan[p][x], endgame[p], np[x]) /\ Fits(p, x, chan[p][x])
      /\ np[x] \in Nat
  BY LiveRank
<1>4. Held(p, x, Progressed(chan[p], Nonblocking)[x], endgame[p], np[x],
           puts[p][x], OwedSignals(p, chan[p], Nonblocking)[x])
  BY <1>1, <1>2, <1>3, HeldProgressed
<1> QED
  BY <1>1, <1>4

-----------------------------------------------------------------------------
(* The group *)

\* Every link holds what was pushed on it.
CarryInv == \A p, d \in Live : SameRound(p, d) =>
  Holds(p, d, chan[p][d], endgame[p], pushed[p][d])

\* Where porter_advance() stands: the endgame begins behind porter_try_urgent(),
\* and porter_try_flush() visits the channels that are not yet marked.
PassInv == \A p \in Rank :
  /\ endgame[p] => done[p]
  /\ pc[p] = "urgent" => ~endgame[p]
  /\ pc[p] = "flush" => /\ endgame[p]
                        /\ \A d \in todo[p] : ~chan[p][d].all_sent

\* What a drained porter has seen stays so, and a PE leaves its round only when
\* it is drained.
DrainInv == \A r \in Rank :
  /\ drained[r] => /\ r \in Live
                   /\ \A s \in Rank : /\ received[r][s] \div 2 <= disposed[r][s]
                                      /\ received[r][s] % 2 = 1
  /\ (r \in Live /\ stage[r] \in {"resetting", "dormant"}) => drained[r]

\* Nothing is pushed or taken before the reduction of porter_setup().
FreshInv == \A p \in Live, d \in Rank :
  stage[p] = "set" => pushed[p][d] = 0 /\ got[p][d] = <<>>

\* The rounds of two PEs differ only while one waits for the other in
\* porter_setup().
RoundInv == \A p, d \in Live :
  /\ SameRound(p, d) => round[p] = round[d]
  /\ (stage[p] = "set" /\ stage[d] = "dormant") => round[p] = round[d] + 1

DataInv == CarryInv /\ PassInv /\ DrainInv /\ FreshInv /\ RoundInv

\* The assignments that the data do not see.
LEMMA SameDataOps ==
  ASSUME NEW c \in Channel
  PROVE  /\ SameData(c, c) /\ SameData(Ticketed(c), c)
         /\ \A w \in 0 .. Patience : SameData([c EXCEPT !.waiting = w], c)
<1>1. SameData(Ticketed(c), c)
  BY DEF SameData, Ticketed, Channel
<1>2. \A w \in 0 .. Patience : SameData([c EXCEPT !.waiting = w], c)
  BY DEF SameData, Channel
<1> QED
  BY <1>1, <1>2 DEF SameData

\* The fields that closing and writing set.
LEMMA ClosedFields ==
  ASSUME NEW c \in Channel
  PROVE  /\ ~Closed(c).open /\ Closed(c).all_sent = c.all_sent
<1> DEFINE bs == [c.bufs EXCEPT ![LevelOf(c.produced)] = SubSeq(@, 1, c.fill)]
<1>1. Closed(c) = [c EXCEPT !.bufs = bs, !.open = FALSE, !.fill = 0,
                            !.produced = c.produced + 1]
  BY DEF Closed, Channel
<1> HIDE DEF bs
<1>2. Closed(c).open = FALSE
  BY <1>1 DEF Channel
<1>3. Closed(c).all_sent = c.all_sent
  BY <1>1 DEF Channel
<1> QED
  BY <1>2, <1>3

LEMMA WrittenFields ==
  ASSUME NEW c \in Channel, NEW item
  PROVE  Written(c, item).fill > 0
<1> DEFINE bs == [c.bufs EXCEPT ![LevelOf(c.produced)] =
                    Append(SubSeq(@, 1, c.fill), item)]
<1>1. Written(c, item) = [c EXCEPT !.bufs = bs, !.fill = c.fill + 1]
  BY DEF Written, Channel
<1> HIDE DEF bs
<1>2. Written(c, item).fill = c.fill + 1 /\ c.fill \in Nat
  BY <1>1 DEF Channel
<1> QED
  BY <1>2

\* What a PE between setup and reset may rely on.
LEMMA SenderHolds ==
  ASSUME FlowInv, DataInv, NEW p \in Live, stage[p] = "working"
  PROVE  \A x \in Live : Holds(p, x, chan[p][x], endgame[p], pushed[p][x])
BY WorkingTogether DEF FlowInv, DataInv, CarryInv

\* A step of p that may have pushed an item to d, now k in all.
DataStep(p, d, k) ==
  /\ OnlyOf(p) /\ SentData(p, [pushed[p] EXCEPT ![d] = k])
  /\ \A x \in Rank \ {d} : chan'[p][x].all_sent = chan[p][x].all_sent

LEMMA ReplaceHolds ==
  ASSUME TypeInv, FlowInv, DataInv, NEW p \in Live, stage[p] = "working",
         NEW d \in Live, NEW b, NEW k \in Nat,
         Holds(p, d, b, endgame[p], k)
  PROVE  /\ [pushed[p] EXCEPT ![d] = k] \in [Rank -> Nat]
         /\ \A x \in Live : Holds(p, x, [chan[p] EXCEPT ![d] = b][x],
                                  endgame[p], [pushed[p] EXCEPT ![d] = k][x])
<1>1. chan[p] \in [Rank -> Channel] /\ pushed[p] \in [Rank -> Nat]
      /\ d \in Rank /\ p \in Rank
  BY LiveRank DEF TypeInv, TypeOK
<1>2. /\ [chan[p] EXCEPT ![d] = b][d] = b
      /\ \A x \in Rank \ {d} : [chan[p] EXCEPT ![d] = b][x] = chan[p][x]
  BY <1>1
<1>3. /\ [pushed[p] EXCEPT ![d] = k][d] = k
      /\ \A x \in Rank \ {d} : [pushed[p] EXCEPT ![d] = k][x] = pushed[p][x]
      /\ [pushed[p] EXCEPT ![d] = k] \in [Rank -> Nat]
  BY <1>1
<1>4. ASSUME NEW x \in Live
      PROVE  Holds(p, x, [chan[p] EXCEPT ![d] = b][x], endgame[p],
                   [pushed[p] EXCEPT ![d] = k][x])
  <2>1. CASE x = d
    BY <1>2, <1>3, <2>1
  <2>2. CASE x # d
    <3>1. x \in Rank \ {d}
      BY <2>2, LiveRank
    <3>2. Holds(p, x, chan[p][x], endgame[p], pushed[p][x])
      BY SenderHolds
    <3> QED
      BY <1>2, <1>3, <3>1, <3>2
  <2> QED
    BY <2>1, <2>2
<1> QED
  BY <1>3, <1>4

\* porter_try_send() when the channel of d has been replaced by b.
LEMMA TrySendFromData ==
  ASSUME TypeInv, FlowInv, DataInv, NEW p \in Live, stage[p] = "working",
         NEW d \in Live, NEW b, ChanOK(b), SameFlow(b, chan[p][d]),
         NEW k \in Nat, Holds(p, d, b, endgame[p], k), NEW nu,
         TrySend(p, d, [chan[p] EXCEPT ![d] = b], nu),
         endgame[p] => ~b.open /\ ~b.all_sent
  PROVE  DataStep(p, d, k)
<1> DEFINE C  == [chan[p] EXCEPT ![d] = b]
           np == [pushed[p] EXCEPT ![d] = k]
<1>1. p \in Rank /\ d \in Rank
  BY LiveRank
<1>2. ChansOK(C)
  BY <1>1, ReplaceOK
<1>3. /\ \A x \in Live : Fits(p, x, C[x])
      /\ \A x \in Rank \ Live : C[x] = NewChannel(x)
  BY ReplaceFits
<1>4. /\ np \in [Rank -> Nat]
      /\ \A x \in Live : Holds(p, x, C[x], endgame[p], np[x])
  BY ReplaceHolds
<1>5. TrySend(p, d, C, nu)
  OBVIOUS
<1>6. C[d] = b /\ \A x \in Rank \ {d} : C[x] = chan[p][x]
  <2>1. chan[p] \in [Rank -> Channel]
    BY <1>1 DEF TypeInv, TypeOK
  <2> QED
    BY <1>1, <2>1
<1> HIDE DEF C, np
<1>7. endgame[p] => ~C[d].open /\ ~C[d].all_sent
  BY <1>6
<1>8. /\ SentData(p, np)
      /\ \A x \in Rank \ {d} : chan'[p][x].all_sent = C[x].all_sent
  BY <1>1, <1>2, <1>3, <1>4, <1>5, <1>7, TrySendData
<1>9. OnlyOf(p)
  BY <1>1, <1>5, TrySendEffect
<1> QED
  BY <1>6, <1>8, <1>9 DEF DataStep, np

\* porter_try_send() as it is.
LEMMA TrySendNowData ==
  ASSUME TypeInv, FlowInv, DataInv, NEW p \in Live, stage[p] = "working",
         NEW d \in Live, NEW nu, TrySend(p, d, chan[p], nu),
         endgame[p] => ~chan[p][d].open /\ ~chan[p][d].all_sent
  PROVE  DataStep(p, d, pushed[p][d])
<1>1. p \in Rank /\ d \in Rank
  BY LiveRank
<1>2. /\ ChanOK(chan[p][d]) /\ chan[p][d] \in Channel
      /\ pushed[p][d] \in Nat
  BY <1>1, Access
<1>3. [chan[p] EXCEPT ![d] = chan[p][d]] = chan[p]
  <2>1. chan[p] \in [Rank -> Channel]
    BY <1>1 DEF TypeInv, TypeOK
  <2> QED
    BY <1>1, <2>1
<1>4. SameFlow(chan[p][d], chan[p][d])
  BY DEF SameFlow
<1>5. Holds(p, d, chan[p][d], endgame[p], pushed[p][d])
  BY SenderHolds
<1>6. TrySend(p, d, [chan[p] EXCEPT ![d] = chan[p][d]], nu)
  BY <1>3
<1> QED
  BY <1>2, <1>4, <1>5, <1>6, TrySendFromData

\* One assignment to a channel.
LEMMA OneChannelData ==
  ASSUME TypeInv, FlowInv, DataInv, NEW p \in Live, stage[p] = "working",
         NEW d \in Live, NEW b, NEW k \in Nat, Holds(p, d, b, endgame[p], k),
         chan' = [chan EXCEPT ![p][d] = b], UNCHANGED <<n_urgent, wires>>
  PROVE  DataStep(p, d, k)
<1>1. chan \in [Rank -> [Rank -> Channel]] /\ d \in Rank /\ p \in Rank
  BY LiveRank DEF TypeInv, TypeOK
<1>2. chan'[p] = [chan[p] EXCEPT ![d] = b]
  BY <1>1
<1>3. OnlyOf(p)
  BY <1>1 DEF OnlyOf, wires
<1>4. \A x \in Live : Holds(p, x, chan'[p][x], endgame[p],
                            [pushed[p] EXCEPT ![d] = k][x])
  BY <1>2, ReplaceHolds
<1>5. SentData(p, [pushed[p] EXCEPT ![d] = k])
  BY <1>4 DEF SentData, Holds, wires
<1>6. \A x \in Rank \ {d} : chan'[p][x] = chan[p][x]
  BY <1>1, <1>2
<1> QED
  BY <1>3, <1>5, <1>6 DEF DataStep

\* A step of the sending side of p keeps the invariant.
LEMMA SendDataInv ==
  ASSUME TypeInv, FlowInv, DataInv, NEW p \in Live, stage[p] = "working",
         OnlyOf(p), NEW np, SentData(p, np),
         \A x \in Live : pushed'[p][x] = np[x],
         \A q \in Rank \ {p} :
           /\ pushed'[q] = pushed[q] /\ endgame'[q] = endgame[q]
           /\ done'[q] = done[q] /\ pc'[q] = pc[q] /\ todo'[q] = todo[q],
         endgame'[p] \in BOOLEAN, endgame[p] => endgame'[p],
         UNCHANGED <<receiver, got, stage, round>>,
         endgame'[p] => done'[p], pc'[p] = "urgent" => ~endgame'[p],
         pc'[p] = "flush" => /\ endgame'[p]
                             /\ \A d \in todo'[p] : ~chan'[p][d].all_sent
  PROVE  DataInv'
<1> USE DEF DataInv
<1>0. p \in Rank /\ endgame[p] \in BOOLEAN
  BY LiveRank DEF TypeInv, TypeOK
<1>1. UNCHANGED <<recvbuf, received, disposed, drained>>
  BY DEF receiver
<1>2. CarryInv'
  <2> SUFFICES ASSUME NEW q \in Live, NEW x \in Live, SameRound(q, x)
               PROVE  Holds(q, x, chan[q][x], endgame[q], pushed[q][x])'
    BY DEF CarryInv, SameRound
  <2>1. CASE q = p
    <3>1. Held(p, x, chan'[p][x], endgame[p], np[x], puts'[p][x],
               signals'[p][x])
      BY DEF SentData
    <3>2. SameData(chan'[p][x], chan'[p][x])
      BY DEF SameData
    <3>3. Held(p, x, chan'[p][x], endgame'[p], np[x], puts'[p][x],
               signals'[p][x])
      BY <1>0, <3>1, <3>2, HeldSame
    <3>4. pushed'[p][x] = np[x]
      OBVIOUS
    <3> QED
      BY <1>1, <2>1, <3>3, <3>4 DEF Holds, Held
  <2>2. CASE q # p
    <3>1. q \in Rank \ {p}
      BY <2>2, LiveRank
    <3>2. Holds(q, x, chan[q][x], endgame[q], pushed[q][x])
      BY DEF CarryInv
    <3>3. /\ chan'[q] = chan[q] /\ puts'[q] = puts[q]
          /\ signals'[q] = signals[q] /\ pushed'[q] = pushed[q]
          /\ endgame'[q] = endgame[q]
      BY <3>1 DEF OnlyOf
    <3> QED
      BY <1>1, <3>2, <3>3 DEF Holds, Held
  <2> QED
    BY <2>1, <2>2
<1>3. PassInv'
  <2> SUFFICES ASSUME NEW q \in Rank
               PROVE  /\ endgame'[q] => done'[q]
                      /\ pc'[q] = "urgent" => ~endgame'[q]
                      /\ pc'[q] = "flush" =>
                           /\ endgame'[q]
                           /\ \A d \in todo'[q] : ~chan'[q][d].all_sent
    BY DEF PassInv
  <2>1. CASE q = p
    BY <2>1
  <2>2. CASE q # p
    <3>1. /\ endgame'[q] = endgame[q] /\ done'[q] = done[q]
          /\ pc'[q] = pc[q] /\ todo'[q] = todo[q] /\ chan'[q] = chan[q]
      BY <2>2 DEF OnlyOf
    <3> QED
      BY <3>1 DEF PassInv
  <2> QED
    BY <2>1, <2>2
<1>4. DrainInv'
  BY <1>1 DEF DrainInv
<1>5. FreshInv'
  <2> SUFFICES ASSUME NEW q \in Live, NEW d \in Rank, stage[q] = "set"
               PROVE  pushed'[q][d] = 0 /\ got'[q][d] = <<>>
    BY DEF FreshInv
  <2>1. q \in Rank \ {p}
    BY LiveRank
  <2> QED
    BY <2>1 DEF FreshInv
<1>6. RoundInv'
  BY DEF RoundInv, SameRound
<1> QED
  BY <1>2, <1>3, <1>4, <1>5, <1>6

-----------------------------------------------------------------------------
(* porter_push() and porter_advance() *)

\* porter_push() and porter_epush() before the buffer is closed, if it is.
LEMMA PutHolds ==
  ASSUME TypeInv, FlowInv, DataInv, NEW p \in Live, stage[p] = "working",
         NEW d \in Live, chan[p][d].open
  PROVE  LET w == Put(p, d)
             k == pushed[p][d] + 1
         IN /\ k \in Nat
            /\ Holds(p, d, w, endgame[p], k)
            /\ Holds(p, d, Closed(w), endgame[p], k)
            /\ Holds(p, d, Ticketed(w), endgame[p], k)
            /\ Holds(p, d, Closed(Ticketed(w)), endgame[p], k)
<1> DEFINE c == chan[p][d]
           k == pushed[p][d] + 1
           w == Put(p, d)
           g == endgame[p]
           t == Ticketed(w)
<1>1. p \in Rank /\ d \in Rank
  BY LiveRank
<1>2. ChanOK(c) /\ c \in Channel /\ pushed[p][d] \in Nat
  BY <1>1, Access
<1>3. g \in BOOLEAN
  BY <1>1 DEF TypeInv, TypeOK
<1>4. Fits(p, d, c) /\ Holds(p, d, c, g, pushed[p][d])
  BY SenderFits, SenderHolds
<1>5. /\ ChanOK(w) /\ w.open /\ w \in Channel /\ SameFlow(w, c)
  BY <1>1, PutSame
<1>6. Holds(p, d, w, g, k)
  BY <1>1, <1>2, <1>3, <1>4, HoldsWritten DEF Put
<1>7. w.fill > 0
  BY <1>2, WrittenFields DEF Put
<1>8. k \in Nat
  BY <1>2
<1> HIDE DEF w, k, c, g
<1>9. Fits(p, d, w)
  BY <1>4, <1>5, FitsSame
<1>10. Holds(p, d, Closed(w), g, k)
  BY <1>1, <1>3, <1>5, <1>6, <1>7, <1>8, <1>9, HoldsClosed
<1>11. ChanOK(t) /\ t.open = w.open /\ SameFlow(t, w)
  BY <1>5, TicketedOK
<1>12. SameData(t, w)
  BY <1>5, SameDataOps
<1>13. Holds(p, d, t, g, k)
  BY <1>3, <1>6, <1>12, HeldSame DEF Holds
<1>14. t.fill > 0 /\ t.open
  BY <1>5, <1>7, <1>12 DEF SameData
<1> HIDE DEF t
<1>15. Fits(p, d, t)
  BY <1>9, <1>11, FitsSame
<1>16. Holds(p, d, Closed(t), g, k)
  BY <1>1, <1>3, <1>8, <1>11, <1>13, <1>14, <1>15, HoldsClosed
<1> QED
  BY <1>6, <1>8, <1>10, <1>13, <1>16 DEF w, k, t, g

\* Closing what the channel holds.
LEMMA NowClosed ==
  ASSUME TypeInv, FlowInv, DataInv, NEW p \in Live, stage[p] = "working",
         NEW d \in Live, chan[p][d].open,
         endgame[p] \/ chan[p][d].fill > 0
  PROVE  /\ Holds(p, d, Closed(chan[p][d]), endgame[p], pushed[p][d])
         /\ ChanOK(Closed(chan[p][d]))
         /\ SameFlow(Closed(chan[p][d]), chan[p][d])
         /\ ~Closed(chan[p][d]).open
         /\ Closed(chan[p][d]).all_sent = chan[p][d].all_sent
         /\ pushed[p][d] \in Nat
<1> DEFINE c == chan[p][d]
<1>1. p \in Rank /\ d \in Rank
  BY LiveRank
<1>2. ChanOK(c) /\ c \in Channel /\ pushed[p][d] \in Nat
  BY <1>1, Access
<1>3. endgame[p] \in BOOLEAN
  BY <1>1 DEF TypeInv, TypeOK
<1>4. Fits(p, d, c) /\ Holds(p, d, c, endgame[p], pushed[p][d])
  BY SenderFits, SenderHolds
<1>5. Holds(p, d, Closed(c), endgame[p], pushed[p][d])
  BY <1>1, <1>2, <1>3, <1>4, HoldsClosed
<1>6. ChanOK(Closed(c)) /\ SameFlow(Closed(c), c)
  BY <1>2, ClosedSame DEF SameFlow
<1>7. ~Closed(c).open /\ Closed(c).all_sent = c.all_sent
  BY <1>2, ClosedFields
<1> QED
  BY <1>2, <1>5, <1>6, <1>7

LEMMA PushData ==
  ASSUME TypeInv, FlowInv, DataInv, NEW p \in Rank, NEW d \in Rank, Push(p, d)
  PROVE  DataInv'
<1>1. /\ p \in Live /\ d \in Live /\ stage[p] = "working" /\ pc[p] = "idle"
      /\ ~done[p]
  BY DEF Push, PushRoom, EPushRoom, PushNoRoom, MayPush
<1>2. ~endgame[p]
  BY <1>1 DEF DataInv, PassInv
<1>3. /\ ChanOK(chan[p][d]) /\ pushed \in [Rank -> [Rank -> Nat]]
      /\ pushed[p][d] \in Nat /\ endgame[p] \in BOOLEAN
  BY Access DEF TypeInv, TypeOK
<1>4. /\ UNCHANGED <<receiver, got, stage, round>>
      /\ pc' = pc /\ todo' = todo /\ endgame' = endgame /\ done' = done
  BY DEF Push, PushRoom, EPushRoom, PushNoRoom, receiver, control, cycle,
         history
<1>5. ASSUME NEW k, DataStep(p, d, k), pushed' = [pushed EXCEPT ![p][d] = k]
      PROVE  DataInv'
  <2> DEFINE np == [pushed[p] EXCEPT ![d] = k]
  <2>1. pushed' = [pushed EXCEPT ![p] = np]
    BY <1>5
  <2>2. OnlyOf(p) /\ SentData(p, np)
    BY <1>5 DEF DataStep
  <2> HIDE DEF np
  <2>3. /\ \A x \in Live : pushed'[p][x] = np[x]
        /\ \A q \in Rank \ {p} : pushed'[q] = pushed[q]
    BY <1>3, <2>1
  <2>4. endgame[p] => endgame'[p]
    BY <1>4
  <2>5. endgame'[p] \in BOOLEAN /\ ~endgame'[p]
    BY <1>2, <1>3, <1>4
  <2>6. pc'[p] # "flush"
    BY <1>1, <1>4
  <2> QED
    BY <1>1, <1>4, <2>2, <2>3, <2>4, <2>5, <2>6, SendDataInv
<1>6. ASSUME PushRoom(p, d) PROVE DataInv'
  <2>1. chan[p][d].open /\ pushed' = [pushed EXCEPT ![p][d] = pushed[p][d] + 1]
    BY <1>3, <1>6 DEF PushRoom
  <2>2. \/ TrySend(p, d, [chan[p] EXCEPT ![d] = Closed(Put(p, d))], n_urgent[p])
        \/ chan' = [chan EXCEPT ![p][d] = Put(p, d)]
           /\ UNCHANGED <<n_urgent, wires>>
    BY <1>6 DEF PushRoom
  <2>3. /\ ChanOK(Closed(Put(p, d)))
        /\ SameFlow(Closed(Put(p, d)), chan[p][d])
    BY <2>1, PutSame, ClosedSame
  <2>4. /\ pushed[p][d] + 1 \in Nat
        /\ Holds(p, d, Put(p, d), endgame[p], pushed[p][d] + 1)
        /\ Holds(p, d, Closed(Put(p, d)), endgame[p], pushed[p][d] + 1)
    BY <1>1, <2>1, PutHolds
  <2>5. DataStep(p, d, pushed[p][d] + 1)
    BY <1>1, <1>2, <2>2, <2>3, <2>4, TrySendFromData, OneChannelData
  <2> QED
    BY <1>5, <2>1, <2>5
<1>7. ASSUME NEW ticket \in BOOLEAN, EPushRoom(p, d, ticket)
      PROVE  DataInv'
  <2> DEFINE w  == IF ticket THEN Ticketed(Put(p, d)) ELSE Put(p, d)
             nu == n_urgent[p] + (IF ticket /\ chan[p][d].urgent
                                               <= chan[p][d].delivered
                                  THEN 1 ELSE 0)
  <2>1. chan[p][d].open /\ pushed' = [pushed EXCEPT ![p][d] = pushed[p][d] + 1]
    BY <1>3, <1>7 DEF EPushRoom
  <2>2. \/ TrySend(p, d, [chan[p] EXCEPT ![d] = Closed(w)], nu)
        \/ chan' = [chan EXCEPT ![p][d] = w] /\ UNCHANGED <<n_urgent, wires>>
    BY <1>7 DEF EPushRoom
  <2>3. ChanOK(w) /\ w.open /\ SameFlow(w, chan[p][d])
    <3>1. /\ ChanOK(Put(p, d)) /\ Put(p, d).open
          /\ SameFlow(Put(p, d), chan[p][d])
      BY <2>1, PutSame
    <3>2. /\ ChanOK(Ticketed(Put(p, d))) /\ Ticketed(Put(p, d)).open
          /\ SameFlow(Ticketed(Put(p, d)), Put(p, d))
      BY <3>1, TicketedOK
    <3>3. SameFlow(Ticketed(Put(p, d)), chan[p][d])
      BY <3>1, <3>2 DEF SameFlow
    <3> QED
      BY <3>1, <3>2, <3>3
  <2>4. /\ pushed[p][d] + 1 \in Nat
        /\ Holds(p, d, w, endgame[p], pushed[p][d] + 1)
        /\ Holds(p, d, Closed(w), endgame[p], pushed[p][d] + 1)
    <3>1. CASE ticket
      BY <1>1, <2>1, <3>1, PutHolds
    <3>2. CASE ~ticket
      BY <1>1, <2>1, <3>2, PutHolds
    <3> QED
      BY <3>1, <3>2
  <2> HIDE DEF w, nu
  <2>5. ChanOK(Closed(w)) /\ SameFlow(Closed(w), chan[p][d])
    BY <2>3, ClosedSame
  <2>6. DataStep(p, d, pushed[p][d] + 1)
    BY <1>1, <1>2, <2>2, <2>3, <2>4, <2>5, TrySendFromData, OneChannelData
  <2> QED
    BY <1>5, <2>1, <2>6
<1>8. ASSUME PushNoRoom(p, d) PROVE DataInv'
  <2>1. \/ TrySend(p, d, chan[p], n_urgent[p])
        \/ /\ chan[p][d].open /\ chan[p][d].fill > 0
           /\ TrySend(p, d, [chan[p] EXCEPT ![d] = Closed(chan[p][d])],
                      n_urgent[p])
    BY <1>8 DEF PushNoRoom
  <2>2. pushed' = [pushed EXCEPT ![p][d] = pushed[p][d]]
    <3>1. pushed' = pushed
      BY <1>8 DEF PushNoRoom, history
    <3> QED
      BY <1>3, <3>1
  <2>3. DataStep(p, d, pushed[p][d])
    <3>1. CASE TrySend(p, d, chan[p], n_urgent[p])
      BY <1>1, <1>2, <3>1, TrySendNowData
    <3>2. CASE /\ chan[p][d].open /\ chan[p][d].fill > 0
               /\ TrySend(p, d, [chan[p] EXCEPT ![d] = Closed(chan[p][d])],
                          n_urgent[p])
      BY <1>1, <1>2, <3>2, NowClosed, TrySendFromData
    <3> QED
      BY <2>1, <3>1, <3>2
  <2> QED
    BY <1>5, <2>2, <2>3
<1> QED
  BY <1>6, <1>7, <1>8 DEF Push

\* porter_ensure_progress() before the endgame.
LEMMA EnsureProgressData ==
  ASSUME TypeInv, FlowInv, DataInv, NEW p \in Live, stage[p] = "working",
         ~endgame[p], NEW d \in Rank, EnsureProgress(p, d)
  PROVE  OnlyOf(p) /\ SentData(p, pushed[p])
<1> DEFINE c       == chan[p][d]
           full    == c.produced > c.delivered
           partial == c.open /\ c.fill > 0
<1>1. /\ p \in Rank /\ ChanOK(c) /\ c \in Channel /\ 0 \in Nat
      /\ pushed[p][d] \in Nat /\ endgame[p] \in BOOLEAN
  BY Access, LiveRank DEF TypeInv, TypeOK
<1>2. CASE d \notin Live
  <2>1. /\ c = NewChannel(d) /\ c.waiting = 0 /\ c.produced = 0
        /\ c.delivered = 0 /\ c.fill = 0
    BY <1>1, <1>2 DEF FlowInv, GhostInv, NewChannel
  <2>2. /\ chan' = [chan EXCEPT ![p][d].waiting = c.waiting]
        /\ UNCHANGED <<n_urgent, wires>>
    BY <2>1 DEF EnsureProgress, Patience
  <2>3. chan' = chan
    <3>1. [c EXCEPT !.waiting = c.waiting] = c
      BY <1>1 DEF Channel
    <3>2. chan \in [Rank -> [Rank -> Channel]]
      BY DEF TypeInv, TypeOK
    <3>3. chan' = [chan EXCEPT ![p][d] = [c EXCEPT !.waiting = c.waiting]]
      BY <2>2
    <3> QED
      BY <1>1, <3>1, <3>2, <3>3
  <2>4. OnlyOf(p)
    BY <2>2, <2>3 DEF OnlyOf, wires
  <2>5. SentData(p, pushed[p])
    BY <2>2, <2>3, SenderHolds DEF SentData, Holds, wires
  <2> QED
    BY <2>4, <2>5
<1>3. CASE d \in Live
  <2>0. [pushed[p] EXCEPT ![d] = pushed[p][d]] = pushed[p]
    <3>1. pushed[p] \in [Rank -> Nat]
      BY <1>1 DEF TypeInv, TypeOK
    <3> QED
      BY <3>1
  <2> SUFFICES DataStep(p, d, pushed[p][d])
    BY <2>0 DEF DataStep
  <2>1. ASSUME NEW w \in 0 .. Patience,
               chan' = [chan EXCEPT ![p][d].waiting = w],
               UNCHANGED <<n_urgent, wires>>
        PROVE  DataStep(p, d, pushed[p][d])
    <3>1. SameData([c EXCEPT !.waiting = w], c)
      BY <1>1, SameDataOps
    <3>2. chan' = [chan EXCEPT ![p][d] = [c EXCEPT !.waiting = w]]
      BY <2>1
    <3>3. Holds(p, d, c, endgame[p], pushed[p][d])
      BY <1>3, SenderHolds
    <3>4. Holds(p, d, [c EXCEPT !.waiting = w], endgame[p], pushed[p][d])
      BY <1>1, <3>1, <3>3, HeldSame DEF Holds
    <3> QED
      BY <1>1, <1>3, <2>1, <3>2, <3>4, OneChannelData
  <2>2. CASE c.waiting \in 1 .. Patience-1
    <3>1. c.waiting + 1 \in 0 .. Patience
      BY <2>2 DEF Patience
    <3> QED
      BY <2>1, <2>2, <3>1 DEF EnsureProgress
  <2>3. CASE c.waiting \notin 1 .. Patience-1 /\ c.waiting > 0
    <3>1. TrySend(p, d, [chan[p] EXCEPT ![d] =
                           IF ~full /\ partial THEN Closed(c) ELSE c],
                  n_urgent[p])
      BY <2>3 DEF EnsureProgress
    <3>2. CASE ~full /\ partial
      <4>1. TrySend(p, d, [chan[p] EXCEPT ![d] = Closed(c)], n_urgent[p])
        BY <3>1, <3>2
      <4> QED
        BY <1>3, <3>2, <4>1, NowClosed, TrySendFromData
    <3>3. CASE ~(~full /\ partial)
      <4>1. TrySend(p, d, [chan[p] EXCEPT ![d] = c], n_urgent[p])
        BY <3>1, <3>3
      <4>2. [chan[p] EXCEPT ![d] = c] = chan[p]
        <5>1. chan[p] \in [Rank -> Channel]
          BY <1>1 DEF TypeInv, TypeOK
        <5> QED
          BY <5>1
      <4>3. TrySend(p, d, chan[p], n_urgent[p])
        BY <4>1, <4>2
      <4> QED
        BY <1>3, <4>3, TrySendNowData
    <3> QED
      BY <3>2, <3>3
  <2>4. CASE ~(c.waiting > 0)
    <3> DEFINE w == IF full \/ partial THEN 1 ELSE c.waiting
    <3>1. w \in 0 .. Patience
      BY <1>1, <2>4, FieldTypes DEF Patience
    <3>2. chan' = [chan EXCEPT ![p][d].waiting = w]
          /\ UNCHANGED <<n_urgent, wires>>
      BY <2>4 DEF EnsureProgress, Patience
    <3> QED
      BY <2>1, <3>1, <3>2
  <2> QED
    BY <2>2, <2>3, <2>4
<1> QED
  BY <1>2, <1>3

\* The assignments behind porter_try_urgent().
LEMMA EnterEndgameData ==
  ASSUME TypeInv, FlowInv, DataInv, NEW p \in Live, stage[p] = "working",
         ~endgame[p], OnlyOf(p), SentData(p, pushed[p]), EnterEndgame(p),
         UNCHANGED <<receiver, pushed, got, stage, round, done>>
  PROVE  DataInv'
<1>1. /\ pc \in [Rank -> {"idle", "urgent", "flush"}]
      /\ todo \in [Rank -> SUBSET Rank] /\ endgame \in [Rank -> BOOLEAN]
      /\ done \in [Rank -> BOOLEAN] /\ p \in Rank
  BY LiveRank DEF TypeInv, TypeOK
<1>2. /\ endgame' = [endgame EXCEPT ![p] = done[p]]
      /\ pc'   = [pc EXCEPT ![p] = IF done[p] THEN "flush" ELSE "idle"]
      /\ todo' = [todo EXCEPT ![p] = IF done[p] THEN Unsent(p) ELSE {}]
  BY DEF EnterEndgame
<1>3. endgame'[p] = done[p] /\ done'[p] = done[p] /\ endgame'[p] \in BOOLEAN
  BY <1>1, <1>2
<1>4. /\ pc'[p] = "flush" => done[p] /\ todo'[p] = Unsent(p)
      /\ pc'[p] # "urgent"
  BY <1>1, <1>2
<1>5. \A d \in Unsent(p) : ~chan'[p][d].all_sent
  BY DEF Unsent
<1>6. \A q \in Rank \ {p} :
        /\ pushed'[q] = pushed[q] /\ endgame'[q] = endgame[q]
        /\ done'[q] = done[q] /\ pc'[q] = pc[q] /\ todo'[q] = todo[q]
  BY <1>1, <1>2
<1>7. \A x \in Live : pushed'[p][x] = pushed[p][x]
  OBVIOUS
<1>8. /\ endgame[p] => endgame'[p]
      /\ endgame'[p] => done'[p] /\ (pc'[p] = "urgent" => ~endgame'[p])
      /\ pc'[p] = "flush" => /\ endgame'[p]
                             /\ \A d \in todo'[p] : ~chan'[p][d].all_sent
  BY <1>3, <1>4, <1>5
<1>9. UNCHANGED <<receiver, got, stage, round>>
  OBVIOUS
<1> QED
  BY <1>3, <1>4, <1>6, <1>7, <1>8, <1>9, SendDataInv

\* porter_advance()
LEMMA AdvanceData ==
  ASSUME TypeInv, FlowInv, DataInv, NEW p \in Rank, Advance(p)
  PROVE  DataInv'
<1>1. /\ pc \in [Rank -> {"idle", "urgent", "flush"}]
      /\ todo \in [Rank -> SUBSET Rank] /\ endgame \in [Rank -> BOOLEAN]
      /\ done \in [Rank -> BOOLEAN] /\ phase[p] \in Rank
      /\ pushed \in [Rank -> [Rank -> Nat]]
  BY DEF TypeInv, TypeOK
<1>2. p \in Live /\ stage[p] = "working"
  BY DEF Advance, StartAdvance, UrgentSend, UrgentProgress, ResumeFlush,
         FlushSend, FlushProgress, FlowInv, StageInv
<1>3. UNCHANGED <<receiver, pushed, got, stage, round, done>>
  BY DEF Advance, StartAdvance, UrgentSend, UrgentProgress, ResumeFlush,
         FlushSend, FlushProgress, cycle, history
<1>4. /\ \A x \in Live : Fits(p, x, chan[p][x])
      /\ \A x \in Live : Holds(p, x, chan[p][x], endgame[p], pushed[p][x])
      /\ \A x \in Rank \ Live : chan[p][x] = NewChannel(x)
      /\ pushed[p] \in [Rank -> Nat]
  BY <1>1, <1>2, SenderFits, SenderHolds
<1>5. todo[p] \subseteq Live
  BY DEF FlowInv, GhostInv
<1>6. ASSUME UNCHANGED <<chan, n_urgent, wires>>
      PROVE  OnlyOf(p) /\ SentData(p, pushed[p])
  BY <1>4, <1>6 DEF SentData, OnlyOf, Holds, wires
<1>7. ASSUME NEW d \in Live, DataStep(p, d, pushed[p][d])
      PROVE  /\ OnlyOf(p) /\ SentData(p, pushed[p])
             /\ \A x \in Rank \ {d} :
                  chan'[p][x].all_sent = chan[p][x].all_sent
  <2>1. [pushed[p] EXCEPT ![d] = pushed[p][d]] = pushed[p]
    BY <1>4
  <2> QED
    BY <1>7, <2>1 DEF DataStep
\* A pass of one of the loops.
<1>8. ASSUME OnlyOf(p), SentData(p, pushed[p]),
             \A q \in Rank \ {p} : /\ endgame'[q] = endgame[q]
                                   /\ pc'[q] = pc[q] /\ todo'[q] = todo[q],
             endgame'[p] = endgame[p],
             pc'[p] = "urgent" => ~endgame[p],
             pc'[p] = "flush" => /\ endgame[p]
                                 /\ \A d \in todo'[p] : ~chan'[p][d].all_sent
      PROVE  DataInv'
  <2>1. /\ endgame'[p] \in BOOLEAN /\ (endgame[p] => endgame'[p])
        /\ (endgame'[p] => done'[p])
    BY <1>1, <1>3, <1>8 DEF DataInv, PassInv
  <2>2. \A q \in Rank \ {p} :
          /\ pushed'[q] = pushed[q] /\ endgame'[q] = endgame[q]
          /\ done'[q] = done[q] /\ pc'[q] = pc[q] /\ todo'[q] = todo[q]
    BY <1>3, <1>8
  <2>3. \A x \in Live : pushed'[p][x] = pushed[p][x]
    BY <1>3
  <2>4. /\ pc'[p] = "urgent" => ~endgame'[p]
        /\ pc'[p] = "flush" => /\ endgame'[p]
                               /\ \A d \in todo'[p] : ~chan'[p][d].all_sent
    BY <1>8
  <2> QED
    BY <1>2, <1>3, <1>8, <2>1, <2>2, <2>3, <2>4, SendDataInv
<1>9. CASE StartAdvance(p)
  <2>1. ~endgame[p]
    BY <1>9 DEF StartAdvance
  <2>2. OnlyOf(p) /\ SentData(p, pushed[p])
    <3>1. CASE Steady
      BY <1>1, <1>2, <1>9, <2>1, <3>1, EnsureProgressData DEF StartAdvance
    <3>2. CASE ~Steady
      BY <1>6, <1>9, <3>2 DEF StartAdvance
    <3> QED
      BY <3>1, <3>2
  <2>3. CASE n_urgent'[p] > 0
    <3>1. /\ pc' = [pc EXCEPT ![p] = "urgent"]
          /\ todo' = [todo EXCEPT ![p] =
               {d \in Rank : chan'[p][d].urgent > chan'[p][d].emitted}]
          /\ endgame' = endgame
      BY <1>9, <2>3 DEF StartAdvance, CheckUrgent
    <3>2. /\ \A q \in Rank \ {p} : /\ endgame'[q] = endgame[q]
                                   /\ pc'[q] = pc[q] /\ todo'[q] = todo[q]
          /\ endgame'[p] = endgame[p] /\ pc'[p] = "urgent"
      BY <1>1, <3>1
    <3> QED
      BY <1>8, <2>1, <2>2, <3>2
  <2>4. CASE ~(n_urgent'[p] > 0)
    <3>1. EnterEndgame(p)
      BY <1>9, <2>4 DEF StartAdvance, CheckUrgent
    <3> QED
      BY <1>2, <1>3, <2>1, <2>2, <3>1, EnterEndgameData
  <2> QED
    BY <2>3, <2>4
<1>10. CASE UrgentSend(p)
  <2>1. PICK d \in todo[p] : /\ TrySend(p, d, chan[p], n_urgent[p])
                             /\ todo' = [todo EXCEPT ![p] = @ \ {d}]
    BY <1>10, Zenon DEF UrgentSend
  <2>2. d \in Live /\ pc[p] = "urgent" /\ ~endgame[p]
    BY <1>5, <1>10 DEF UrgentSend, DataInv, PassInv
  <2>3. OnlyOf(p) /\ SentData(p, pushed[p])
    BY <1>2, <1>7, <2>1, <2>2, TrySendNowData
  <2>4. /\ \A q \in Rank \ {p} : /\ endgame'[q] = endgame[q]
                                 /\ pc'[q] = pc[q] /\ todo'[q] = todo[q]
        /\ endgame'[p] = endgame[p] /\ pc'[p] = "urgent"
    BY <1>1, <1>10, <2>1 DEF UrgentSend
  <2> QED
    BY <1>8, <2>2, <2>3, <2>4
<1>11. CASE UrgentProgress(p)
  <2>1. ~endgame[p] /\ ProgressAll(p) /\ EnterEndgame(p)
    BY <1>11 DEF UrgentProgress, DataInv, PassInv
  <2>2. OnlyOf(p) /\ SentData(p, pushed[p])
    BY <1>4, <2>1, ProgressAllEffect, ProgressAllData
  <2> QED
    BY <1>2, <1>3, <2>1, <2>2, EnterEndgameData
<1>12. CASE ResumeFlush(p)
  <2>1. OnlyOf(p) /\ SentData(p, pushed[p])
    BY <1>6, <1>12 DEF ResumeFlush
  <2>2. /\ pc' = [pc EXCEPT ![p] = "flush"]
        /\ todo' = [todo EXCEPT ![p] = Unsent(p)]
        /\ endgame' = endgame /\ endgame[p]
    BY <1>12 DEF ResumeFlush
  <2>3. \A d \in Unsent(p) : ~chan'[p][d].all_sent
    BY DEF Unsent
  <2>4. /\ \A q \in Rank \ {p} : /\ endgame'[q] = endgame[q]
                                 /\ pc'[q] = pc[q] /\ todo'[q] = todo[q]
        /\ endgame'[p] = endgame[p] /\ pc'[p] = "flush"
        /\ todo'[p] = Unsent(p)
    BY <1>1, <2>2
  <2> QED
    BY <1>8, <2>1, <2>2, <2>3, <2>4
<1>13. CASE FlushSend(p)
  <2> DEFINE c == chan[p]
  <2>1. PICK d \in todo[p] :
          /\ TrySend(p, d, [chan[p] EXCEPT ![d] =
                              IF chan[p][d].open THEN Closed(chan[p][d])
                              ELSE chan[p][d]], n_urgent[p])
          /\ todo' = [todo EXCEPT ![p] = @ \ {d}]
    BY <1>13, Zenon DEF FlushSend
  <2>2. /\ d \in Live /\ pc[p] = "flush" /\ endgame[p]
        /\ \A x \in todo[p] : ~chan[p][x].all_sent
    BY <1>5, <1>13 DEF FlushSend, DataInv, PassInv
  <2>3. DataStep(p, d, pushed[p][d])
    <3>1. CASE chan[p][d].open
      <4>1. TrySend(p, d, [chan[p] EXCEPT ![d] = Closed(chan[p][d])],
                    n_urgent[p])
        BY <2>1, <3>1
      <4>2. /\ Holds(p, d, Closed(chan[p][d]), endgame[p], pushed[p][d])
            /\ ChanOK(Closed(chan[p][d]))
            /\ SameFlow(Closed(chan[p][d]), chan[p][d])
            /\ ~Closed(chan[p][d]).open
            /\ Closed(chan[p][d]).all_sent = chan[p][d].all_sent
            /\ pushed[p][d] \in Nat
        BY <1>2, <2>2, <3>1, NowClosed
      <4>3. ~Closed(chan[p][d]).all_sent
        BY <2>2, <4>2
      <4> QED
        BY <1>2, <2>2, <4>1, <4>2, <4>3, TrySendFromData
    <3>2. CASE ~chan[p][d].open
      <4>1. [chan[p] EXCEPT ![d] = chan[p][d]] = chan[p]
        <5>1. chan[p] \in [Rank -> Channel]
          BY DEF TypeInv, TypeOK
        <5> QED
          BY <5>1
      <4>2. TrySend(p, d, chan[p], n_urgent[p])
        BY <2>1, <3>2, <4>1
      <4> QED
        BY <1>2, <2>2, <3>2, <4>2, TrySendNowData
    <3> QED
      BY <3>1, <3>2
  <2>4. /\ OnlyOf(p) /\ SentData(p, pushed[p])
        /\ \A x \in Rank \ {d} : chan'[p][x].all_sent = chan[p][x].all_sent
    BY <1>7, <2>2, <2>3
  <2>5. /\ \A q \in Rank \ {p} : /\ endgame'[q] = endgame[q]
                                 /\ pc'[q] = pc[q] /\ todo'[q] = todo[q]
        /\ endgame'[p] = endgame[p] /\ pc'[p] = "flush"
        /\ todo'[p] = todo[p] \ {d}
    BY <1>1, <1>13, <2>1, <2>2 DEF FlushSend
  <2>6. \A x \in todo'[p] : ~chan'[p][x].all_sent
    <3>1. \A x \in todo'[p] : x \in todo[p] /\ x \in Rank \ {d}
      BY <1>1, <2>5
    <3> QED
      BY <2>2, <2>4, <3>1
  <2> QED
    BY <1>8, <2>2, <2>4, <2>5, <2>6
<1>14. CASE FlushProgress(p)
  <2>1. OnlyOf(p) /\ SentData(p, pushed[p])
    BY <1>4, <1>14, ProgressAllEffect, ProgressAllData DEF FlushProgress
  <2>2. /\ \A q \in Rank \ {p} : /\ endgame'[q] = endgame[q]
                                 /\ pc'[q] = pc[q] /\ todo'[q] = todo[q]
        /\ endgame'[p] = endgame[p] /\ pc'[p] = "idle"
    BY <1>1, <1>14 DEF FlushProgress
  <2> QED
    BY <1>8, <2>1, <2>2
<1> QED
  BY <1>9, <1>10, <1>11, <1>12, <1>13, <1>14 DEF Advance

-----------------------------------------------------------------------------
(* The receiver and the network *)

\* A step of the receiver or of the network, on the link from s to r alone.
OnLink(s, r) ==
  /\ UNCHANGED <<chan, pushed, endgame, done, pc, todo, stage, round>>
  /\ \A q, x \in Rank : q # s \/ x # r =>
       /\ puts'[q][x] = puts[q][x] /\ signals'[q][x] = signals[q][x]
       /\ recvbuf'[x][q] = recvbuf[x][q]
       /\ received'[x][q] = received[x][q]
       /\ disposed'[x][q] = disposed[x][q] /\ got'[x][q] = got[x][q]

LEMMA OneLinkData ==
  ASSUME TypeInv, FlowInv, DataInv, NEW s \in Live, NEW r \in Live,
         stage[r] # "set", OnLink(s, r),
         Held(s, r, chan[s][r], endgame[s], pushed[s][r], puts[s][r],
              signals[s][r])'
  PROVE  CarryInv' /\ PassInv' /\ FreshInv' /\ RoundInv'
<1> USE DEF DataInv
<1>0. UNCHANGED <<chan, pushed, endgame, done, pc, todo, stage, round>>
  BY DEF OnLink
<1>1. CarryInv'
  <2> SUFFICES ASSUME NEW q \in Live, NEW x \in Live, SameRound(q, x)
               PROVE  Holds(q, x, chan[q][x], endgame[q], pushed[q][x])'
    BY <1>0 DEF CarryInv, SameRound
  <2>1. CASE q = s /\ x = r
    BY <2>1 DEF Holds
  <2>2. CASE q # s \/ x # r
    <3>1. q \in Rank /\ x \in Rank
      BY LiveRank
    <3>2. Holds(q, x, chan[q][x], endgame[q], pushed[q][x])
      BY DEF CarryInv
    <3>3. /\ puts'[q][x] = puts[q][x] /\ signals'[q][x] = signals[q][x]
          /\ recvbuf'[x][q] = recvbuf[x][q]
          /\ received'[x][q] = received[x][q]
          /\ disposed'[x][q] = disposed[x][q] /\ got'[x][q] = got[x][q]
      BY <2>2, <3>1 DEF OnLink
    <3> QED
      BY <1>0, <3>2, <3>3 DEF Holds, Held
  <2> QED
    BY <2>1, <2>2
<1>2. PassInv'
  BY <1>0 DEF PassInv
<1>3. FreshInv'
  <2> SUFFICES ASSUME NEW q \in Live, NEW x \in Rank, stage[q] = "set"
               PROVE  pushed[q][x] = 0 /\ got'[q][x] = <<>>
    BY <1>0 DEF FreshInv
  <2>1. q # r /\ q \in Rank
    BY LiveRank
  <2> QED
    BY <2>1 DEF FreshInv, OnLink
<1>4. RoundInv'
  BY <1>0 DEF RoundInv, SameRound
<1> QED
  BY <1>1, <1>2, <1>3, <1>4

\* The link that the client is reading.
LEMMA BorrowedLink ==
  ASSUME TypeInv, FlowInv, DataInv, NEW r \in Live, stage[r] = "working",
         taken[r] # None
  PROVE  /\ taken[r] \in Live /\ taken[r] \in Rank /\ r \in Rank
         /\ disposed[r][taken[r]] < received[r][taken[r]] \div 2
         /\ disposed[r][taken[r]] \in Nat
         /\ pushed[taken[r]][r] \in Nat
         /\ SameRound(taken[r], r)
         /\ Holds(taken[r], r, chan[taken[r]][r], endgame[taken[r]],
                  pushed[taken[r]][r])
         /\ ChanOK(chan[taken[r]][r])
         /\ Fits(taken[r], r, chan[taken[r]][r])
<1> DEFINE s == taken[r]
<1>1. r \in Rank
  BY LiveRank
<1>2. s \in pending[r] /\ s \in Rank
  BY <1>1, MemoryTypes DEF FlowInv, ListInv
<1>3. disposed[r][s] < received[r][s] \div 2
  BY <1>1, <1>2 DEF FlowInv, ListInv
<1>4. s \in Live
  BY <1>1, <1>2, <1>3, ListedSource
<1> HIDE DEF s
<1>5. disposed[r][s] \in Nat
  BY <1>1, <1>2, MemoryTypes
<1>6. SameRound(s, r)
  BY <1>4, WorkingTogether DEF FlowInv, SameRound
<1>7. Holds(s, r, chan[s][r], endgame[s], pushed[s][r])
  BY <1>4, <1>6 DEF DataInv, CarryInv
<1>8. ChanOK(chan[s][r])
  BY <1>1, <1>2, Access
<1>9. Fits(s, r, chan[s][r])
  BY <1>4, <1>6 DEF FlowInv, LinkInv
<1>10. pushed[s][r] \in Nat
  <2>1. pushed \in [Rank -> [Rank -> Nat]]
    BY DEF TypeInv, TypeOK
  <2> QED
    BY <1>1, <1>2, <2>1
<1> QED
  BY <1>1, <1>2, <1>3, <1>4, <1>5, <1>6, <1>7, <1>8, <1>9, <1>10 DEF s

\* porter_borrow()
LEMMA BorrowData ==
  ASSUME TypeInv, FlowInv, DataInv, NEW r \in Rank, Borrow(r)
  PROVE  DataInv'
<1> USE DEF DataInv
<1>1. UNCHANGED <<chan, pushed, endgame, done, pc, todo, stage, round, puts,
                  signals, recvbuf, received, disposed, got>>
  BY DEF Borrow, control, cycle, wires, history
<1>2. CarryInv' /\ PassInv' /\ FreshInv' /\ RoundInv'
  BY <1>1 DEF CarryInv, PassInv, FreshInv, RoundInv, SameRound, Holds, Held
<1>3. r \in Live /\ stage[r] = "working" /\ drained \in [Rank -> BOOLEAN]
  BY DEF Borrow, Idle, TypeInv, TypeOK
<1>4. DrainInv'
  <2>1. CASE drained' = drained
    BY <1>1, <2>1 DEF DrainInv
  <2>2. CASE drained' = [drained EXCEPT ![r] = IsDrained(r)]
    <3> SUFFICES ASSUME NEW q \in Rank
                 PROVE  /\ drained'[q] =>
                             /\ q \in Live
                             /\ \A s \in Rank :
                                  /\ received[q][s] \div 2 <= disposed[q][s]
                                  /\ received[q][s] % 2 = 1
                        /\ (q \in Live /\ stage[q] \in {"resetting", "dormant"})
                             => drained'[q]
      BY <1>1 DEF DrainInv
    <3>1. CASE q = r
      <4>1. drained'[r] = IsDrained(r)
        BY <1>3, <2>2
      <4> QED
        BY <1>3, <3>1, <4>1 DEF IsDrained
    <3>2. CASE q # r
      <4>1. drained'[q] = drained[q]
        BY <1>3, <2>2, <3>2
      <4> QED
        BY <4>1 DEF DrainInv
    <3> QED
      BY <3>1, <3>2
  <2> QED
    BY <2>1, <2>2 DEF Borrow
<1> QED
  BY <1>2, <1>4

\* The assignments of Take(r): the item v of the buffer b, which becomes w.
Taking(r, s, l, b, w, v) ==
  /\ r \in Live /\ stage[r] = "working" /\ taken[r] # None /\ s = taken[r]
  /\ l = LevelOf(disposed[r][s]) /\ b = recvbuf[r][s][l]
  /\ b.start < Len(b.items) /\ w = [b EXCEPT !.start = @ + 1]
  /\ w.start = b.start + 1 /\ w.items = b.items
  /\ v = b.items[b.start + 1]

\* One item from the borrowed buffer: it is the next one of the link.
LEMMA HeldTaken ==
  ASSUME TypeInv, FlowInv, DataInv, NEW r, NEW s, NEW l, NEW b, NEW w, NEW v,
         Taking(r, s, l, b, w, v)
  PROVE  /\ v = Len(got[r][s]) + 1 /\ Len(got[r][s]) < pushed[s][r]
         /\ \E f \in [Nat -> Nat] :
              Carries(chan[s][r], f, endgame[s], pushed[s][r], puts[s][r],
                      signals[s][r], [recvbuf[r][s] EXCEPT ![l] = w],
                      received[r][s], disposed[r][s], Append(got[r][s], v))
<1>1. /\ s \in Rank /\ r \in Rank /\ pushed[s][r] \in Nat
      /\ disposed[r][s] < received[r][s] \div 2
      /\ Holds(s, r, chan[s][r], endgame[s], pushed[s][r])
      /\ ChanOK(chan[s][r]) /\ Fits(s, r, chan[s][r])
  BY BorrowedLink DEF Taking
<1>2. PICK f \in [Nat -> Nat] :
        Carries(chan[s][r], f, endgame[s], pushed[s][r], puts[s][r],
                signals[s][r], recvbuf[r][s], received[r][s], disposed[r][s],
                got[r][s])
  BY <1>1 DEF Holds, Held
<1>3. LinkOK(chan[s][r], f, consumed[s][r], puts[s][r], signals[s][r],
             acks[r][s], recvbuf[r][s], received[r][s], disposed[r][s],
             got[r][s], pushed[s][r])
  BY <1>1, LinkOKHeld
<1> DEFINE D == disposed[r][s]
           rb == recvbuf[r][s]
<1>a. Reads(rb, received[r][s], D, w, v)
  BY <1>1 DEF Taking, Reads
<1> HIDE DEF D, rb
<1>4. /\ v = Len(got[r][s]) + 1 /\ Len(got[r][s]) < pushed[s][r]
      /\ Carries(chan[s][r], f, endgame[s], pushed[s][r], puts[s][r],
                 signals[s][r],
                 [rb EXCEPT ![LevelOf(D)] = w],
                 received[r][s], D, Append(got[r][s], v))
  <2>2. Carries(chan[s][r], f, endgame[s], pushed[s][r], puts[s][r],
                signals[s][r], rb, received[r][s], D, got[r][s])
    BY <1>2 DEF D, rb
  <2>3. LinkOK(chan[s][r], f, consumed[s][r], puts[s][r], signals[s][r],
               acks[r][s], rb, received[r][s], D, got[r][s], pushed[s][r])
    BY <1>3 DEF D, rb
  <2> QED
    BY <1>a, <2>2, <2>3, DataTake, ZenonT(60)
<1>5. rb = recvbuf[r][s] /\ D = disposed[r][s] /\ l = LevelOf(D)
  BY DEF D, rb, Taking
<1> QED
  BY <1>4, <1>5

\* The assignment of one entry of a table.
LEMMA OneEntry ==
  ASSUME NEW T, NEW F \in [Rank -> [Rank -> T]], NEW r \in Rank,
         NEW s \in Rank, NEW v
  PROVE  /\ [F EXCEPT ![r][s] = v][r][s] = v
         /\ \A q, x \in Rank : q # s \/ x # r =>
              [F EXCEPT ![r][s] = v][x][q] = F[x][q]
OBVIOUS

TakeStep(r, s, l, v) ==
  /\ got' = [got EXCEPT ![r][s] = Append(@, v)]
  /\ recvbuf' = [recvbuf EXCEPT ![r][s][l].start = @ + 1]

\* What Take() does to the memory of r.
LEMMA TakeEffect ==
  ASSUME TypeInv, NEW r \in Rank, NEW s \in Rank, NEW l \in Level,
         NEW b, NEW w, NEW v, Taking(r, s, l, b, w, v),
         TakeStep(r, s, l, v)
  PROVE  /\ got'[r][s] = Append(got[r][s], v)
         /\ recvbuf'[r][s] = [recvbuf[r][s] EXCEPT ![l] = w]
         /\ \A q, x \in Rank : q # s \/ x # r =>
              recvbuf'[x][q] = recvbuf[x][q] /\ got'[x][q] = got[x][q]
<1>1. /\ recvbuf \in [Rank -> [Rank ->
                        [Level -> [start : Nat, items : Seq(Nat)]]]]
      /\ got \in [Rank -> [Rank -> Seq(Nat)]]
  BY DEF TypeInv, TypeOK
<1> DEFINE T == Seq(Nat)
           G == Append(got[r][s], v)
           B == [recvbuf[r][s] EXCEPT ![l] = w]
<1>2. got' = [got EXCEPT ![r][s] = G] /\ recvbuf' = [recvbuf EXCEPT ![r][s] = B]
  BY DEF Taking, TakeStep
<1> HIDE DEF G, B, T
<1>3. /\ got'[r][s] = G
      /\ \A q, x \in Rank : q # s \/ x # r => got'[x][q] = got[x][q]
  <2>1. got \in [Rank -> [Rank -> T]]
    BY <1>1 DEF T
  <2> QED
    BY <1>2, <2>1, OneEntry
<1>4. /\ recvbuf'[r][s] = B
      /\ \A q, x \in Rank : q # s \/ x # r => recvbuf'[x][q] = recvbuf[x][q]
  BY <1>1, <1>2, OneEntry
<1> QED
  BY <1>3, <1>4 DEF G, B

LEMMA LevelIn ==
  ASSUME NEW n \in Nat
  PROVE  LevelOf(n) \in Level
BY LevelPlace, MultiplicityAssumption DEF Level

\* The client takes an item: it is the next one of those pushed on the link.
LEMMA TakeNext ==
  ASSUME TypeInv, FlowInv, DataInv, NEW r \in Rank, Take(r),
         NEW s, s = taken[r]
  PROVE  /\ DataInv'
         /\ s \in Live
         /\ Len(got[r][s]) < pushed[s][r]
         /\ got' = [got EXCEPT ![r][s] = Append(@, Len(@) + 1)]
<1> DEFINE l == LevelOf(disposed[r][s])
           b == recvbuf[r][s][l]
           v == b.items[b.start + 1]
           w == [b EXCEPT !.start = @ + 1]
<1>1. /\ r \in Live /\ stage[r] = "working" /\ s # None
      /\ b.start < Len(b.items)
      /\ got' = [got EXCEPT ![r][s] = Append(@, v)]
      /\ recvbuf' = [recvbuf EXCEPT ![r][s][l].start = @ + 1]
  BY DEF Take, Idle, Borrowed
<1>2. UNCHANGED <<chan, pushed, endgame, done, pc, todo, stage, round, puts,
                  signals, received, disposed, drained>>
  BY DEF Take, control, cycle, wires
<1>3. s \in Live /\ s \in Rank /\ disposed[r][s] \in Nat
  BY <1>1, BorrowedLink
<1>4. l \in Level
  BY <1>3, LevelIn
<1>5. w.start = b.start + 1 /\ w.items = b.items
  <2>1. recvbuf[r][s] \in [Level -> [start : Nat, items : Seq(Nat)]]
    BY <1>3, ReceiverTypes
  <2>2. b \in [start : Nat, items : Seq(Nat)]
    BY <1>4, <2>1
  <2> HIDE DEF b
  <2> QED
    BY <2>2
<1>6. Taking(r, s, l, b, w, v)
  BY <1>1, <1>5 DEF Taking
<1> HIDE DEF l, b, v, w
<1>7. /\ v = Len(got[r][s]) + 1 /\ Len(got[r][s]) < pushed[s][r]
      /\ \E f \in [Nat -> Nat] :
           Carries(chan[s][r], f, endgame[s], pushed[s][r], puts[s][r],
                   signals[s][r], [recvbuf[r][s] EXCEPT ![l] = w],
                   received[r][s], disposed[r][s], Append(got[r][s], v))
  BY <1>6, HeldTaken
<1>8. /\ got'[r][s] = Append(got[r][s], v)
      /\ recvbuf'[r][s] = [recvbuf[r][s] EXCEPT ![l] = w]
      /\ \A q, x \in Rank : q # s \/ x # r =>
           recvbuf'[x][q] = recvbuf[x][q] /\ got'[x][q] = got[x][q]
  <2>1. TakeStep(r, s, l, v)
    BY <1>1 DEF TakeStep
  <2> QED
    BY <1>3, <1>4, <1>6, <2>1, TakeEffect
<1>9. Held(s, r, chan[s][r], endgame[s], pushed[s][r], puts[s][r],
           signals[s][r])'
  BY <1>2, <1>7, <1>8 DEF Held
<1>10. CarryInv' /\ PassInv' /\ FreshInv' /\ RoundInv'
  <2>1. OnLink(s, r)
    BY <1>2, <1>8 DEF OnLink
  <2>2. stage[r] # "set"
    BY <1>1
  <2> QED
    BY <1>1, <1>3, <1>9, <2>1, <2>2, OneLinkData
<1>11. DrainInv'
  BY <1>2 DEF DrainInv, DataInv
<1>12. got' = [got EXCEPT ![r][s] = Append(@, Len(@) + 1)]
  BY <1>1, <1>7
<1> QED
  BY <1>3, <1>7, <1>10, <1>11, <1>12 DEF DataInv

\* porter_return()
LEMMA ReturnData ==
  ASSUME TypeInv, FlowInv, DataInv, NEW r \in Rank, Return(r),
         NEW s, s = taken[r]
  PROVE  DataInv'
<1> DEFINE n == disposed[r][s]
           b == recvbuf[r][s][LevelOf(n)]
<1>1. /\ r \in Live /\ stage[r] = "working" /\ s # None
      /\ \/ b.start >= Len(b.items) /\ disposed' = [disposed EXCEPT ![r][s] = n + 1]
         \/ disposed' = disposed
  BY DEF Return, Idle, Borrowed, UsedUp
<1>2. UNCHANGED <<chan, pushed, endgame, done, pc, todo, stage, round, puts,
                  signals, received, recvbuf, got, drained>>
  BY DEF Return, control, cycle, history
<1>3. /\ s \in Live /\ s \in Rank /\ n \in Nat /\ pushed[s][r] \in Nat
      /\ n < received[r][s] \div 2
      /\ Holds(s, r, chan[s][r], endgame[s], pushed[s][r])
      /\ ChanOK(chan[s][r]) /\ Fits(s, r, chan[s][r])
  BY <1>1, BorrowedLink
<1>4. CASE disposed' = disposed
  <2>1. CarryInv'
    BY <1>2, <1>4 DEF DataInv, CarryInv, SameRound, Holds, Held
  <2>2. PassInv' /\ DrainInv' /\ FreshInv' /\ RoundInv'
    BY <1>2, <1>4 DEF DataInv, PassInv, DrainInv, FreshInv, RoundInv, SameRound
  <2> QED
    BY <2>1, <2>2 DEF DataInv
<1>5. CASE /\ b.start >= Len(b.items)
           /\ disposed' = [disposed EXCEPT ![r][s] = n + 1]
  <2>1. disposed \in [Rank -> [Rank -> Nat]] /\ received \in [Rank -> [Rank -> Nat]]
    BY MemoryTypes
  <2>2. /\ disposed'[r][s] = n + 1
        /\ \A q, x \in Rank : q # s \/ x # r =>
             disposed'[x][q] = disposed[x][q]
    <3> HIDE DEF n
    <3> QED
      BY <1>3, <1>5, <2>1
  <2>3. PICK f \in [Nat -> Nat] :
          Carries(chan[s][r], f, endgame[s], pushed[s][r], puts[s][r],
                  signals[s][r], recvbuf[r][s], received[r][s], n, got[r][s])
    BY <1>3 DEF Holds, Held
  <2>4. LinkOK(chan[s][r], f, consumed[s][r], puts[s][r], signals[s][r],
               acks[r][s], recvbuf[r][s], received[r][s], n, got[r][s],
               pushed[s][r])
    BY <1>3, LinkOKHeld
  <2>5. recvbuf[r][s][LevelOf(n)].start >= Len(recvbuf[r][s][LevelOf(n)].items)
    BY <1>5
  <2> HIDE DEF n, b
  <2>6. Carries(chan[s][r], f, endgame[s], pushed[s][r], puts[s][r],
                signals[s][r], recvbuf[r][s], received[r][s], n + 1, got[r][s])
    BY <1>3, <2>3, <2>4, <2>5, DataReturn
  <2>7. Held(s, r, chan[s][r], endgame[s], pushed[s][r], puts[s][r],
             signals[s][r])'
    BY <1>2, <2>2, <2>6 DEF Held
  <2>8. OnLink(s, r)
    BY <1>2, <2>2 DEF OnLink
  <2>9. stage[r] # "set"
    BY <1>1
  <2>11. CarryInv' /\ PassInv' /\ FreshInv' /\ RoundInv'
    BY <1>1, <1>3, <2>7, <2>8, <2>9, OneLinkData
  <2>12. DrainInv'
    <3>1. ~drained[r]
      <4>1. ~(received[r][s] \div 2 <= disposed[r][s])
        <5>1. received[r][s] \in Nat
          BY <1>3, <2>1
        <5>2. received[r][s] \div 2 \in Nat
          BY <5>1
        <5> QED
          BY <1>3, <5>2 DEF n
      <4> QED
        BY <1>3, <4>1 DEF DataInv, DrainInv
    <3>2. \A q, x \in Rank : q # r => disposed'[q][x] = disposed[q][x]
      BY <2>2
    <3> QED
      BY <1>2, <3>1, <3>2 DEF DataInv, DrainInv
  <2> QED
    BY <2>11, <2>12 DEF DataInv
<1> QED
  BY <1>1, <1>4, <1>5

\* The link of a put that arrives.
LEMMA CarriedData ==
  ASSUME TypeInv, FlowInv, DataInv, NEW p \in Rank, NEW d \in Rank,
         ~Calm(p, d)
  PROVE  /\ p \in Live /\ d \in Live /\ ~Apart(p) /\ ~Apart(d)
         /\ pushed[p][d] \in Nat
         /\ \E f \in [Nat -> Nat] :
              /\ Carries(chan[p][d], f, endgame[p], pushed[p][d], puts[p][d],
                         signals[p][d], recvbuf[d][p], received[d][p],
                         disposed[d][p], got[d][p])
              /\ LinkOK(chan[p][d], f, consumed[p][d], puts[p][d],
                        signals[p][d], acks[d][p], recvbuf[d][p],
                        received[d][p], disposed[d][p], got[d][p],
                        pushed[p][d])
<1>1. /\ p \in Live /\ d \in Live /\ ~Apart(p) /\ ~Apart(d)
      /\ SameRound(p, d) /\ Fits(p, d, chan[p][d])
  BY Carried
<1>2. ChanOK(chan[p][d])
  BY Access
<1>3. pushed[p][d] \in Nat
  <2>1. pushed \in [Rank -> [Rank -> Nat]]
    BY DEF TypeInv, TypeOK
  <2> QED
    BY <2>1
<1>4. PICK f \in [Nat -> Nat] :
        Carries(chan[p][d], f, endgame[p], pushed[p][d], puts[p][d],
                signals[p][d], recvbuf[d][p], received[d][p], disposed[d][p],
                got[d][p])
  BY <1>1 DEF DataInv, CarryInv, Holds, Held
<1>5. LinkOK(chan[p][d], f, consumed[p][d], puts[p][d], signals[p][d],
             acks[d][p], recvbuf[d][p], received[d][p], disposed[d][p],
             got[d][p], pushed[p][d])
  BY <1>1, <1>2, <1>3, LinkOKHeld
<1> QED
  BY <1>1, <1>3, <1>4, <1>5

\* What a put that arrives writes.
Landing(p, d, m, w) ==
  w = [start |-> 0, items |-> IF Nonblocking THEN chan[p][d].bufs[LevelOf(m.n)]
                              ELSE m.items]

LandStep(p, d, m, w) ==
  /\ puts' = [puts EXCEPT ![p][d] = @ \ {m}]
  /\ recvbuf' = [recvbuf EXCEPT ![d][p][LevelOf(m.n)] = w]

LEMMA LandEffect ==
  ASSUME TypeInv, NEW p \in Rank, NEW d \in Rank, NEW m \in puts[p][d],
         NEW w, LandStep(p, d, m, w)
  PROVE  /\ puts'[p][d] = puts[p][d] \ {m}
         /\ recvbuf'[d][p] = [recvbuf[d][p] EXCEPT ![LevelOf(m.n)] = w]
         /\ \A q, x \in Rank : q # p \/ x # d =>
              puts'[q][x] = puts[q][x] /\ recvbuf'[x][q] = recvbuf[x][q]
<1> DEFINE Q == puts[p][d] \ {m}
           B == [recvbuf[d][p] EXCEPT ![LevelOf(m.n)] = w]
           T == SUBSET Data
<1>1. /\ puts' = [puts EXCEPT ![p][d] = Q]
      /\ recvbuf' = [recvbuf EXCEPT ![d][p] = B]
  BY DEF LandStep
<1>2. /\ recvbuf \in [Rank -> [Rank ->
                        [Level -> [start : Nat, items : Seq(Nat)]]]]
      /\ puts \in [Rank -> [Rank -> T]]
  BY DEF TypeInv, TypeOK, Data
<1> HIDE DEF Q, B, T
<1>3. /\ puts'[p][d] = Q
      /\ \A q, x \in Rank : q # p \/ x # d => puts'[q][x] = puts[q][x]
  BY <1>1, <1>2, OneEntry
<1>4. /\ recvbuf'[d][p] = B
      /\ \A q, x \in Rank : q # p \/ x # d => recvbuf'[x][q] = recvbuf[x][q]
  BY <1>1, <1>2, OneEntry
<1> QED
  BY <1>3, <1>4 DEF Q, B

\* The arrival of a buffer
LEMMA DeliverDataKeeps ==
  ASSUME TypeInv, FlowInv, DataInv, NEW p \in Rank, NEW d \in Rank,
         DeliverData(p, d)
  PROVE  DataInv'
<1>1. PICK m \in puts[p][d] :
        /\ puts' = [puts EXCEPT ![p][d] = @ \ {m}]
        /\ recvbuf' = [recvbuf EXCEPT ![d][p][LevelOf(m.n)] =
             [start |-> 0,
              items |-> IF Nonblocking THEN chan[p][d].bufs[LevelOf(m.n)]
                        ELSE m.items]]
  BY Zenon DEF DeliverData
<1>2. UNCHANGED <<chan, pushed, endgame, done, pc, todo, stage, round, signals,
                  received, disposed, drained, got>>
  BY DEF DeliverData, control, cycle, history
<1>3. ~Calm(p, d)
  BY <1>1 DEF Calm
<1>4. /\ p \in Live /\ d \in Live /\ ~Apart(d)
      /\ \E f \in [Nat -> Nat] :
           /\ Carries(chan[p][d], f, endgame[p], pushed[p][d], puts[p][d],
                      signals[p][d], recvbuf[d][p], received[d][p],
                      disposed[d][p], got[d][p])
           /\ LinkOK(chan[p][d], f, consumed[p][d], puts[p][d],
                     signals[p][d], acks[d][p], recvbuf[d][p],
                     received[d][p], disposed[d][p], got[d][p],
                     pushed[p][d])
  BY <1>3, CarriedData
<1>5. PICK f \in [Nat -> Nat] :
        /\ Carries(chan[p][d], f, endgame[p], pushed[p][d], puts[p][d],
                   signals[p][d], recvbuf[d][p], received[d][p],
                   disposed[d][p], got[d][p])
        /\ LinkOK(chan[p][d], f, consumed[p][d], puts[p][d],
                  signals[p][d], acks[d][p], recvbuf[d][p],
                  received[d][p], disposed[d][p], got[d][p],
                  pushed[p][d])
  BY <1>4
<1> DEFINE w == [start |-> 0,
                 items |-> IF Nonblocking THEN chan[p][d].bufs[LevelOf(m.n)]
                           ELSE m.items]
<1>6. LandStep(p, d, m, w)
  BY <1>1 DEF LandStep
<1>7. Carries(chan[p][d], f, endgame[p], pushed[p][d], puts[p][d] \ {m},
              signals[p][d], [recvbuf[d][p] EXCEPT ![LevelOf(m.n)] = w],
              received[d][p], disposed[d][p], got[d][p])
  BY <1>5, DataArrive
<1> HIDE DEF w
<1>8. /\ puts'[p][d] = puts[p][d] \ {m}
      /\ recvbuf'[d][p] = [recvbuf[d][p] EXCEPT ![LevelOf(m.n)] = w]
      /\ \A q, x \in Rank : q # p \/ x # d =>
           puts'[q][x] = puts[q][x] /\ recvbuf'[x][q] = recvbuf[x][q]
  BY <1>6, LandEffect
<1>9. Held(p, d, chan[p][d], endgame[p], pushed[p][d], puts[p][d],
           signals[p][d])'
  BY <1>2, <1>7, <1>8 DEF Held
<1>10. CarryInv' /\ PassInv' /\ FreshInv' /\ RoundInv'
  <2>1. OnLink(p, d)
    BY <1>2, <1>8 DEF OnLink
  <2>2. stage[d] # "set"
    BY <1>4 DEF Apart
  <2> QED
    BY <1>4, <1>9, <2>1, <2>2, OneLinkData
<1>11. DrainInv'
  BY <1>2 DEF DrainInv, DataInv
<1> QED
  BY <1>10, <1>11 DEF DataInv

\* The arrival of a signal.  None is on its way to a PE that is drained.
LEMMA DeliverSignalKeeps ==
  ASSUME TypeInv, FlowInv, DataInv, NEW p \in Rank, NEW d \in Rank,
         DeliverSignal(p, d)
  PROVE  DataInv'
<1>1. PICK m \in signals[p][d] :
        /\ SignalMayArrive(p, d, m.n)
        /\ signals' = [signals EXCEPT ![p][d] = @ \ {m}]
        /\ received' = [received EXCEPT ![d][p] = m.value]
  BY Zenon DEF DeliverSignal
<1>2. UNCHANGED <<chan, pushed, endgame, done, pc, todo, stage, round, puts,
                  recvbuf, disposed, drained, got>>
  BY DEF DeliverSignal, control, cycle, history
<1>3. ~Calm(p, d)
  BY <1>1 DEF Calm
<1>4. /\ p \in Live /\ d \in Live /\ ~Apart(d)
      /\ \E f \in [Nat -> Nat] :
           /\ Carries(chan[p][d], f, endgame[p], pushed[p][d], puts[p][d],
                      signals[p][d], recvbuf[d][p], received[d][p],
                      disposed[d][p], got[d][p])
           /\ LinkOK(chan[p][d], f, consumed[p][d], puts[p][d],
                     signals[p][d], acks[d][p], recvbuf[d][p],
                     received[d][p], disposed[d][p], got[d][p],
                     pushed[p][d])
  BY <1>3, CarriedData
<1>5. PICK f \in [Nat -> Nat] :
        /\ Carries(chan[p][d], f, endgame[p], pushed[p][d], puts[p][d],
                   signals[p][d], recvbuf[d][p], received[d][p],
                   disposed[d][p], got[d][p])
        /\ LinkOK(chan[p][d], f, consumed[p][d], puts[p][d],
                  signals[p][d], acks[d][p], recvbuf[d][p],
                  received[d][p], disposed[d][p], got[d][p],
                  pushed[p][d])
  BY <1>4
<1>6. Nonblocking \/ /\ \A y \in puts[p][d] : m.n < y.n
                     /\ \A y \in signals[p][d] : m.n <= y.n
  BY <1>1 DEF SignalMayArrive
<1>7. Carries(chan[p][d], f, endgame[p], pushed[p][d], puts[p][d],
              signals[p][d] \ {m}, recvbuf[d][p], m.value, disposed[d][p],
              got[d][p])
  BY <1>5, <1>6, DataSignal
<1>8. /\ signals'[p][d] = signals[p][d] \ {m} /\ received'[d][p] = m.value
      /\ \A q, x \in Rank : q # p \/ x # d =>
           signals'[q][x] = signals[q][x] /\ received'[x][q] = received[x][q]
  <2>1. /\ signals \in [Rank -> [Rank -> SUBSET Signal]]
        /\ received \in [Rank -> [Rank -> Nat]]
    BY DEF TypeInv, TypeOK, Signal
  <2> QED
    BY <1>1, <2>1
<1>9. Held(p, d, chan[p][d], endgame[p], pushed[p][d], puts[p][d],
           signals[p][d])'
  BY <1>2, <1>7, <1>8 DEF Held
<1>10. CarryInv' /\ PassInv' /\ FreshInv' /\ RoundInv'
  <2>1. OnLink(p, d)
    BY <1>2, <1>8 DEF OnLink
  <2>2. stage[d] # "set"
    BY <1>4 DEF Apart
  <2> QED
    BY <1>4, <1>9, <2>1, <2>2, OneLinkData
<1>11. DrainInv'
  <2>1. ~drained[d]
    <3>1. Told(chan[p][d], f, signals[p][d], received[d][p])
      BY <1>5 DEF Carries
    <3>2. received[d][p] % 2 # 1
      BY <1>1, <3>1 DEF Told
    <3> QED
      BY <3>2 DEF DataInv, DrainInv
  <2>2. \A q, x \in Rank : q # d => received'[q][x] = received[q][x]
    BY <1>8
  <2> QED
    BY <1>2, <2>1, <2>2 DEF DrainInv, DataInv
<1> QED
  BY <1>10, <1>11 DEF DataInv

\* The arrival of puts
LEMMA NetworkData ==
  ASSUME TypeInv, FlowInv, DataInv, NEW p \in Rank, NEW d \in Rank,
         Network(p, d)
  PROVE  DataInv'
<1>1. CASE DeliverAck(p, d)
  <2>1. UNCHANGED <<chan, pushed, endgame, done, pc, todo, stage, round, puts,
                    signals, recvbuf, received, disposed, drained, got>>
    BY <1>1 DEF DeliverAck, receiver, control, cycle, history
  <2>2. CarryInv'
    BY <2>1 DEF DataInv, CarryInv, SameRound, Holds, Held
  <2>3. PassInv' /\ DrainInv' /\ FreshInv' /\ RoundInv'
    BY <2>1 DEF DataInv, PassInv, DrainInv, FreshInv, RoundInv, SameRound
  <2> QED
    BY <2>2, <2>3 DEF DataInv
<1> QED
  BY <1>1, DeliverDataKeeps, DeliverSignalKeeps DEF Network

\* porter_borrow(), the client, and porter_return()
LEMMA PullData ==
  ASSUME TypeInv, FlowInv, DataInv, NEW r \in Rank, Pull(r)
  PROVE  DataInv'
<1>1. CASE Borrow(r)
  BY <1>1, BorrowData
<1>2. CASE Take(r)
  BY <1>2, TakeNext
<1>3. CASE Return(r)
  BY <1>3, ReturnData
<1> QED
  BY <1>1, <1>2, <1>3 DEF Pull

-----------------------------------------------------------------------------
(* The rounds *)

\* A link on which nothing has been pushed.
LEMMA DataNew ==
  ASSUME NEW c, c.produced = 0, c.emitted = 0, c.delivered = 0, c.fill = 0,
         c.inflight = 0, c.all_sent = FALSE, NEW eg, NEW rb,
         NEW f, f = [n \in Nat |-> 0]
  PROVE  Carries(c, f, eg, 0, {}, {}, rb, 0, 0, <<>>)
<1>1. f[0] = 0
  OBVIOUS
<1>2. Filled(c, f, eg, 0)
  <2>1. \A i, j \in 0 .. c.produced : i <= j => f[i] <= f[j]
    OBVIOUS
  <2>2. 0 .. c.produced-1 = {} /\ c.delivered .. c.produced-1 = {}
    OBVIOUS
  <2>3. 1 .. c.fill = {}
    OBVIOUS
  <2> QED
    BY <1>1, <2>1, <2>2, <2>3 DEF Filled
<1>3. Arrives(c.emitted, f, {}, rb, 0, 0, <<>>)
  <2>1. 0 .. c.emitted-1 = {} /\ Len(<<>>) = 0 /\ 1 .. 0 = {}
    OBVIOUS
  <2> QED
    BY <1>1, <2>1 DEF Arrives
<1>4. Told(c, f, {}, 0)
  <2>1. 0 \div 2 = 0 /\ 0 % 2 = 0
    OBVIOUS
  <2>2. Tells(c, f, 0)
    BY <2>1 DEF Tells
  <2> QED
    BY <2>1, <2>2 DEF Told
<1> QED
  BY <1>2, <1>3, <1>4 DEF Carries

LEMMA BlankHolds ==
  ASSUME NEW p \in Live, NEW d \in Live, Blank(p), Blank(d), Calm(p, d),
         pushed[p][d] = 0, got[d][p] = <<>>
  PROVE  Holds(p, d, chan[p][d], endgame[p], pushed[p][d])
<1> DEFINE c == NewChannel(d)
           f == [n \in Nat |-> 0]
<1>1. /\ c.produced = 0 /\ c.emitted = 0 /\ c.delivered = 0 /\ c.fill = 0
      /\ c.inflight = 0 /\ c.all_sent = FALSE
  BY DEF NewChannel
<1>2. f \in [Nat -> Nat]
  OBVIOUS
<1> HIDE DEF c
<1>3. Carries(c, f, endgame[p], 0, {}, {}, recvbuf[d][p], 0, 0, <<>>)
  BY <1>1, DataNew
<1> HIDE DEF f
<1>4. /\ p \in Rank /\ d \in Rank /\ FirstReceived(p) = 0
  BY LiveRank DEF FirstReceived
<1>5. /\ chan[p][d] = c /\ received[d][p] = 0 /\ disposed[d][p] = 0
  BY <1>4 DEF Blank, c
<1>6. puts[p][d] = {} /\ signals[p][d] = {}
  BY DEF Calm
<1> QED
  BY <1>2, <1>3, <1>5, <1>6 DEF Holds, Held

LEMMA BlankHoldsNext ==
  ASSUME NEW p \in Live, NEW d \in Live, Blank(p)', Blank(d)', Calm(p, d)',
         (pushed[p][d] = 0)', (got[d][p] = <<>>)'
  PROVE  Holds(p, d, chan[p][d], endgame[p], pushed[p][d])'
<1> QED
  BY BlankHolds, PTL

\* At first nothing has been pushed.
LEMMA DataInvInit == Init => DataInv
<1> SUFFICES ASSUME Init PROVE DataInv
  OBVIOUS
<1>1. \A p, d \in Rank : Calm(p, d) /\ pushed[p][d] = 0 /\ got[d][p] = <<>>
  BY DEF Init, Calm
<1>2. \A p \in Rank : Blank(p)
  BY DEF Init, Blank
<1>3. CarryInv
  BY <1>1, <1>2, LiveRank, BlankHolds DEF CarryInv
<1>4. PassInv
  BY DEF Init, PassInv
<1>5. DrainInv
  BY DEF Init, DrainInv
<1>6. FreshInv /\ RoundInv
  BY <1>1, LiveRank DEF Init, FreshInv, RoundInv
<1> QED
  BY <1>3, <1>4, <1>5, <1>6 DEF DataInv

\* The types of what Setup(p) assigns.
LEMMA SetupTypes ==
  ASSUME TypeInv
  PROVE  /\ chan \in [Rank -> [Rank -> Channel]]
         /\ received \in [Rank -> [Rank -> Nat]]
         /\ disposed \in [Rank -> [Rank -> Nat]]
         /\ drained \in [Rank -> BOOLEAN] /\ endgame \in [Rank -> BOOLEAN]
         /\ done \in [Rank -> BOOLEAN] /\ stage \in [Rank -> Stages]
         /\ round \in [Rank -> Nat]
         /\ pushed \in [Rank -> [Rank -> Nat]]
         /\ got \in [Rank -> [Rank -> Seq(Nat)]]
BY DEF TypeInv, TypeOK

\* porter_setup() up to the reduction
LEMMA SetupData ==
  ASSUME TypeInv, FlowInv, DataInv, NEW p \in Rank, Setup(p)
  PROVE  DataInv'
<1> USE DEF DataInv
<1>1. /\ p \in Live /\ stage[p] = "dormant" /\ Apart(p)
      /\ UNCHANGED <<recvbuf, pc, todo, puts, signals, acks>>
  BY DEF Setup, wires, Apart
<1>2. FlowInv'
  BY SetupFlow
<1>3. /\ chan'[p] = [d \in Rank |-> NewChannel(d)] /\ drained'[p] = FALSE
      /\ endgame'[p] = FALSE /\ done'[p] = FALSE /\ stage'[p] = "set"
      /\ round'[p] = round[p] + 1 /\ pushed'[p] = [d \in Rank |-> 0]
      /\ got'[p] = [s \in Rank |-> <<>>]
  BY SetupTypes DEF Setup
<1>4. \A q \in Rank \ {p} :
        /\ chan'[q] = chan[q] /\ received'[q] = received[q]
        /\ disposed'[q] = disposed[q] /\ drained'[q] = drained[q]
        /\ endgame'[q] = endgame[q] /\ done'[q] = done[q]
        /\ stage'[q] = stage[q] /\ round'[q] = round[q]
        /\ pushed'[q] = pushed[q] /\ got'[q] = got[q]
  BY SetupTypes DEF Setup
<1>5. pc[p] = "idle"
  BY <1>1 DEF FlowInv, StageInv
<1>6. FreshInv'
  <2> SUFFICES ASSUME NEW q \in Live, NEW d \in Rank, stage'[q] = "set"
               PROVE  pushed'[q][d] = 0 /\ got'[q][d] = <<>>
    BY DEF FreshInv
  <2>1. CASE q = p
    BY <1>3, <2>1
  <2>2. CASE q # p
    <3>1. q \in Rank \ {p}
      BY <2>2, LiveRank
    <3> QED
      BY <1>4, <3>1 DEF FreshInv
  <2> QED
    BY <2>1, <2>2
<1>7. CarryInv'
  <2> SUFFICES ASSUME NEW q \in Live, NEW d \in Live, SameRound(q, d)'
               PROVE  Holds(q, d, chan[q][d], endgame[q], pushed[q][d])'
    BY DEF CarryInv
  <2>1. q \in Rank /\ d \in Rank
    BY LiveRank
  <2>2. CASE q # p /\ d # p
    <3>1. SameRound(q, d)
      BY <1>4, <2>1, <2>2 DEF SameRound
    <3>2. Holds(q, d, chan[q][d], endgame[q], pushed[q][d])
      BY <3>1 DEF CarryInv
    <3>3. /\ chan'[q] = chan[q] /\ received'[d] = received[d]
          /\ disposed'[d] = disposed[d] /\ endgame'[q] = endgame[q]
          /\ pushed'[q] = pushed[q] /\ got'[d] = got[d]
      BY <1>4, <2>1, <2>2
    <3> QED
      BY <1>1, <3>2, <3>3 DEF Holds, Held
  <2>3. CASE q = p \/ d = p
    <3>1. stage'[q] = "set" /\ stage'[d] = "set"
      BY <1>3, <2>3 DEF SameRound
    <3>2. Blank(q)' /\ Blank(d)'
      BY <1>2, <2>1, <3>1 DEF FlowInv, BlankInv
    <3>3. Apart(q)' /\ Apart(d)'
      BY <3>1 DEF Apart
    <3>4. Calm(q, d)'
      BY <1>2, <2>1, <3>3 DEF FlowInv, WireInv
    <3>5. (pushed[q][d] = 0)' /\ (got[d][q] = <<>>)'
      BY <1>6, <2>1, <3>1 DEF FreshInv
    <3> QED
      BY <3>2, <3>4, <3>5, BlankHoldsNext
  <2> QED
    BY <2>2, <2>3
<1>8. PassInv'
  <2> SUFFICES ASSUME NEW q \in Rank
               PROVE  /\ endgame'[q] => done'[q]
                      /\ pc'[q] = "urgent" => ~endgame'[q]
                      /\ pc'[q] = "flush" =>
                           /\ endgame'[q]
                           /\ \A d \in todo'[q] : ~chan'[q][d].all_sent
    BY DEF PassInv
  <2>1. CASE q = p
    BY <1>1, <1>3, <1>5, <2>1
  <2>2. CASE q # p
    BY <1>1, <1>4, <2>2 DEF PassInv
  <2> QED
    BY <2>1, <2>2
<1>9. DrainInv'
  <2> SUFFICES ASSUME NEW q \in Rank
               PROVE  /\ drained'[q] =>
                           /\ q \in Live
                           /\ \A s \in Rank :
                                /\ received'[q][s] \div 2 <= disposed'[q][s]
                                /\ received'[q][s] % 2 = 1
                      /\ (q \in Live /\ stage'[q] \in {"resetting", "dormant"})
                           => drained'[q]
    BY DEF DrainInv
  <2>1. CASE q = p
    BY <1>3, <2>1
  <2>2. CASE q # p
    BY <1>4, <2>2 DEF DrainInv
  <2> QED
    BY <2>1, <2>2
<1>10. RoundInv'
  <2>1. \A q \in Live : stage[q] = "dormant" \/ stage[q] = "set"
    BY <1>1 DEF FlowInv, StageInv, Apart
  <2>2. \A q \in Live \ {p} :
          round'[p] = IF stage[q] = "set" THEN round[q] ELSE round[q] + 1
    BY <1>1, <1>3, <2>1 DEF RoundInv, SameRound
  <2>3. \A q \in Live \ {p} : stage'[q] = stage[q] /\ round'[q] = round[q]
    BY <1>4, LiveRank
  <2> SUFFICES ASSUME NEW q \in Live, NEW d \in Live
               PROVE  /\ SameRound(q, d)' => round'[q] = round'[d]
                      /\ (stage'[q] = "set" /\ stage'[d] = "dormant")
                           => round'[q] = round'[d] + 1
    BY DEF RoundInv
  <2>4. CASE q = p /\ d = p
    BY <1>3, <2>4
  <2>5. CASE q = p /\ d # p
    BY <1>3, <2>1, <2>2, <2>3, <2>5 DEF SameRound
  <2>6. CASE q # p /\ d = p
    BY <1>3, <2>1, <2>2, <2>3, <2>6 DEF SameRound
  <2>7. CASE q # p /\ d # p
    BY <2>3, <2>7 DEF SameRound, RoundInv
  <2> QED
    BY <2>4, <2>5, <2>6, <2>7
<1> QED
  BY <1>6, <1>7, <1>8, <1>9, <1>10

\* A step that only moves PEs to another stage, or finishes.
LEMMA StageData ==
  ASSUME DataInv,
         UNCHANGED <<chan, recvbuf, received, disposed, drained, puts, signals,
                     pushed, got, endgame, pc, todo, round>>,
         \A p \in Rank : done[p] => done'[p],
         \A p, d \in Live : SameRound(p, d)' => SameRound(p, d),
         \A p \in Live : stage'[p] = "set" => stage[p] = "set",
         \A p, d \in Live : (stage'[p] = "set" /\ stage'[d] = "dormant")
                              => stage[d] = "dormant",
         \A p \in Live : stage'[p] \in {"resetting", "dormant"} => drained[p]
  PROVE  DataInv'
<1> USE DEF DataInv
<1>1. CarryInv'
  BY DEF CarryInv, Holds, Held
<1>2. PassInv'
  BY DEF PassInv
<1>3. DrainInv' /\ FreshInv'
  BY DEF DrainInv, FreshInv
<1>4. RoundInv'
  BY DEF RoundInv
<1> QED
  BY <1>1, <1>2, <1>3, <1>4

\* porter_advance(1), porter_reset() and porter_setup()
LEMMA CycleData ==
  ASSUME TypeInv, FlowInv, DataInv,
         \/ \E p \in Rank : Finish(p) \/ Cycle(p)
         \/ ResetBarrier \/ SetupReduction \/ Finished
  PROVE  DataInv'
<1> DEFINE Still == UNCHANGED <<chan, recvbuf, received, disposed, drained,
                                puts, signals, pushed, got, endgame, pc, todo,
                                round>>
<1>0. stage \in [Rank -> Stages] /\ done \in [Rank -> BOOLEAN]
  BY DEF TypeInv, TypeOK
<1>1. \A p \in Live : stage[p] \in {"resetting", "dormant"} => drained[p]
  BY LiveRank DEF DataInv, DrainInv
<1>2. ASSUME Still, UNCHANGED stage, \A p \in Rank : done[p] => done'[p]
      PROVE  DataInv'
  <2>1. \A p, d \in Live : SameRound(p, d)' => SameRound(p, d)
    BY <1>2 DEF SameRound
  <2> QED
    BY <1>1, <1>2, <2>1, StageData
<1>3. ASSUME NEW p \in Rank, Finish(p) PROVE DataInv'
  <2>1. Still /\ UNCHANGED stage /\ done' = [done EXCEPT ![p] = TRUE]
    BY <1>3 DEF Finish, receiver, control, wires, history
  <2>2. \A q \in Rank : done[q] => done'[q]
    BY <1>0, <2>1
  <2> QED
    BY <1>2, <2>1, <2>2
<1>4. CASE Finished
  BY <1>2, <1>4 DEF Finished, vars, receiver, control, cycle, wires, history
<1>5. ASSUME NEW p \in Rank, EnterReset(p) PROVE DataInv'
  <2>1. /\ p \in Live /\ stage[p] = "working" /\ drained[p]
        /\ stage' = [stage EXCEPT ![p] = "resetting"]
        /\ Still /\ UNCHANGED done
    BY <1>5 DEF EnterReset, Idle, Complete, receiver, control, wires, history
  <2>2. \A q \in Rank : stage'[q] = "set" <=> stage[q] = "set"
    BY <1>0, <2>1
  <2>3. \A q \in Rank : stage'[q] = "dormant" => stage[q] = "dormant"
    BY <1>0, <2>1
  <2>4. \A q, d \in Live : SameRound(q, d)' => SameRound(q, d)
    BY <2>2, LiveRank DEF SameRound
  <2>5. \A q \in Live : stage'[q] \in {"resetting", "dormant"} => drained[q]
    BY <1>0, <1>1, <2>1, LiveRank
  <2> QED
    BY <2>1, <2>2, <2>3, <2>4, <2>5, StageData, LiveRank
<1>6. ASSUME NEW p \in Rank, Setup(p) PROVE DataInv'
  BY <1>6, SetupData
<1>7. CASE ResetBarrier
  <2>1. /\ \A p \in Live : stage[p] = "resetting"
        /\ \A p \in Rank : stage'[p] = "dormant"
        /\ Still /\ UNCHANGED done
    BY <1>7 DEF ResetBarrier, BarrierMet, AllAt, receiver, control, wires,
                history
  <2>2. \A p, d \in Live : SameRound(p, d)
    BY <2>1 DEF SameRound
  <2>3. \A p \in Live : stage'[p] # "set" /\ drained[p]
    BY <1>1, <2>1, LiveRank
  <2> QED
    BY <2>1, <2>2, <2>3, StageData
<1>8. CASE SetupReduction
  <2>1. /\ \A p \in Live : stage[p] = "set"
        /\ \A p \in Rank : stage'[p] = "working"
        /\ Still /\ UNCHANGED done
    BY <1>8 DEF SetupReduction, AllAt, receiver, control, wires, history
  <2>2. \A p, d \in Live : SameRound(p, d)
    BY <2>1 DEF SameRound
  <2>3. \A p \in Live : stage'[p] \notin {"set", "resetting", "dormant"}
    BY <2>1, LiveRank
  <2> QED
    BY <2>1, <2>2, <2>3, StageData
<1> QED
  BY <1>3, <1>4, <1>5, <1>6, <1>7, <1>8 DEF Cycle

LEMMA DataInvNext ==
  ASSUME TypeInv, FlowInv, DataInv, [Next]_vars
  PROVE  DataInv'
<1>1. ASSUME NEW p \in Rank, NEW d \in Rank, Push(p, d) PROVE DataInv'
  BY <1>1, PushData
<1>2. ASSUME NEW p \in Rank, NEW d \in Rank, Network(p, d) PROVE DataInv'
  BY <1>2, NetworkData
<1>3. ASSUME NEW p \in Rank, Advance(p) PROVE DataInv'
  BY <1>3, AdvanceData
<1>4. ASSUME NEW p \in Rank, Pull(p) PROVE DataInv'
  BY <1>4, PullData
<1>5. CASE \/ \E p \in Rank : Finish(p) \/ Cycle(p)
           \/ ResetBarrier \/ SetupReduction \/ Finished
  BY <1>5, CycleData
<1>6. CASE UNCHANGED vars
  <2>1. UNCHANGED <<chan, pushed, endgame, done, pc, todo, stage, round, puts,
                    signals, recvbuf, received, disposed, drained, got>>
    BY <1>6 DEF vars, receiver, control, cycle, wires, history
  <2>2. CarryInv'
    BY <2>1 DEF DataInv, CarryInv, SameRound, Holds, Held
  <2>3. PassInv' /\ DrainInv' /\ FreshInv' /\ RoundInv'
    BY <2>1 DEF DataInv, PassInv, DrainInv, FreshInv, RoundInv, SameRound
  <2> QED
    BY <2>2, <2>3 DEF DataInv
<1> QED
  BY <1>1, <1>2, <1>3, <1>4, <1>5, <1>6 DEF Next

LEMMA DataInvAlways == Spec => [](TypeInv /\ FlowInv /\ DataInv)
<1>1. Init => TypeInv /\ FlowInv /\ DataInv
  BY TypeInvInit, FlowInvInit, DataInvInit
<1>2. TypeInv /\ FlowInv /\ DataInv /\ [Next]_vars
        => (TypeInv /\ FlowInv /\ DataInv)'
  BY TypeInvNext, FlowInvNext, DataInvNext
<1> QED
  BY <1>1, <1>2, PTL DEF Spec

-----------------------------------------------------------------------------
(* What the group promises *)

\* What a receiver has used up of a link whose last signal it has got.
LEMMA LinkDrained ==
  ASSUME TypeInv, FlowInv, DataInv, NEW p \in Live, NEW r \in Live,
         stage[r] = "working",
         received[r][p] \div 2 <= disposed[r][p], received[r][p] % 2 = 1
  PROVE  done[p] /\ Len(got[r][p]) = pushed[p][r]
<1>1. p \in Rank /\ r \in Rank
  BY LiveRank
<1>2. SameRound(p, r)
  BY WorkingTogether DEF FlowInv, SameRound
<1>3. Fits(p, r, chan[p][r]) /\ Holds(p, r, chan[p][r], endgame[p], pushed[p][r])
  BY <1>2 DEF FlowInv, LinkInv, DataInv, CarryInv
<1>4. ChanOK(chan[p][r])
  BY <1>1, Access
<1>5. pushed[p][r] \in Nat
  <2>1. pushed \in [Rank -> [Rank -> Nat]]
    BY DEF TypeInv, TypeOK
  <2> QED
    BY <1>1, <2>1
<1>6. PICK f \in [Nat -> Nat] :
        Carries(chan[p][r], f, endgame[p], pushed[p][r], puts[p][r],
                signals[p][r], recvbuf[r][p], received[r][p], disposed[r][p],
                got[r][p])
  BY <1>3 DEF Holds, Held
<1>7. LinkOK(chan[p][r], f, consumed[p][r], puts[p][r], signals[p][r],
             acks[r][p], recvbuf[r][p], received[r][p], disposed[r][p],
             got[r][p], pushed[p][r])
  BY <1>1, <1>3, <1>4, <1>5, LinkOKHeld
<1>8. Len(got[r][p]) = pushed[p][r] /\ chan[p][r].all_sent
  <2>1. UsedUpTo(received[r][p], disposed[r][p])
    BY DEF UsedUpTo
  <2> QED
    BY <1>6, <1>7, <2>1, DataDrained
<1>9. endgame[p]
  BY <1>6, <1>8 DEF Carries, Filled
<1> QED
  BY <1>1, <1>8, <1>9 DEF DataInv, PassInv

\* A PE whose porter reports that it is drained, the value that
\* porter_borrow() stores when its scan finds every last signal and no buffer,
\* has taken every item pushed to it, and every source is done.
LEMMA DrainedFinal ==
  ASSUME TypeInv, FlowInv, DataInv
  PROVE  DrainedIsFinal
<1> SUFFICES ASSUME NEW r \in Rank, drained[r], stage[r] = "working",
                    NEW s \in Live
             PROVE  done[s] /\ Len(got[r][s]) = pushed[s][r]
  BY DEF DrainedIsFinal
<1>1. r \in Live /\ s \in Rank
  BY LiveRank DEF DataInv, DrainInv
<1>2. received[r][s] \div 2 <= disposed[r][s] /\ received[r][s] % 2 = 1
  BY <1>1 DEF DataInv, DrainInv
<1> QED
  BY <1>1, <1>2, LinkDrained

\* Nothing of a round is left anywhere when it ends for a PE: the buffers are
\* consumed, the puts have arrived, and porter_setup() may zero the counters.
THEOREM RoundsApartHolds == Spec => []RoundsApart
<1>1. TypeInv /\ FlowInv /\ DataInv => DrainedIsFinal
  BY DrainedFinal
<1> QED
  BY <1>1, DataInvAlways, NoStaleTrafficHolds, PTL DEF RoundsApart

-----------------------------------------------------------------------------
(* The group implements FifoLinks *)

\* While a PE is between setup and reset, all are in the same round.
LEMMA AllTogether ==
  ASSUME FlowInv, DataInv, NEW p \in Live, ~Apart(p)
  PROVE  Links!Together
<1>1. \A q, d \in Live : SameRound(q, d)
  BY DEF FlowInv, StageInv, SameRound, Apart
<1> QED
  BY <1>1 DEF Links!Together, DataInv, RoundInv

LEMMA LinksStill ==
  ASSUME UNCHANGED <<pushed, got, done, drained, round>>
  PROVE  UNCHANGED Links!vars
BY DEF Links!vars

LEMMA LinksInit == Init => Links!Init
BY DEF Init, Links!Init

\* porter_push() and porter_epush() send an item, or find no room.
LEMMA PushSends ==
  ASSUME TypeInv, FlowInv, DataInv, NEW p \in Rank, NEW d \in Rank, Push(p, d)
  PROVE  Links!Next \/ UNCHANGED Links!vars
<1>1. UNCHANGED <<got, done, drained, round>>
  BY DEF Push, PushRoom, EPushRoom, PushNoRoom, cycle, receiver, history
<1>2. p \in Live /\ d \in Live /\ ~Apart(p) /\ ~done[p]
  BY DEF Push, PushRoom, EPushRoom, PushNoRoom, MayPush, Apart
<1>3. CASE pushed' = pushed
  BY <1>1, <1>3, LinksStill
<1>4. CASE pushed' = [pushed EXCEPT ![p][d] = @ + 1]
  <2>1. Links!Send(p, d)
    BY <1>1, <1>2, <1>4 DEF Links!Send
  <2> QED
    BY <1>2, <2>1, AllTogether DEF Links!Next
<1> QED
  BY <1>3, <1>4 DEF Push, PushRoom, EPushRoom, PushNoRoom, history

\* porter_borrow() makes drained true once, and does not take it back.
LEMMA BorrowDrains ==
  ASSUME TypeInv, FlowInv, DataInv, NEW r \in Rank, Borrow(r)
  PROVE  Links!Next \/ UNCHANGED Links!vars
<1>1. UNCHANGED <<pushed, got, done, round>>
  BY DEF Borrow, cycle, history
<1>2. r \in Live /\ stage[r] = "working" /\ ~Apart(r)
      /\ drained \in [Rank -> BOOLEAN]
  BY DEF Borrow, Idle, Apart, TypeInv, TypeOK
<1>3. CASE drained' = drained
  BY <1>1, <1>3, LinksStill
<1>4. CASE drained' = [drained EXCEPT ![r] = IsDrained(r)]
  <2>1. CASE drained[r]
    <3>1. \A s \in Rank : received[r][s] \div 2 <= disposed[r][s]
                          /\ received[r][s] % 2 = 1
      BY <2>1 DEF DataInv, DrainInv
    <3>2. stuck[r] = {}
      <4> SUFFICES ASSUME NEW s \in stuck[r] PROVE FALSE
        OBVIOUS
      <4>1. s \in Rank /\ disposed[r][s] < received[r][s] \div 2
        BY MemoryTypes DEF FlowInv, ListInv
      <4>2. received[r][s] \in Nat /\ disposed[r][s] \in Nat
        BY <4>1, MemoryTypes
      <4>3. received[r][s] \div 2 \in Nat
        BY <4>2
      <4> QED
        BY <3>1, <4>1, <4>2, <4>3
    <3>3. IsDrained(r) = TRUE
      BY <3>1, <3>2 DEF IsDrained
    <3>4. drained[r] = TRUE
      BY <1>2, <2>1
    <3>5. drained' = drained
      BY <1>2, <1>4, <3>3, <3>4
    <3> QED
      BY <1>3, <3>5
  <2>2. CASE ~drained[r] /\ ~IsDrained(r)
    <3>1. IsDrained(r) = FALSE
      BY <2>2 DEF IsDrained
    <3>2. drained[r] = FALSE
      BY <1>2, <2>2
    <3>3. drained' = drained
      BY <1>2, <1>4, <3>1, <3>2
    <3> QED
      BY <1>3, <3>3
  <2>3. CASE ~drained[r] /\ IsDrained(r)
    <3>1. IsDrained(r) = TRUE
      BY <2>3 DEF IsDrained
    <3>2. drained' = [drained EXCEPT ![r] = TRUE]
      BY <1>4, <3>1
    <3>3. \A p \in Live : done[p] /\ Len(got[r][p]) = pushed[p][r]
      <4> SUFFICES ASSUME NEW p \in Live
                   PROVE  done[p] /\ Len(got[r][p]) = pushed[p][r]
        OBVIOUS
      <4>1. received[r][p] \div 2 <= disposed[r][p] /\ received[r][p] % 2 = 1
        BY <2>3, LiveRank DEF IsDrained
      <4> QED
        BY <1>2, <4>1, LinkDrained
    <3>4. Links!Drain(r)
      BY <1>1, <2>3, <3>2, <3>3 DEF Links!Drain
    <3> QED
      BY <1>2, <3>4, AllTogether DEF Links!Next
  <2> QED
    BY <2>1, <2>2, <2>3
<1> QED
  BY <1>3, <1>4 DEF Borrow

\* The client takes the next item of a link.
LEMMA TakeReceives ==
  ASSUME TypeInv, FlowInv, DataInv, NEW r \in Rank, Take(r)
  PROVE  Links!Next
<1>1. UNCHANGED <<pushed, done, drained, round>>
  BY DEF Take, cycle
<1>2. r \in Live /\ ~Apart(r)
  BY DEF Take, Idle, Apart
<1>3. PICK s \in Live : /\ Len(got[r][s]) < pushed[s][r]
                        /\ got' = [got EXCEPT ![r][s] =
                                     Append(@, Len(@) + 1)]
  BY TakeNext
<1>4. Links!Receive(r, s)
  BY <1>1, <1>3 DEF Links!Receive
<1> QED
  BY <1>2, <1>4, AllTogether DEF Links!Next

\* porter_setup(): the others are drained or have begun the new round too.
LEMMA SetupRestarts ==
  ASSUME TypeInv, FlowInv, DataInv, NEW p \in Rank, Setup(p)
  PROVE  Links!Next
<1>1. p \in Live /\ stage[p] = "dormant" /\ Apart(p)
  BY DEF Setup, Apart
<1>2. ASSUME NEW q \in Live
      PROVE  drained[q] \/ round[q] > round[p]
  <2>1. q \in Rank /\ (stage[q] = "dormant" \/ stage[q] = "set")
    BY <1>1, LiveRank DEF FlowInv, StageInv, Apart
  <2>2. CASE stage[q] = "dormant"
    BY <2>1, <2>2 DEF DataInv, DrainInv
  <2>3. CASE stage[q] = "set"
    <3>1. round[q] = round[p] + 1
      BY <1>1, <2>3 DEF DataInv, RoundInv
    <3>2. round[p] \in Nat
      BY SetupTypes
    <3> QED
      BY <3>1, <3>2
  <2> QED
    BY <2>1, <2>2, <2>3
<1>3. /\ pushed' = [pushed EXCEPT ![p] = [d \in Rank |-> 0]]
      /\ got' = [got EXCEPT ![p] = [s \in Rank |-> <<>>]]
      /\ done' = [done EXCEPT ![p] = FALSE]
      /\ drained' = [drained EXCEPT ![p] = FALSE]
      /\ round' = [round EXCEPT ![p] = @ + 1]
  BY DEF Setup
<1>4. pushed' = [q \in Rank |-> IF q \in {p} THEN [d \in Rank |-> 0]
                                ELSE pushed[q]]
  BY <1>3, SetupTypes
<1>5. got' = [q \in Rank |-> IF q \in {p} THEN [s \in Rank |-> <<>>]
                             ELSE got[q]]
  BY <1>3, SetupTypes
<1>6. /\ done' = [q \in Rank |-> done[q] /\ q \notin {p}]
      /\ drained' = [q \in Rank |-> drained[q] /\ q \notin {p}]
  BY <1>3, SetupTypes
<1>7. round' = [q \in Rank |-> IF q \in {p} THEN round[q] + 1 ELSE round[q]]
  BY <1>3, SetupTypes
<1>8. Links!Restart({p})
  BY <1>2, <1>4, <1>5, <1>6, <1>7 DEF Links!Restart
<1>9. {p} \in SUBSET Live
  BY <1>1
<1> QED
  BY <1>8, <1>9 DEF Links!Next

\* Every step of the group is one of the links, or hidden from the clients.
LEMMA LinksNext ==
  ASSUME TypeInv, FlowInv, DataInv, [Next]_vars
  PROVE  [Links!Next]_(Links!vars)
<1>1. ASSUME NEW p \in Rank, NEW d \in Rank, Push(p, d)
      PROVE  [Links!Next]_(Links!vars)
  BY <1>1, PushSends
<1>2. ASSUME NEW p \in Rank, NEW d \in Rank, Network(p, d)
      PROVE  [Links!Next]_(Links!vars)
  <2>1. UNCHANGED <<pushed, got, done, drained, round>>
    BY <1>2 DEF Network, DeliverData, DeliverSignal, DeliverAck, receiver,
                cycle, history
  <2> QED
    BY <2>1, LinksStill
<1>3. ASSUME NEW p \in Rank, Finish(p)
      PROVE  [Links!Next]_(Links!vars)
  <2>1. p \in Live /\ ~Apart(p) /\ Links!Close(p)
    BY <1>3 DEF Finish, Apart, Links!Close, receiver, history
  <2> QED
    BY <2>1, AllTogether DEF Links!Next
<1>4. ASSUME NEW p \in Rank, Advance(p)
      PROVE  [Links!Next]_(Links!vars)
  <2>1. UNCHANGED <<pushed, got, done, drained, round>>
    BY <1>4 DEF Advance, StartAdvance, UrgentSend, UrgentProgress, ResumeFlush,
                FlushSend, FlushProgress, receiver, cycle, history
  <2> QED
    BY <2>1, LinksStill
<1>5. ASSUME NEW r \in Rank, Pull(r)
      PROVE  [Links!Next]_(Links!vars)
  <2>1. CASE Return(r)
    <3>1. UNCHANGED <<pushed, got, done, drained, round>>
      BY <2>1 DEF Return, cycle, history
    <3> QED
      BY <3>1, LinksStill
  <2> QED
    BY <1>5, <2>1, BorrowDrains, TakeReceives DEF Pull
<1>6. ASSUME NEW p \in Rank, Cycle(p)
      PROVE  [Links!Next]_(Links!vars)
  <2>1. CASE EnterReset(p)
    <3>1. UNCHANGED <<pushed, got, done, drained, round>>
      BY <2>1 DEF EnterReset, receiver, history
    <3> QED
      BY <3>1, LinksStill
  <2> QED
    BY <1>6, <2>1, SetupRestarts DEF Cycle
<1>7. CASE ResetBarrier \/ SetupReduction \/ Finished \/ UNCHANGED vars
  <2>1. UNCHANGED <<pushed, got, done, drained, round>>
    BY <1>7 DEF ResetBarrier, SetupReduction, Finished, vars, receiver, cycle,
                history
  <2> QED
    BY <2>1, LinksStill
<1> QED
  BY <1>1, <1>2, <1>3, <1>4, <1>5, <1>6, <1>7 DEF Next

\* The porters of a group, whatever their options and whatever order the puts
\* take, are FIFO links between its PEs: items are taken in the order they were
\* pushed, none is lost or taken twice, a PE is drained only when nothing is
\* left for it, and the rounds do not mix.
THEOREM LinksHold == Spec => LinksSpec
<1>1. TypeInv /\ FlowInv /\ DataInv /\ [Next]_vars
        => [Links!Next]_(Links!vars)
  BY LinksNext
<1> QED
  BY <1>1, LinksInit, DataInvAlways, PTL DEF Spec, LinksSpec, Links!Spec
=============================================================================
