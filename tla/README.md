# A verification of the bale conveyors

The repository is bale: libraries that move small items between the processes
(PEs) of a parallel program and aggregate them into large messages on the way.
This directory holds TLA+ models of those libraries, the TLC runs that check
them, and TLAPS proofs. Below, `convey/`, `exstack/`, `libgetput/`, `spmat/` and
`apps/` stand for the directories of that name in
`src/bale/src/bale_classic/`.

`PROJECT.json` lists, for every definition of the models, the lines of the source
that it stands for; the runs; for every property, a small change of the model
that breaks it; the hazards of the code and the properties aimed at them; and the
theorems.

## 1. The system

### Parts and how they interact

| Part | Source | State | Operations | Talks to |
|---|---|---|---|---|
| porter | `convey/porter.c`, `porter_impl.h` | per link: ring of send buffers, `produced`, `emitted`, `delivered`, `urgent`; `waiting`, `phase`, `n_urgent`, `endgame`, `flushed`, `drained` | push, epush, borrow, return, advance, setup, reset | the transport's method table |
| SHMEM put porter | `convey/putport.c` | symmetric memory: receive buffers, `received`, `consumed` (written by remote puts), `disposed`, ring of levels | send, try_send, progress, ready, borrow, return, setup, reset | one-sided puts, fence, quiet, barriers |
| MPI porter | `convey/mpiport.c` | a request per link, posted receives, `n_active`, the list of arrived buffers | the same methods | MPI nonblocking calls |
| codecs | `convey/codata.c`, `squeeze.c`, `packer.c` | a workspace | compress, decompress | porters, on each buffer sent or received |
| tensor conveyors (order 1, 2, 3) | `convey/tensor.c`, `router.h`, `pivot.h` | porters, `n_complete`, the buffer at hand | begin, push, pull, unpull, advance, reset | its porters, one feeding the next |
| specialised methods | `convey/accel.c`, `bolite.h` | the method table of a session | choose, put back; fast division | the tensor conveyor |
| generic conveyor | `convey/convey.c` | `state`: dormant, working, endgame, complete; limits on memory | checked forms of all calls; choice of parameters | the class behind it |
| simple, two-hop | `convey/simple.c`, `twohop.c` | send and receive buffers, sorter, `nonempty`, `overflow`, `quiet`, pivots | as above; advance is a collective exchange | an all-to-all |
| sorter | `convey/circle.c` (`sorter.c` has another, which is not built) | the last items pushed, on their way to send buffers | push, flush | the simple conveyor |
| elastic, trivial | `convey/elastic.c`, `trivial.c` | one outgoing and one incoming buffer for large items, `bigsent`, `bigrcvd` | epush, epull, unpull | a tensor conveyor |
| biconveyors | `convey/biconvey.c`, `bisimple.c`, `bitensor.c` | ring of replies; window of tokens | push (query), pull (reply), advance | one simple conveyor, or two tensor conveyors |
| exstack | `exstack/exstack.upc` | send and receive buffers, `first_ne_rcv`, `notify_done`, `wait_done` | push, exchange, pop, unpop, proceed, reset | blocking puts and barriers |
| exstack2 | `exstack/exstack2.upc`, `exstack2_shmem.c` | message queue, `can_send`, `active_rcv`, counts of first and last messages | push, proceed, send, pop, unpop, reset | atomics, puts, fences |
| programs | `apps/`, `convey/a2a_*.c`, `convey/examples/`, `src/all-reduce` | tables, permutations, matrices, vectors | histogram, gather, permute, sort, reduce | conveyors |
| libgetput, sparse matrices | `libgetput/`, `spmat/` | none; matrices | one-sided operations, reductions; permute, transpose | SHMEM or UPC; all of the above |

A client of a conveyor loops: it pushes until a push fails, advances, pulls until
a pull fails, and stops when advance returns `convey_DONE`. All of the hard
behaviour comes from the fact that these loops run on many PEs with no order
between them, and that the only communication is by one-sided puts, which arrive
late and out of order unless a fence separates them.

### What is hard

- **Interleaving and order.** A put may land while its target reads the buffer
  (`putport.c:255`, `exstack.upc:171`, `exstack2_shmem.c:275`); a signal may land
  before the data that it announces (`putport.c:281`, `exstack2_shmem.c:373`);
  acknowledgements are not ordered among themselves (`putport.c:210`); replies
  come in another order than their queries (`bitensor.c:144`).
- **Reuse.** Send buffers, receive buffers and queue slots are used again, in
  rings of a fixed size, and a nonblocking put or send still reads its source after the
  call that made it has returned (`putport.c:527`, `mpiport.c:108`). The one
  buffer for large items waits for a receiver that may be slow (`elastic.c:201`).
- **Calls that stop half way.** A pivot, a flush or a loop of answers stops at the
  first full buffer and must go on later from there (`pivot.h:44`,
  `twohop.c:252`, `circle.c:106`, `bitensor.c:131`).
- **Termination.** A PE may stop only when no other can send to it. The porter
  counts last signals, a tensor hands the endgame from porter to porter
  (`tensor.c:260`), collective conveyors vote, exstack2 counts last messages,
  exstack agrees in a barrier, and programs count replies.
- **Rounds.** After `reset` the same memory serves the next round, and nothing
  of the last one may still be on its way.
- **Small arithmetic.** The counter of urgent links, widths of routing tags, the
  search for parameters that fit a limit, vector loops that touch memory beyond
  the data, division by a multiplication.

### What makes each part correct

| Part | It is correct if | Where |
|---|---|---|
| porter and put porter | every link is FIFO, each item is taken once; no buffer is written while it may be read; drained means nothing can come; rounds do not mix; all PEs finish; a steady porter delivers what it holds | `PutPorter` |
| MPI porter | the same; no request is started twice, no receive is left posted between rounds | `MpiPorter` |
| exstack | items popped once, in order; a put lands only on an empty buffer; all PEs leave the loop together | `Exstack` |
| exstack2 | FIFO links; one credit per pair; queue slots not overrun; everything back in place at reset; all PEs finish | `Exstack2` |
| tensor | hops lead to existing PEs, which agree on their links; items get to their destination with their origin; FIFO links; the endgame passes from hop to hop; DONE leaves nothing; all PEs finish | `Routes`, `ItemRoute`, `Tensor` |
| generic conveyor | the search for parameters ends, with the least memory if nothing meets the limit, and the conveyor built keeps to it | `ConveyParams` |
| codecs | a buffer comes back as it was, and no loop leaves the memory it was given | `Codec`, `Packer` |
| specialised methods, division | the methods of a session fit its sizes; quotients are exact | `Accel`, `Division` |
| simple, sorter, two-hop | as the tensor; buffers are not overrun; no item misses the last exchange; steady ones deliver | `Simple`, `TwoHop` |
| elastic | small and large items share FIFO links; a large item is not overwritten before it is fetched | `Elastic` |
| biconveyors | the replies come in the order of the queries, one for each | `BiSimple`, `BiTensor` |
| programs | they end, with the result of the sequential computation | `Programs` |

## 2. The models

`X -> Y` below reads: module X extends Y, or refines or uses it by an instance.

    MCPutPorter  -> PutPorter -> FifoLinks         PutPorterProofs -> PutPorter
    MCHops       -> Tensor -> Routes, FifoLinks
                 -> MpiPorter -> FifoLinks         MpiPorterProofs -> MpiPorter
    MCCollective -> TwoHop -> FifoLinks            TwoHopProofs -> TwoHop
                 -> Exstack                        ExstackProofs -> Exstack
    MCBuffers    -> MCBiSimple -> BiSimple -> Simple, AnswerQueue;  Simple -> FifoLinks
                                                   BiSimpleProofs -> BiSimple
                 -> Exstack2 -> FifoLinks          Exstack2Proofs -> Exstack2
    MCParts      -> MCPrograms -> Programs -> Exchange, IndexGather, RandPerm, TopoSort,
                                              AllReduce, BiTensor -> Conveyor;
                                  Programs -> AnswerQueue
                 -> MCKernels -> Kernels -> ConveyParams, ItemRoute -> Routes,
                                            Codec -> Packer, Accel, Division
                                                   KernelProofs -> Kernels
                 -> Elastic -> FifoLinks           ElasticProofs -> Elastic

`MCHops`, `MCCollective`, `MCBuffers` and `MCParts` put components that have nothing to do with each other side by side in
one run: a variable `part` says which one is at work, and the others stay in an initial state. The states of such a run are those
of its components together, not their product. For this, modules that share a run give their definitions different names (`NextEx` of
Exstack and `NextEx2` of Exstack2, `SpecMpi` of MpiPorter, `TensorSpec` of Tensor). The fairness of each is that of its own
specification, under the condition that it is at work; MCHops joins conditions of Tensor and MpiPorter in pairs.

### FifoLinks and AnswerQueue: what a client may rely on

The two abstract specifications. In `FifoLinks` there is a FIFO link between every two PEs; an item
taken from a link is the next one that was not taken (or one that was given
back); a PE is drained only when all have said that they push no more and it has
taken everything; nobody starts a new round before all are drained. Its variables
are histories: `sent`, `got`, `closed`, `drained`, `round`. `PutPorter`, `MpiPorter`,
`Exstack2`, `Tensor`, `Elastic`, `Simple` and `TwoHop` are each shown to implement it (property `LinksSpec`,
`LinksSpecMpi`, `LinksSpecEx2` or `TensorLinksSpec`):
every step of theirs is a step of FifoLinks or leaves its variables alone.

In `AnswerQueue` a client asks queries and takes their answers in the order in which it asked.
Both biconveyors implement it (`AnswersSpec`, `RepliesSpec`).

### PutPorter: porter.c over putport.c

One action for each call of the interface, with everything the call does:
`PushRoom`, `EPushRoom` and `PushNoRoom` for the ways a push can go, `Borrow`,
`Return`, `EnterReset`, `Setup`; `Take` is the client that reads the next item of the
buffer it has borrowed, and `Finish` its decision to say that it is done. Each thing that the network does
is an action too (`DeliverData`, `DeliverSignal`, `DeliverAck`).
`porter_advance` is split at the iterations of its loops over the links
(`UrgentSend`, `FlushSend`), since each one reads memory that peers write; the
barrier of `porter_reset` and the reduction of `porter_setup` are one action of all
the live PEs. Inside an action remote memory is read at once; each such read is
of a counter that only grows in a round, so a later read is the same
action taken later.

- `chan[p][d]` is the `channel_t` of the link with its area and its ring of send buffers. Buffers
  hold items by index, never by their bytes. A send buffer that is opened again still
  holds its last contents, which a late nonblocking put would send.
- `consumed`, `recvbuf` and `received` are the memory that peers write; `puts`,
  `signals` and `acks` what is on its way to it. A fence orders the data
  before its signal (`DataMayArrive`, `SignalMayArrive`). A nonblocking put reads its
  source when it arrives, and its signal is owed (`inflight`) until the quiet of
  a later progress. Acknowledgements arrive in any order.
- `pending` and `stuck` are the list of `porter_borrow`: the sources that this pass has yet
  to visit, and those it left with items. The order within a pass is left open.
- The method table for links inside a node (memcpy and an atomic store)
  is the special case in which each put arrives at once, and has no run of its own.
- `Live` is a subset of the ranks: the others stand for no PE, as in the last square of
  a tensor. Nothing is sent to them, and nobody waits for them.

### MpiPorter: porter.c over mpiport.c

MPI is external: it reads a send buffer at some time after `MPI_Isend` (`Read`),
keeps the messages of a link in order, and puts each into the buffer of the oldest receive posted (`Match`). `chan[p][d]` has two send buffers and the one request
(`req`); `mail` is what is on its way, `posts` the receives that are posted, `arrived` what
`MPI_Testsome` has reported, `pending` the list that is being lent out. The
advance of porter.c, tickets and steady porters are those of PutPorter.

### Tensor, Routes, ItemRoute: the conveyors of order 1, 2 and 3

`Routes` has the arithmetic: who is whose friend, what a tag holds and how many
bytes of it stay in the packet, how a pivot makes the next tag of the last, and the origin. It is
written for all three orders with `MATRIX_REMOTE_HOP = 1`, the default, with the pivots
of `pivot.h` and the ones of `elastic.c`.
`ItemRoute` takes one item from any PE to any other one, hop by hop, and checks
the arithmetic on groups of many sizes. `Tensor` puts the calls of `tensor.c` and
the states of `convey.c` over abstract porters: a link holds the packets that
are still at the sender and the buffers that arrived. The levels, signals and
acknowledgements of PutPorter are left out here, and what they guarantee is what
is used: FIFO delivery, room for `Multiplicity` buffers, and *flushed* and *drained* with
the meaning that `LinksSpec`, `RoundsApart` and `Termination` of PutPorter
establish. An item keeps its tag on the way, so wrong routing would show.

`tensor_advance` is split at every porter and at every buffer that it pivots,
since other PEs and the network may act in between; `porter_advance` of the next porter
belongs to the step before it when only the PE's own state is read.
Both `convey_begin` and `convey_reset` contain a barrier: a PE enters, and one
action of all PEs lets them out.

### Simple and BiSimple: the simple conveyor, its sorter, the synchronous biconveyor

`send`, `recv`, `circle` (the circular buffer of `circle.c`) and the flags of the code.
A PE in `simple_advance` flushes its sorter and casts its vote (`StartAdvance`); the reduction and
the exchange are actions of all PEs (`AgreeNot`, `Exchange`), since the all-to-all begins and
ends with a barrier (`mpp2shmem.c:87`, `:96`) and in between no PE touches what it moves.
`BiSimple` adds the biconveyor on top: the queries are answered in place after
the exchange, a second all-to-all brings the replies back, and they are gathered into a ring in
the order that the sequence of targets (`replay`) recalls; `eldest` and `n_replies` are the code's. The
conveyor is plain, steady, sorting or both (`opt`), and serves a biconveyor or not (`bi`): chosen at the start.
The options with which a biconveyor is built (`BiOptions`), the length of its ring in each session (`Limit`) and whether clients pull all
their replies before they reset (`PullsAll`) are constants. The code checks none of them, and does not keep its promises for all (section 5):
with a sorter a reply may be missing when replies are gathered, which is a failing assertion (`Abort`), and what a session leaves in the
ring, its position and its replies, is still there in the next.

### TwoHop: the two-hop conveyor

An item goes along its source's row, is pivoted, and goes along a column. `row_send`, `row_recv` and
`col_recv` with its read positions are the buffers of `twohop.c`; the pivot stops at the first packet whose
column buffer is full, and the column exchange that follows belongs to the same action. The loop of `pivot` goes through the row buffers
as through one line of slots; `Moved` is how many of them it empties and `Pivoted` what it has put in a column buffer by then. `StartAdvance` casts a PE's vote; `AgreeNot`, `RowExchange` and `ColumnExchange` are the
three ways in which the collective call can go.

### Elastic

An abstract conveyor of one hop carries small items and tickets. `outgoing` and `incoming` are the two buffers for large items,
`bigsent` and `bigrcvd` the words by which the receiver acknowledges; over MPI the acknowledgement is the
completion of the message. Pull fetches the large item when it meets its ticket; unpull gives back the last
item, small or large. The trivial conveyor of a program with one process is a kind of its own.

### Exstack

Each PE runs the loop of the applications: `proceed`, push while there is room, exchange,
pop until nothing is left. `exstack_exchange` is its puts, made one at a time and
landing later (`PutOne`, `LandPut`), what it does around them (`Clear`, `Point`), and
its barriers, each one action of all PEs. With `Answers` the loop is that of
`rand_permp_exstack` in spmat, with a second exchange that carries the answers.
`first_ne_rcv`, `notify_done`, `wait_done` and `fifo` are the variables of the code.

### Exstack2

`Push`, `Proceed`, `Unpop` and the two halves of `exstack2_reset` around its barriers are actions.
`exstack2_pop` is split where other PEs can act: `PopItem`, and when the buffer at hand is empty
the loop that takes messages from the queue (`Activate`), the choice of the
next active buffer (`Pick`) and the recursive call. `exstack2_flush_needed` is one action per PE
that it visits. A send is its steps as others can see them: the data lands, then (a fence
lies between) a position is claimed by an atomic increment of the receiver's counter, then the
message lands there. The receiver may see the counter raised and the message not yet there.
The model is of `exstack2_shmem.c`; the UPC variant has the same control.

### Conveyor and Programs: what clients do

`Conveyor` is a vector conveyor as a client sees it, as a value with functions for the calls: a link is a
buffer at the sender and one at the receiver, of one or two items; when the sender's buffer is full, or its client
is done, or the conveyor is steady, it moves on. So a push fails for the reasons it fails in the code, and an
action of a program can make several calls. Over it:

- `Exchange`: the histogram, and the loops `communicate` and `elasticomm` of the test driver, with a tally conveyor
  that tells how many items to expect.
- `IndexGather`: requests and replies through two conveyors, with unpull of a request that cannot be answered.
- `RandPerm`: darts thrown at a target array, refused darts that are thrown again, and the final copy.
- `TopoSort`: the rows and columns of degree one, with levels, until the matrix is empty.
- `BiTensor`: the asynchronous biconveyor, with its window of tokens, and the loop of `bigather`.
- `AllReduce`: the two all-reduce programs, with their uninitialised counters as a choice.

`Programs` runs one of them at a time.

### Kernels: what computes without communicating

- `ConveyParams`: `convey_parameters` from every combination of a small set of inputs, one action for each
  pass of its loop, `convey_memory_usage`, and what `convey_new` and `convey_new_elastic` hand
  on. A division by zero leads to a state `trapped`. `AvailableOrder` and `Taken` are the hops and the memory of the conveyor that is
  then built, with the local group that the caller asked for. `size_t` does not overflow in the model.
- `ItemRoute`, see above.
- `Codec` and `Packer`: a buffer of packets is spread, its constant bits or bytes are found, the others are
  packed, and all is undone at the receiver. A quad of 4 bytes has 2 bits in the model, so that
  the vector loops keep their shape. `reach` records how far a vector loop has written or read, `area` what memory
  there is.
- `Accel`: which specialised methods a session gets, and that it gives them back.
- `Division`: the reciprocal and the quotient, with integers of `Width` bits.

## 3. The runs

Deadlock is checked in every run but `parts`, `limits` and `tags`, in which what computes ends when it has its result.

| Run | Instance | States | What it shows |
|---|---|---|---|
| `porter_ring` | 2 PEs, ring of 2 buffers of 2 items, nonblocking puts, epush, one stream of up to 4 items, 1 round | 204,000 | `ChannelOrder`, `SourceStable`, `FlowControl`, `UrgentCount`, `LinksSpec` |
| `porter_rounds` | 2 PEs and a rank without PE, single buffers, blocking puts, 2 items one way and 1 back, 2 rounds, fair | 31,000 | `RoundsApart`, `LinksSpec`, `Termination` |
| `porter_steady` | 2 PEs, ring of 4, option PROGRESS, 2 items, no PE finishes, fair | 28,000 | `TypeOK`, `SteadyDelivery` |
| `hops`: Tensor | matrix of 2x2 PEs, links of one buffer of 1 item, 2 items over both hops, unpulls, then 1 item over one hop, 2 rounds, fair | 57,000 | `TensorLinksSpec`, `EndgameInOrder`, `HopsEnd` |
| and MpiPorter | 2 ranks, buffers of 1, 3 items (one more than both buffers take), then 1 item back, 2 rounds, fair | 42,000 | `Requests`, `LinksSpecMpi`, `HopsEnd` |
| `collective`: TwoHop | 4 PEs in 2 rows, plain and steady; buffers of 1; 2 items that meet in one column buffer; 2 rounds, fair | 47,000 | `TypeOK`, `LinksSpec`, `TwoHopProgress` |
| and Exstack | 2 PEs, buffers of 2, 3 items one way and 1 back, one unpop each, 2 rounds, loop with 2 exchanges | 143,000 | `Delivered`, `LandsOnEmpty`, `LeaveTogether` |
| `buffers`: BiSimple | 2 PEs, plain, steady, sorting or both, or under a biconveyor without a sorter whose ring keeps its length and whose clients pull what they asked for; send buffers of 1, circular buffer of 2, 1 item to itself and 2 to the other PE, 2 rounds, fair | 40,000 | `TypeOK`, `LinksSpec`, `AnswersSpec`, `SimpleProgress` |
| and Exstack2 | 2 PEs, buffers of 1, 2 items one way, one unpop each, 2 rounds, fair | 54,000 | `FlowControl`, `LinksSpecEx2`, `Exstack2Ends` |
| `parts`: Elastic | 2 PEs; elastic over SHMEM, over MPI, or trivial; 3 items, each small or large; unpulls; 2 rounds, fair | 28,000 | `LinksSpec`, `ElasticEnds` |
| and Programs | seven programs on 2 PEs, conveyors with buffers of 1 or 2 items, fair | 171,000 | `Results`, `RepliesSpec`, `ProgramEnds` |
| and Kernels | limits, item sizes and groups around the thresholds of `convey_parameters`; all pairs of PEs of a vector of 4, matrices of 12 with both tag widths, a tensor of 22 whose last square is half empty, and the PEs at the edges of groups of a tensor of 595 with 17 in a local group (two-byte tags) and of a matrix of 2x257, elastic ones too; buffers of 2 to 15 items of 1 to 9 quads for both codecs, with different stale workspaces; all shapes of tags and item sizes; all numerators and divisors of 6 bits | 26,000 | `Terminates`, `ItemsArrive`, `CodecCorrect`, `MethodsFit`, `Exact` |

Five runs show a violation, of what the documentation or an assertion of the repository says (section 5): `limits` (`LimitMet`), `tags`
(`OriginsFound`), `scatter` (`RepliesPresent`), `answers` (`OneReplyEach`) and `reduction` (`Sums`).

A property that is a conjunction names its parts: `FlowControl` of PutPorter is that the ring of receive
buffers is never overrun and that acknowledgements on their way are distinct; `RoundsApart` that no traffic of a round
outlives its reset and that drained is final; `Delivered` of Exstack joins types, order and completeness;
`FlowControl` of Exstack2 types, the one credit, the queue, and the assertions of the code;
`Requests` of MpiPorter that no buffer is touched while MPI has it and that nothing is left posted;
`EndgameInOrder` of Tensor that DONE leaves nothing and that no push comes after the end of a porter; `HopsEnd` says `Completes` of Tensor
and `Termination` of MpiPorter; `TwoHopProgress` and `SimpleProgress` say `Progress` of their modules:
completion and, by class of conveyor, delivery by steady ones or an answer to every query; `Results` what each program computes
(of a reduction, that each PE has added what was pushed to it; the rest is `Sums`); `Terminates` that `convey_parameters` returns, and that
`convey_new_tensor` takes what it returns, unless the limit is zero, where it traps.

**Why these bounds are enough to be interesting.** A ring of 2 buffers is used
twice over by 4 items that close their buffers early (epush), so that a slot is
reused while the acknowledgement for its last use may be on its way; a ring of
1 makes every send wait for one. Two rounds are what it takes for traffic of
one round to meet the counters of the next. In Tensor, a link holds a single item,
so that each item must leave the relaying PE before the next fits. In
TwoHop two senders compete for one place behind the pivot, which stops half way. With 2 PEs, exstack2 has two senders for every receiver,
since a PE also sends to itself: they contend for the queue. The lists of Programs send more to one PE than
the buffers at both ends of a link take, and make PEs contend for the same slots, rows and tokens. 3 PEs
give more than 8 million states in exstack2, and are beyond the runs.

**Other bounds.** `Quota` (`ExQuota`, `MpiQuota`, `TensorQuota`) bounds the items of a round, `MaxRounds` (`ExRounds`, `MpiRounds`, `TensorRounds`) the rounds,
`MaxUnpops` the items given back, `MaxRejects` those the driver rejects, `PermSize`, `Throws` and
`Size` the inputs of programs. They bound what clients do, and take nothing from what the library does.
`Patience` in Tensor is the code's own constant 5. In `Tensor`, `Eager` names the PEs whose clients may advance before they
are done; the others only advance when a push fails or when they are done. `Width` of Division
is 6 where the code has 32. In Codec a quad has 2 bits.

### Fairness

- The network delivers: weak fairness of puts, signals, acknowledgements, and of the steps of MPI.
  In PutPorter, MpiPorter and Tensor this is weak fairness of the network as a whole: it delivers as long as
  there is something to deliver, and since what is on its way is finite, all of it.
- A call that has begun goes on: weak fairness of the steps inside a call.
  Barriers open once everybody is there. `convey_parameters` is one loop without a wait.
- A client that has said it is done goes on advancing and pulling: that is the
  loop of every example and application. Pulling is *strongly* fair, as a pull
  is enabled only between two advances, and PEs alternate the two.
- A client is never obliged to push or to give anything back. It may return a buffer to
  the porter that it has not used up, but not for ever (strong fairness of `Take`).
- Clients give items back (unpull) only finitely often: `<>[][~Unpull(p)]_vars` in Simple, TwoHop, Tensor and Elastic.
- `Completes` says that all finish once all have said that they are done. `Termination`,
  in PutPorter, MpiPorter (part of `HopsEnd`), Elastic (`ElasticEnds`) and Exstack2 (`Exstack2Ends`), also assumes that every client says so sooner or later, and that it
  resets and begins the next round. `SteadyDelivery` requires neither.
- In `Tensor`, a buffer is sent when it is in the way of a push or in the
  endgame. Elsewhere a partly full buffer may wait, as in the code.
- In `Programs`, every PE keeps running its program, and nothing else is assumed: its pushes may fail
  for as long as the conveyor is full.

## 4. The proofs

`PutPorterProofs` holds, for every group size, set of live ranks, multiplicity,
buffer size, combination of options, quota and number of rounds:

- **TypeCorrect**: `Spec => []TypeOK`.
- **ChannelOrderHolds**: `Spec => []ChannelOrder`: for every link,
  `delivered <= emitted <= produced`, and `produced - delivered` never exceeds the
  multiplicity. With an open buffer it is below. This is the arithmetic that makes `% multiplicity` of the ring safe
  at the sender: no buffer that is not yet delivered is refilled.

The argument is an inductive invariant, `TypeInv`: the types of all variables, and for
each channel `ChanOK`: the order of its counters, that the buffer being filled is
filled no further than it is long (so that `Written` and `Closed` cut it inside its bounds),
and that a signal is owed only when something was sent. Types alone are not inductive,
since the deliveries and openings of a channel depend on this. There is one lemma for each
operator by which the calls change a channel (`WrittenOK`, `ClosedOK`,
`RecordedOK`, `SentOK`, `OpenedOK`, `ProgressedOK`, `TrySendOK`) saying that it
keeps `ChanOK`; one for every action of the next-state relation, saying that it keeps
`TypeInv`; `TypeInvNext` puts them together, and the two theorems follow by
temporal logic. The assumptions are the named `ASSUME`s of PutPorter, which TLC
evaluates in each run of it.

Its second part goes on to what two PEs and the network do to each other, over any number of
rounds:

- **FlowControlHolds**: `Spec => []FlowControl`: the buffers that a PE has begun to send and its peer
  has not disposed of fit in the ring of the peer, and no two acknowledgements of one level are on their way
  together, though acknowledgements are not ordered.
- **SourceStableHolds**: `Spec => []SourceStable`: no nonblocking put reads the buffer being filled.
- **UrgentCountHolds**: `Spec => []UrgentCount`: `n_urgent` is the number of links with an undelivered ticket.
- **NoStaleTrafficHolds**: `Spec => []NoStaleTraffic`, the first half of RoundsApart.

The core is `Flow`, a statement about one link that names neither PE: the channel of the sender, its copy of what was consumed, the
three sets of puts on their way, the last signal received and the number of buffers disposed of. A level of the ring is
acknowledged as often as the receiver has disposed of it, an acknowledgement on its way is the next of its level, and a buffer is emitted only when
the last one on its level was acknowledged (`Acked`); signals on their way are
newer than the one received, since a fence or a quiet is before each (`Signalled`); a
nonblocking put that has not arrived is of a buffer not known as delivered (`InFlight`). There is one
lemma for each thing that can happen to a link (`FlowSend`, `FlowProgress`, `FlowData`, `FlowSignal`, `FlowAck`,
`FlowReturn`), and `FlowRing`, `FlowDistinct` and `FlowSource` draw the conclusions. `LevelGap` and
`LevelBack` are the arithmetic of `% multiplicity`. The invariant of the group, `FlowInv`, says that `Flow` holds of every
link whose ends are in the same round (`LinkInv`); that around it the PEs pass barrier and
reduction together (`StageInv`), the wires of a PE that is between reset and setup are empty (`WireInv`), and its memory is
as `putp_setup` leaves it until the reduction (`BlankInv`). Without these three a setup would not be a step of the
proof: the memory it zeroes is written by peers.
`UrgentCountHolds` needs none of this, but the cardinalities of the sets that each call of `porter_record_delivery` removes from the links
in need (`ProgressedCount`, `ReplaceCount`, `TrySendCount`, `TicketCount`).

The last part of the module adds the data, and ends with the refinement:

- **RoundsApartHolds**: `Spec => []RoundsApart`: when a porter reports that it is drained, every source
  is done and every item pushed has been taken; no traffic crosses a setup.
- **LinksHold**: `Spec => LinksSpec`: the group implements `FifoLinks`, step by step. A push that finds room is
  `Send`, `porter_advance` with `done` is `Close`, an item taken is `Receive`, the borrow that finds every last signal and no
  buffer is `Drain`, `putp_setup` of one PE is `Restart`, and everything else is hidden from the clients.

Again the core is a statement about one link, `Carries`. There is a function `f` such that buffer `n` holds the
items `f[n]+1 .. f[n+1]` of those pushed: at the sender while it is not delivered (`Filled`), in a blocking put
on its way, or at the receiver, which has used up the buffers before `disposed` and `start` items of the next
(`Arrives`, `Landed`). A signal tells only of buffers that have items, and an odd one is the last: behind it nothing is on
its way and all that was pushed is in the buffers it counts (`Told`). The difficult cases are the
empty buffer that ends a round, which must be the only empty one (a source that closes a buffer before it
is in the endgame has put an item in it), and a nonblocking put, whose items are those of the
send buffer when it arrives: it holds them still because of `FlowControlHolds` and `SourceStableHolds`. One lemma for each thing that happens to a
link (`DataWrite`, `DataClose`, `DataSend`, `DataProgress`, `DataOpen`, `DataArrive`, `DataSignal`, `DataTake`, `DataReturn`), `DataDrained` for the
conclusion. `DataInv` says that `Carries` holds of every link (`CarryInv`), which channels `porter_try_flush` still visits
(`PassInv`), that what a drained porter has seen stays so (`DrainInv`), and how the rounds of two PEs
differ (`FreshInv`, `RoundInv`). `f` is bound in the invariant, so TLC cannot evaluate it; TLC checks its consequences.

`ExstackProofs` proves all three properties of Exstack that the run `collective` checks, for every number of PEs,
buffer size, quota and number of rounds, with the answering half of the loop or
without:

- **DeliveredHolds**: `SpecEx => []Delivered`: every variable has its type, items are popped in
  the order they were pushed, and when two PEs have left the loop all that one pushed to
  the other has been popped.
- **LandsOnEmptyHolds**: `SpecEx => []LandsOnEmpty`: a put never lands on packages that have yet
  to be popped.
- **LeaveTogetherHolds**: `SpecEx => []LeaveTogether`: nobody is left behind at a barrier.

None of the three is inductive, because each depends on where all the other PEs are. The
invariant `ExInv` says it in six parts:

- `ControlInv`: the barriers cut the loop into segments, and all PEs are in the same one (`Together`). A
  step of one PE stays in its segment (`Alone`); only a barrier takes everyone to
  the next (`AtBarrier`). Every later part argues from this: what a PE does tells where the others can be.
- `EndgameInv`: flags are on their way only in the segment before the barrier of
  `exstack_proceed`, so that behind it all PEs see the same `wait_done`
  (`NoticeOK`) and decide the same (`LeavingOK`, `DecideOK`).
- `SendInv` and `RecvInv`: buffers stay within `buf_cnt`; a put carries what its sender holds and
  its place at the receiver is empty; a buffer that is not empty has just been put or is
  being popped (`PutsOK`). What lies before `first_ne_rcv` is empty, so a pop that finds nothing
  has emptied all (`PoppingOK`, `NothingLeft`). LandsOnEmpty is a conjunct of this.
- `RoundInv` and `HeldOK`: PEs in the same segment are in the same round, except
  between a reset and its barrier; a PE that leaves or waits for the next pass holds nothing.
- `PairsOK`: for each link, what was popped, can be popped and has not landed adds up to
  what was pushed (`Account`), and the three carry consecutive items (`HeldValues`, `BufferValues`,
  `GotValues`). A put that lands moves its packages from one side of the sum to the
  other, and finds the receiver in the same round.

Each part has a lemma that every step keeps it, with one lemma per action that can disturb it.

`Exstack2Proofs` proves the flow control of the asynchronous library, for every number of PEs, buffer size, quota and
number of rounds:

- **FlowControlHolds**: `SpecEx2 => []FlowControl`: types; one right to send for each pair of PEs; no position of a
  message queue is claimed twice or written over; the assertions in `exstack2_pop` and `exstack2_reset`.

The right of a PE to send to another is with the sender (`can_send`), with its message on its way (`NoteTo`), in the queue
of the receiver (`QueuedFrom`) or with an active buffer (`ActiveFrom`), and each step that moves it moves it alone
(`PostPairs`, `LandPairs`, `ActivatePairs`, `ReleasePairs`; `Credit` is the part of the invariant). From
this follows why the circular queue is long enough: what has been counted and not made active (`Waiting`) is
held by different PEs (`Ring`, `OneHeld`), so it is at most `N` (`WaitingFew`, a pigeonhole argument) and the position
`num_msgs % QueueLen` that the next sender claims is `Fresh`. `PowerBetween` says that there is a queue length:
a power of two from `2N` to `4N-1`. That a PE with `all_done` gets no more messages, which the second
half of `exstack2_reset` needs, is a count: `num_done_sending` is the number of PEs whose last message has been
taken (`LastCount`, `ActivateCount`), so when it reaches `N` nobody has another one on its way (`AllSent`). When all have arrived at the
first barrier, nothing is left anywhere (`ArrivedQuiet`), and what `Clear` assigns is what a new round starts from
(`Stages`, `SilentTraffic`). `IInv` is the conjunction; one lemma per action keeps it.

The second half of the module adds the data, for the same constants:

- **LinksHold**: `SpecEx2 => LinksSpecEx2`, where `LinksSpecEx2` is `LinksEx2!Spec` of `FifoLinks`. A pop takes the next item
  pushed on its link, an unpop gives back the last one, `exstack2_proceed` returns 0 only when nothing is left to pop
  and nothing can come, and a reset starts every link anew without mixing rounds.

The invariant is `LInv`: `IInv`, and for each link a `Stream`. The client has the first items (`InOrder`), the active
buffer holds what follows (`AtHand`), then comes the one buffer that the credit allows, on its way (`Coming`) or in the queue
(`Stored`), or there is none (`Nothing`), and last what has not been sent (`Unsent`). The counts add up to what was
pushed (`Accounts`). Where the packages of that buffer are depends on whether the data or only the message is on its
way (`Carries`, `Landed`); since `exstack2_send` fences between the two, a message never has a position in the queue
before its data has landed (`Errand`). That an item can be given back needs `Undoable`: the package before `pop_ptr`
is still the last one popped. A step changes one link, and the others stay `Alike` (`AlikeStream`); one lemma per action says what
happens to the link that changes (`SendStream`, `DataStream`, `LandStream`, `PopItemStream`, `UnpopStream`, `ActivateStream`). `ProceedDrains` is the conclusion that
matters most: when `num_done_sending` has reached `N` and no buffer is active, `AllSent` leaves neither data nor message
on the way, and a flushed send buffer is empty (`Emptied`), so all that was pushed has been popped.
`Clear` is the restart of one PE, and the two barriers keep any two PEs within one round of each other (`Rounds`).
Without them the packages of a new round could meet those of the last one. TLC found no violation of `LInv` on the instance of
`Exstack2` in the run `buffers`, with buffers of two packages.

`ElasticProofs` proves, for every number of PEs, choice of the large items, kind (SHMEM, MPI or trivial), room in the
conveyor underneath, quota and number of rounds:

- **LinksHold**: `Spec => LinksSpec`: elastic conveyors implement `FifoLinks`, for small and large items together.

The invariant is `LInv`. What was pulled, what the borrowed buffer still holds and what is on the link are the items pushed, in
this order (`Stream`), but a ticket is not an item. `StandsFor` says where its item is: in `outgoing` of the sender, which must not have another one on the
way (`Busy`), or, after `monster_unpull`, in `incoming` of the client (`PutBackAt`). So only one
ticket of a sender can be on all its links together, and a push of a large item, which overwrites `outgoing`, needs that there is none. That `bigsent <= bigrcvd` says so, rests on
`Requested`: acknowledgements on their way are of the last item sent, at most one, and none when the counters agree. A `Pulls` takes the first packet of a link,
from the buffer at hand or a new one (`PullHeldMoves`, `PullNextMoves`); `PullFinds` is the conclusion that matters most, that what is fetched
is the item of this ticket, and that nothing is fetched again that was put back. `Hand` says when the packet before `next` is the one
pulled last, so that it can be given back (`UnpullSelf`). `Single` is the trivial conveyor, which has one item and no links. `Ended` is what a PE knows when it is
drained or complete, `Common` that resets are common to all. TLC has checked `LInv` on two PEs with up to two items for a link.

`MpiPorterProofs` proves, for every number of PEs, size of the buffers, quota and number of rounds:

- **RequestsHold**: `SpecMpi => []Requests`: no buffer is filled while MPI may read it, no request is overwritten by the
  next one of its link, and between rounds MPI holds no receive, no message and no send of the group.
- **LinksHold**: `SpecMpi => LinksSpecMpi`: the group over MPI implements `FifoLinks`.

That a send buffer is left alone follows from counters (`Counts`): a buffer is opened when at most one is not delivered, and there is one
request. The other half of `Requests` is about the end of a round, and needs to know that *flushed* and *drained* together leave
nothing behind: `Link` says it. The buffers of a link cut the items pushed on it into pieces, and the pieces are, in
this order, in `got`, in the receive buffer, on their way (`Mailed`) and in the send buffers (`Holds`); the witness in `Wire` is where
the cuts are. A receive is posted only when the receive buffer is free and the link is not finished
(`Posted`), so `Match` never overwrites items; the message that is marked as the last is the last
one read, and nothing is on its way behind it (`Over`), so a finished link has delivered all (`WireOver`). The rest of
the invariant is what borrows and lists mean (`ListInv`), what flushed and drained stand for (`EndInv`), and that the barriers
keep the rounds together (`RoundInv`, `FreshInv`). One lemma per action keeps it; those on one link (`WirePush`, `WireFlush`, `WireRead`,
`WireMatch`, `WireBorrow`, `WireTake`, `WireReturn`) name no PE. TLC has checked the invariant, with the cuts limited to small numbers, on
the instance of the run and on one with a rank without PE, before it was proved.

`BiSimpleProofs` proves, for every number of PEs, capacity of the send buffers and of the circular buffer, set of options, quota
and number of rounds, of `SpecBi` (the run adds fairness):

- **TypeCorrect**: `SpecBi => []TypeOK`: no buffer overflows, not in the flush of a sorter, which stops behind the item that fills one,
  nor as queries are answered into the send buffers.
- **LinksHold**: `SpecBi => LinksSpec`: the simple conveyor implements `FifoLinks`, plain or under a biconveyor, whose PEs take a query
  when they answer it.
- **AnswersHold**: `SpecBi /\ []CleanStart => AnswersSpec`, for any options, rings of any lengths and any client: each client of a biconveyor
  pulls one reply for each query, made by the PE that was asked, in the order of its pushes, as long as every session begins
  with no reply left and with a position `eldest` within its own ring (`CleanStart`). `bisimple_reset` and `bisimple_begin` see to neither (section 5).
  Rounds are numbered from 1, so it also says that there is one.
- **DrainedAnswersHold**: if clients pull all their replies before they reset (`PullsAll`) and no session has a shorter ring than an earlier
  one (`RingKept`), then `SpecBi => AnswersSpec`. So this is what a user of the code has to keep to.
- **RepliesFound**: if no option of a biconveyor is SCATTER, `SpecBi /\ []CleanStart => []RepliesPresent`: the assertion
  in `bisimple_advance` holds.

With a sorter that assertion may fail, and the program stops: `Stopped` describes these states, and the invariant is
`IInv \/ Stopped`. The first two theorems hold through such a stop.

A link is four containers one behind the other: what was taken, the receive buffer, the send buffer, and those entries of the circular
buffer that are for the destination. `Chain` says that together they hold 1, 2, 3, ... up to the number of items pushed,
and names no PE; one lemma for each thing that happens to it (`ChainDirect`, `ChainCircle`, `ChainMove`, `ChainTake`,
`ChainBack`, `ChainExchange`, `ChainEmptied`). A flush is as many `ChainMove`s as there are entries that move on: an induction over
the recursive function in `Flushed` (`AfterChain`), and a count that shows that no buffer gets more than `Capacity`, as the flush stops
at the first that is full (`FlushRoom`, `FlushCountIs`; `LeastNumber` picks it). An exchange needs
its destinations to have read everything: `Course` says what the vote of a PE at the reduction stands for, and that what lies below `pull_from` is
read. That `convey_DONE` leaves nothing is `Ending`: once one PE is quiet, all are done and have empty send and circular buffers, until the
barrier of the next round. `Answering` says that while queries are answered the send buffers hold replies to what was read from the same
PE, so as many as the receive buffer can hold. TLC has checked `IInv` on the instance of the run.

For the answers `AInv` is added to it. The queries of a client in a session are, from the first to the last, those whose replies it has taken,
those whose replies are in its ring (`InRing`), and those in `replay`, which have no reply yet (`InBuffers`): the j-th of these, for
target d, is the item of the buffer for d at the place that counts the targets d among the first j. That buffer is the send buffer
until the exchange and then the receive buffer of d, where `Answering` finds the replies next to it. When they come back, `ReplyPlaced` says that
the reply to the i-th query of `replay` is gathered from the right place, and goes to the i-th place behind the ring, once around at most;
places do not collide, as a query is only taken when its reply has room (`Places`, `Turn`). TLC has checked `AInv` too, with a ring that
gets longer.

`TwoHopProofs` proves, for every matrix of PEs, size of the row and column buffers, quota and number of rounds, steady or not:

- **TypesHold**: `Spec => []TypeOK`: no packet is written beyond the end of a buffer, not in a pivot, which stops at the
  first packet whose column buffer is full; what is pulled is within what has come.
- **LinksHold**: `Spec => LinksSpec`: the two-hop conveyor implements `FifoLinks`.

An item that was pushed and not pulled is in one of three buffers: the row buffer of its source, the one that the PE at the corner
(in the row of the source and the column of the destination) has received, or the column buffer of its destination. `Flow` says, of one source and
one destination, that read from the last to the first these hold the items that follow those pulled, in order and without a gap, and names no PE;
`ReadBack` says that what was pulled of the column buffer can be put back, the last item first. One lemma for each thing that happens to
a flow (`FlowPush`, `FlowPull`, `FlowUnpull`, `FlowRow`, `FlowColumn`, `FlowEnd`). The difficult case is the pivot. Each PE empties a prefix of its slots
(`MovedFits`), so of the packets from one column for one row it takes the first ones and leaves the others in place
(`PivotedItems`, `UnmovedHolds`), whatever packets of others lie between; that the k-th packet of a column buffer comes from the k-th slot for its row
is counting (`CountReached`, `PivotedPackets`). `Course` says where a PE is in its round and what its vote stands for: an exchange
overwrites column buffers, and needs that all have read theirs (`AllRead`). `Ending` says what the flags mean for all PEs: the
row buffers are exchanged only when all has been pivoted everywhere, and one PE that is quiet in both dimensions knows that nothing is left anywhere
(`Arrived`). TLC has checked `IInv` on the instance of the run and on one with row buffers of two packets.

`KernelProofs` proves what the run `parts` checks of Kernels, but for the codecs and the search for parameters. The routes of items, for conveyors of every size:

- **ItemsArriveHolds**: `KernelSpec => []ItemsArrive`: with 1, 2 or 3 hops, elastic or not, with tags
  as short as can be or not, an item is pulled at its destination; on the way every rank is one of its group and stands for a PE
  (also when the last layer of a tensor is not complete), and both ends of a hop agree on it. Its puller is told the PE
  that pushed it wherever the tag has room for the rank that it is to hold (`SenderFits`).
- **OriginsFoundIfNarrow**: if matrices with short tags have local groups of at most 256 PEs, or more than 256 groups (`NarrowMatrices`),
  `KernelSpec => []OriginsFound`: every puller is told the right PE. The code does not check the condition, and the run `tags`
  shows an item with a wrong origin where it is not met (section 5).

The invariant `PathInv` says, for every hop, where the item is and what its source and
tag are, in terms of the digits of both ends in base `n_local` (`Upper`, `Middle`, `Lower`).
`ThreeDigits`, `DigitsOf` and `Rows` are the arithmetic: a number has one expansion, and PEs of a row
exist together. `TensorKept` and `MatrixKept` say that a tag, cut to the bytes that `tensor.c` gives it, loses
nothing, but for that of the second hop of a matrix, for which `SenderFits` is there. `PushStep`, `PivotStep` and `PullStep` keep the invariant. It rests on `ShapesAssumption`, which says what
`convey_new_tensor` and its siblings check or arrange, and no more.

Two computations, for all their inputs:

- **MethodsFitHolds**: `KernelSpec => []MethodsFit`: the tables of accelerated methods against what the porters do. For every
  item size, what a selection finds is the standard method or one compiled for the order, the tags and the size at
  hand (`PushSelected`, `PullSelected`, `MidSelected`, `EarlySelected`, `LateSelected`), and its stride is that of the porter
  (`StrideOfPacket`). `AccelAssumption` lists the tags that `tensor.c` chooses.
- **ExactHolds**: `KernelSpec => []Exact`: division by multiplication, for words of every width. `Reciprocal` bounds the error of
  the rounded reciprocal, `ByReciprocal` shows that it is too small to reach the next quotient, `PreparedDivides`
  joins the cases of `prep`. The powers of two are those that count subsets (`PowerDoubles`), since TLAPS knows no others.

Where these need induction they use the least counterexample (`LeastNumber`), as `PowerBetween` does in Exstack2Proofs.

**Only model-checked:** everything else in section 3. Liveness (`Termination`,
`SteadyDelivery`, `HopsEnd`, `TwoHopProgress`, `SimpleProgress`, `Exstack2Ends`, `ElasticEnds`, `ProgramEnds`, `Terminates`) is outside what TLAPS does. That PutPorter, MpiPorter, Exstack2,
Elastic, TwoHop and the simple conveyor refine FifoLinks is proved, and that BiSimple refines AnswerQueue where sessions begin clean; the refinements of Tensor and
BiTensor are only checked. The search of ConveyParams (what it ends with is part of `Terminates`) and the programs are only checked. So are the computations of Codec:
they are folds and sequences over data, out of reach for the installed provers.

## 5. Findings and observations

Disagreements of the code with its documentation, its assertions or itself, met while modelling.

Five runs expect a violation. Each states what a document or an assertion of the repository says, on the model
of the code as it is, and TLC finds a behaviour that breaks it. `PROJECT.json` lists them under "findings".

- `limits` (`LimitMet`), `convey.c:382` against `convey.h:118-121`: `convey_parameters` may lower `n_local` to meet the
  limit, but in a local copy. `convey_new` builds with the value that it was given, and the conveyor can take more than `max_bytes` though
  a smaller capacity would have met it.
  A limit of 0 is another matter: `convey.c:403` divides by it and the program stops (state `trapped`), where `convey.h:120-121` promises a conveyor
  with as little memory as possible. `Terminates` in the run `parts` says that exactly this limit leads there and every other one to parameters
  that can be built; with `Limits = {0}` in the run `limits`, TLC finds `LimitMet` violated by the trap.
- `tags` (`OriginsFound`), `tensor.c:499-500` against `convey.h:211`: one-byte tags for the remote porter of a matrix with at
  most 256 rows, though what the tag holds after the first pivot is a rank within the local group (`pivot.h:41`). In a matrix of 2 groups of
  257 PEs the puller is told a wrong origin. `OriginsFoundIfNarrow` says that it takes such a matrix.
- `scatter` (`RepliesPresent`), `bisimple.c:239-240` and `biconvey.h:73` against the assertion of `bisimple.c:112`: with `convey_opt_SCATTER`
  queries may still be in the sorter at an exchange, and have no reply when one is looked for.
- `answers` (`OneReplyEach`), `bisimple.c:107` and `:169` against `biconvey.h:18-20` and `:147`: the position `eldest` outlives the session, while the ring of the next session
  is shorter when its replies are larger. A client pulls an entry of the ring where no reply of its session is.
  A second cause is `bisimple_reset` (`bisimple.c:182-192`), which also keeps the count of replies not yet pulled: with `Limit <- SameLimit` and
  `PullsAll = FALSE` in the same run, a client that asked nothing in its second session pulls a reply.
  `DrainedAnswersHold` says that there is no third cause.
- `reduction` (`Sums`), `src/all-reduce/data_pe.cpp:51`, `:89` and the same lines of `pe_data.cpp` against the assertion of `:122` in both:
  they read a counter that is not initialised, so entries may be left out of the sum or of the result.

The rest was read off the code.

On conveyors:

- `convey.c:403` may also raise the capacity.
- `convey_new_elastic` passes `n_local = 0` on (`convey.c:465`), for which
  `convey.h:130` and `:149` give two meanings.
- `convey.c:151`: `convey_begin` enters state working even when the begin method of the class has failed.
- `tensor.c:255` says that advance is not called in state complete;
  `convey.c:155-164` does call it.
- `convey.h` allows `convey_reset` only when complete; `convey.c:180` also accepts
  a dormant conveyor.
- `elastic.c`: a pull of an item of the wrong size (MISFIT) consumes it; the NEAR branch of `elastic_advance` cannot be
  reached. `trivial_unpull` after the item has been given back once makes an item out of nothing.
- `mpiport_return` keeps a buffer that is only partly used at the head of the list, where `putport.c` goes on to the next source.
- `sorter.h` declares `int sorter_flush` and `sorter.c` defines it as `bool`; `circle.c` is built in its place.
- `simple_push` does not count pushes when it has a sorter (`simple.c:155-163`, `:171`).
- `packer.c`: `repack_16to12` relies on the padding of an item being zero, which holds because the
  decompression restores the zeros that the sender put there.

On biconveyors:

- `bisimple_advance` may return `convey_DONE` while replies are left to pull (`convey.h:264-266`); `bitensor.c:147` withholds
  it.
- The window of `bitensor.c` counts a query from its push until its reply is pulled, which is on the safe side.

On exstack:

- `exstack_min_headroom` adds up what its comment calls a minimum
  (`exstack.upc:333`, `:345`).
- `exstack2.upc:417` says "we will succeed this time" of a recursive pop, which may
  still fail when the message has not come.

On programs:

- `GLOBAL_BUFFER` of `data_pe.cpp` and `pe_data.cpp` is never freed.
- `triangles.cpp:99-108` pulls in a loop whose condition does not change, and the count of `:173-174` is never stored.
- The mains of `topo.cpp` and `histo.cpp` have the calls of their conveyor versions commented out.
- `histo.cpp`, `ig.cpp` and `bigather.c` take an error of `convey_push` (a negative number) for a success;
  `randperm.cpp:201` pulls until 0 and does not compare with `convey_OK`.
- The parameter `reject` of `communicate` in the test driver is not used.
- `topo.cpp`: the level of a row may be raised by the deletion of its own column, without harm.

## 6. What is not modelled

- Allocation, failure of allocation, and construction, except for the choice of
  parameters. So the state that a failed `convey_begin` leaves
  (`convey.c:149-151`) is not covered.
- The message-passing layer (`mpp2shmem.c`, `mpp2mpi.c`, ...) and libgetput: wrappers. What their calls promise is
  part of the modules that make them: a barrier is one action of all PEs, a reduction is complete at once.
- `tensor_apull`, which lends an item of the buffer at hand; the options DYNAMIC (buffers given back between rounds)
  and item sizes that change from round to round in the collective conveyors.
- Fault tolerance: the code has none. A put or message that is lost, or a PE that dies, stops the program.
- spmat beyond the random permutation, which `randperm.cpp` shares: permuting and transposing a matrix are loops like the ones of
  `Programs`. Input, output and generators of matrices are data.
- The triangle programs, whose conveyor loop does not end (section 5), the programs over other libraries than conveyors,
  get and put through conveyors, and `src/termination`, which only measures barriers.
- Statistics, logging, error texts, argument parsing and timing; the build system.

## 7. Plan

Done: everything in section 2, and the proofs of section 4. What would come next:

1. Theorems: that Tensor refines FifoLinks; that the replies of a tensor biconveyor come in order.
2. An instance of Tensor with three hops, and wider contention (PEs whose items meet in one relay), which
   take more than a run allows today.
3. The triangle programs, once their loop is settled; get and put through conveyors.
