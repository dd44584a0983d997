------------------------------- MODULE Kernels -------------------------------
(***************************************************************************)
(* The parts of the conveyor package that compute without communicating,   *)
(* side by side: a behaviour is one of them at work.  Each is a module of  *)
(* its own, whose variables the others leave idle.                         *)
(***************************************************************************)
EXTENDS Integers

CONSTANTS SizeMax, Limits, ItemBounds, Groups, PerNode, Preferred,   \* ConveyParams
          Shapes,                                                    \* ItemRoute
          Inputs,                                                    \* Codec
          Widths, ItemSizes,                                         \* Accel
          Width                                                      \* Division

ASSUME SizeAssumption == /\ SizeMax \in Nat
                         /\ Limits \subseteq 0 .. SizeMax
                         /\ ItemBounds \subseteq Nat
ASSUME GroupAssumption == /\ Groups \subseteq (Nat \ {0}) \X Nat
                          /\ \A group \in Groups : PerNode[group[1]] \in Nat \ {0}
\* What convey_new_tensor, tensor_new and convey_new_etensor check or arrange.
ASSUME ShapesAssumption == \A h \in Shapes :
  /\ h.procs \in Nat \ {0} /\ h.local \in Nat \ {0} /\ h.order \in 1 .. 3
  /\ h.shrink \in BOOLEAN /\ h.elastic \in BOOLEAN /\ (h.elastic => ~h.shrink)
  /\ h.ends \subseteq 0 .. h.procs-1
  /\ h.order > 1 => h.local > 1 /\ h.procs % h.local = 0 /\ h.procs > h.local
  /\ h.order = 3 => h.procs > h.local*h.local /\ h.local <= 256
ASSUME PreferredAssumption == Preferred \subseteq Nat \ {0}
\* The tags that vector_new, matrix_new and tensor_new choose; convey_begin
\* rejects items without bytes.
ASSUME AccelAssumption ==
  /\ Widths \subseteq {<<0>>, <<4>>, <<4, 1>>, <<4, 4>>, <<4, 1, 4>>, <<4, 2, 4>>,
                      <<4, 4, 4>>}
  /\ ItemSizes \subseteq Nat \ {0}
ASSUME WidthAssumption == Width \in Nat \ {0}

VARIABLE kernel   \* the module at work
VARIABLES builder, asked, max_bytes, n_procs, built_local,
          n_local, capacity, n_buffers, order, step, pc
VARIABLES shape, src, dest, here, hop, source, tag, from
VARIABLES input, stage, work, pattern, sent, reach, area
VARIABLE conveyor
VARIABLES divisor, answer

Params   == INSTANCE ConveyParams
Journey  == INSTANCE ItemRoute
Codec    == INSTANCE Codec
Accel    == INSTANCE Accel
Division == INSTANCE Division

paramsVars   == <<builder, asked, max_bytes, n_procs, built_local, n_local, capacity,
                  n_buffers, order, step, pc>>
routeVars    == <<shape, src, dest, here, hop, source, tag, from>>
codecVars    == <<input, stage, work, pattern, sent, reach, area>>
divisionVars == <<divisor, answer>>
kernelvars == <<kernel, paramsVars, routeVars, codecVars, conveyor, divisionVars>>

Idle == "idle"

ParamsIdle ==
  /\ builder = Idle /\ asked = Idle /\ max_bytes = Idle /\ n_procs = Idle
  /\ built_local = Idle /\ n_local = Idle /\ capacity = Idle /\ n_buffers = Idle
  /\ order = Idle /\ step = Idle /\ pc = Idle
RouteIdle    == /\ shape = Idle /\ src = Idle /\ dest = Idle /\ here = Idle
                /\ hop = Idle /\ source = Idle /\ tag = Idle /\ from = Idle
CodecIdle    == /\ input = Idle /\ stage = Idle /\ work = Idle /\ pattern = Idle
                /\ sent = Idle /\ reach = Idle /\ area = Idle
AccelIdle    == conveyor = Idle
DivisionIdle == divisor = Idle /\ answer = Idle

KernelInit ==
  /\ kernel \in {"params", "route", "codec", "accel", "division"}
  /\ IF kernel = "params"   THEN Params!Init           ELSE ParamsIdle
  /\ IF kernel = "route"    THEN Journey!Init          ELSE RouteIdle
  /\ IF kernel = "codec"    THEN Codec!CodecInit       ELSE CodecIdle
  /\ IF kernel = "accel"    THEN Accel!AccelInit       ELSE AccelIdle
  /\ IF kernel = "division" THEN Division!DivisionInit ELSE DivisionIdle

ParamsStep ==
  /\ kernel = "params" /\ (Params!Accept \/ Params!Reduce)
  /\ UNCHANGED <<kernel, routeVars, codecVars, conveyor, divisionVars>>
RouteStep ==
  /\ kernel = "route" /\ (Journey!Push \/ Journey!PivotOn \/ Journey!Pull)
  /\ UNCHANGED <<kernel, paramsVars, codecVars, conveyor, divisionVars>>
CodecStep ==
  /\ kernel = "codec" /\ Codec!CodecNext
  /\ UNCHANGED <<kernel, paramsVars, routeVars, conveyor, divisionVars>>
AccelStep ==
  /\ kernel = "accel" /\ (Accel!Begin \/ Accel!Reset)
  /\ UNCHANGED <<kernel, paramsVars, routeVars, codecVars, divisionVars>>
DivisionStep ==
  /\ kernel = "division" /\ Division!Divide
  /\ UNCHANGED <<kernel, paramsVars, routeVars, codecVars, conveyor>>

KernelNext == ParamsStep \/ RouteStep \/ CodecStep \/ AccelStep \/ DivisionStep

\* convey_parameters() is one loop without a wait: it goes on once begun.
KernelSpec == KernelInit /\ [][KernelNext]_kernelvars /\ WF_kernelvars(ParamsStep)

-----------------------------------------------------------------------------
(* The properties of the modules, each while its module is at work *)

\* convey_parameters() returns, with parameters that convey_new_tensor() takes,
\* whenever the limit leaves anything at all.  Step 3 divides by a limit of zero,
\* which no conveyor meets: there the program ends in a trap.
Terminates == kernel = "params" ~>
  /\ kernel = "params"
  /\ IF max_bytes = 0 THEN pc = "trapped" ELSE pc = "done" /\ Params!Constructible

\* The promise of convey_new() (convey.h:118-121): a conveyor is built, and it
\* takes no more memory than the limit if any available one does, or else as
\* little as possible.
LimitMet == kernel = "params" /\ builder = "ordinary" =>
              /\ pc # "trapped"
              /\ pc = "done" => Params!WithinLimit

\* An item is pulled at its destination.  On its way every hop leads to a rank
\* of its group and to a PE that exists, and both of its ends agree on it: an
\* acknowledgement reaches the PE that sent the item.  Its puller learns which PE
\* pushed it, if the tag of a matrix has room for the rank it is to hold.
ItemsArrive == kernel = "route" =>
  /\ Journey!RightPlace /\ Journey!RanksExist /\ Journey!HopsAreMutual
  /\ Journey!SenderFits => Journey!RightOrigin

\* The promise of convey_pull() (convey.h:211): the puller of an item learns the
\* PE that pushed it, whatever the shape of the conveyor.
OriginsFound == kernel = "route" => Journey!RightOrigin

\* Compressed or not, the items that a PE pulls from a buffer are those that
\* were pushed into it, whatever their number and size, and whatever an earlier
\* use has left in the workspace.  Only what varies between them is sent, and no
\* vector loop, though it goes beyond what it is asked to, leaves the buffers.
CodecCorrect == kernel = "codec" => Codec!Restored /\ Codec!Tight /\ Codec!InBounds

\* A specialised method of a conveyor takes for granted what its porters do.
MethodsFit == kernel = "accel" => Accel!MethodsFit

\* Division by multiplication is exact.
Exact == kernel = "division" => Division!Exact
=============================================================================
