------------------------------ MODULE MCBiSimple ------------------------------
(***************************************************************************)
(* Instances of BiSimple for TLC.                                          *)
(***************************************************************************)
EXTENDS BiSimple

AllOptions == [scatter : BOOLEAN, steady : BOOLEAN]
NoScatter  == [scatter : {FALSE}, steady : BOOLEAN]

\* PE 0 has more items than fit into the circular buffer and a send buffer
\* together, for two targets; PE 1 has none.
Stream == << <<1, 2>>, <<0, 0>> >>

ClientQuota == [p \in PE |-> [d \in PE |-> Stream[p + 1][d + 1]]]

\* The ring is as long in both sessions, or shorter in the second one, where
\* replies are larger.
SameLimit    == <<2, 2>>
ShorterLimit == <<3, 2>>
=============================================================================
