------------------------------ MODULE MCPrograms ------------------------------
(* Instances of Programs for TLC, for two PEs *)
EXTENDS Programs, TLC

\* Both PEs send to both; the items of PE 0 for PE 1 fill more than a buffer at
\* either end of the link.
MCUpdates == (0 :> <<[pe |-> 1, slot |-> 0], [pe |-> 1, slot |-> 1],
                     [pe |-> 0, slot |-> 0], [pe |-> 1, slot |-> 0]>>) @@
             (1 :> <<[pe |-> 0, slot |-> 1], [pe |-> 1, slot |-> 1]>>)

\* PE 0 requests more of PE 1 than fits the buffers of the replies.
MCIndex == (0 :> <<1, 3, 1, 0>>) @@ (1 :> <<0, 1>>)

\* Both PEs throw at the same slots first, and PE 0 throws more at PE 1 than
\* fits the buffers of the replies.
MCThrows == (0 :> <<1, 3, 1, 3, 5, 0, 2, 4>>) @@ (1 :> <<1, 0, 3, 2, 5, 7>>)

\* Rows that get a level from one PE while another, slower one has a column of
\* a lower level for them; and rows that do not depend on each other.
MCMatrices == {{<<1,0>>, <<3,1>>, <<2,0>>, <<2,2>>, <<0,1>>, <<0,2>>, <<0,3>>},
               {<<0,1>>, <<1,0>>, <<2,3>>, <<3,2>>}}

\* More queries to the other PE than fit the buffers of the replies, and than
\* the window of tokens takes.
MCQueries == (0 :> <<1, 1, 1, 0, 1>>) @@ (1 :> <<0, 1>>)
=============================================================================
