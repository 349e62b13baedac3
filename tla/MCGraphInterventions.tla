------------------------- MODULE MCGraphInterventions -------------------------
(***************************************************************************)
(* A plan for model checking GraphInterventions.                           *)
(***************************************************************************)
EXTENDS GraphInterventions

\* start fans out to the branches a, b and c, which meet again in join.
TridentEdges == {"start"} \X {"a", "b", "c"} \cup {"a", "b", "c"} \X {"join"}

\* The branch c is taken only when its condition holds.
ConditionalC == {<<"start", "c">>}

Majority == [k \in Keys |-> "QUORUM"]

One == [k \in Keys |-> 1]

NoEffect == [k \in Keys |-> "NONE"]
===============================================================================
