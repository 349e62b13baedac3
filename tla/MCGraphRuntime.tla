--------------------------- MODULE MCGraphRuntime ---------------------------
(***************************************************************************)
(* Plans for model checking GraphRuntime.  Every configuration names the   *)
(* plan it uses: its edges, its join strategy and its wait nodes.          *)
(***************************************************************************)
EXTENDS GraphRuntime, TLC

\* start -> end
ChainEdges == {<<"start", "end">>}

\* start -> human -> end
WaitEdges == {<<"start", "human">>, <<"human", "end">>}

\* start fans out to the branches a and b, both exits.
ForkEdges == {<<"start", "a">>, <<"start", "b">>}

AllOf == [k \in Keys |-> "ALL"]

One == [k \in Keys |-> 1]
Two == [k \in Keys |-> 2]

NoEffect == [k \in Keys |-> "NONE"]
RiskyEnd == [k \in Keys |-> IF k = "end" THEN "NON_IDEMPOTENT" ELSE "NONE"]

CallSymmetry == Permutations(Workers) \cup Permutations(Digests)
=============================================================================
