------------------------------ MODULE MCPlatform ------------------------------
(***************************************************************************)
(* An instance of Platform for model checking.                             *)
(***************************************************************************)
EXTENDS Platform, MCAdminUpgrade, TLC

\* Two calls with one key and one with its own.
CallWays == [c \in Calls |-> CASE c = "first" -> {"json"}
                               [] c = "again" -> {"json", "embed"}
                               [] OTHER -> {"stream", "embed"}]
CallKey == [c \in Calls |-> IF c = "again" THEN "first" ELSE c]

\* One reservation fits beside what a small answer used, two do not.
PolicyLimit == [p \in Policies |-> 3]
PolicyAmount == [p \in Policies |-> 2]

\* A wait that is older than two of the same moment.
WaitAge == [s \in Waits |-> IF s = "s1" THEN 1 ELSE 2]

\* The calls that deliver events, the requests that report on nodes and two
\* processes of one node are interchangeable.
PlatformSymmetry == Permutations(Callers) \cup Permutations(Reports) \cup Permutations(Runners)

===============================================================================
