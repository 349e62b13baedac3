----------------------------- MODULE FencedLease -----------------------------
(***************************************************************************)
(* What every leased piece of work in this system promises: a resource is  *)
(* granted under a token that is larger than any token it was granted      *)
(* under before, and only the latest grant can commit the work, once.      *)
(* Grants are lost at any moment (a lease expires, its holder fails, an    *)
(* operator cancels), and a grant may replace one that is still held: the  *)
(* claim of an execution takes over a claim that expired.                  *)
(*                                                                         *)
(* The modules of the system that lease work INSTANCE this one with a      *)
(* refinement mapping and have its Spec as a property.                     *)
(***************************************************************************)
EXTENDS Integers

CONSTANTS Resources

VARIABLES
    token,         \* no grant of the resource had a larger token so far
    held,          \* whether that grant is still held
    won            \* the tokens of the grants that committed

vars == <<token, held, won>>

Init ==
    /\ token \in [Resources -> Nat]
    /\ held = [r \in Resources |-> FALSE]
    /\ won = [r \in Resources |-> {}]

Grant(r) ==
    /\ won[r] = {} /\ won'[r] = {}
    /\ token'[r] > token[r] /\ held'[r] = TRUE

Lose(r) ==
    /\ held[r] /\ held'[r] = FALSE
    /\ token'[r] >= token[r] /\ won'[r] = won[r]

Commit(r) ==
    /\ held[r] /\ held'[r] = FALSE
    /\ token'[r] = token[r]
    /\ won[r] = {} /\ won'[r] = {token[r]}

\* The token of work that nobody holds may be burnt.
Rest(r) ==
    /\ token'[r] = token[r] \/ (token'[r] > token[r] /\ ~held[r])
    /\ held'[r] = held[r] /\ won'[r] = won[r]

\* One step may end many grants: an operator cancels a whole Run.
Next ==
    /\ token' \in [Resources -> Nat]
    /\ \A r \in Resources : Grant(r) \/ Lose(r) \/ Commit(r) \/ Rest(r)

Spec == Init /\ [][Next]_vars
=============================================================================
