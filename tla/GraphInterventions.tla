-------------------------- MODULE GraphInterventions --------------------------
(***************************************************************************)
(* Operators who act on a Run of GraphRuntime while its workers do:        *)
(* reassign_attempt and skip_node of src/scripts/lib/graph_runtime.py.     *)
(*                                                                         *)
(* Each reads the row it decides on without a lock and then updates        *)
(* several rows, most of them under a condition of their own.  An          *)
(* intervention is therefore two actions, its read and its transaction's   *)
(* updates, and anything may happen in between.                            *)
(***************************************************************************)
EXTENDS GraphRuntime

CONSTANTS
    Interventions, \* the interventions the operators use
    OperatorBound  \* model bound: interventions in a behaviour

ASSUME InterventionAssumption ==
    Interventions \subseteq {"reassign", "skip"} /\ OperatorBound \in Nat

VARIABLES
    reading,       \* interventions that passed their check, not yet applied
    recorded       \* number of rows in GRAPH_INTERVENTIONS

operatorVars == <<reading, recorded>>

InterventionInit == Init /\ reading = {} /\ recorded = 0

Decide(op, subject) ==
    /\ op \in Interventions /\ Cardinality(reading) + recorded < OperatorBound
    /\ reading' = reading \cup {<<op, subject>>}
    /\ UNCHANGED <<vars, recorded>>

\* The status the operator saw.
ReadAttempt(a) == aStatus[a] = "RUNNING" /\ Decide("reassign", a)
ReadNode(k) ==
    /\ node[k] \notin {"NONE", "SUCCEEDED", "SKIPPED", "CANCELLED"}
    /\ Decide("skip", k)

\* _intervention_tx, in the transaction that applies intervention i.
Record(i) == reading' = reading \ {i} /\ recorded' = recorded + 1

\* Mutant: the Attempt is fenced whatever became of it.
FencedAlways(a) == "STALE"

\* The Attempt an operator takes away, unless it ended meanwhile.
Fenced(a) == IF aStatus[a] = "RUNNING" THEN "STALE" ELSE aStatus[a]

\* reassign_attempt: the node goes back to the queue, whoever holds it by now.
Reassign(a) ==
    LET k == aKey[a]
    IN  /\ <<"reassign", a>> \in reading /\ Unlocked(k)
        /\ aStatus' = [aStatus EXCEPT ![a] = Fenced(a)]
        /\ revoked' = [revoked EXCEPT ![a] = TRUE]
        /\ ready' = [ready EXCEPT ![k] = IF @ \in {"CLAIMED", "WAITING"} THEN "READY" ELSE @]
        /\ node' = [node EXCEPT ![k] = IF @ \in {"RUNNING", "WAITING"} THEN "READY" ELSE @]
        /\ Record(<<"reassign", a>>)
        /\ UNCHANGED <<run, usage, seq, writer, output, fence, wait, join, inputs, made,
                       aKey, aFence, lapsed, digest, claim, calls, due, acked>>

\* skip_node: the operator's output takes the place of the node's, and the edges
\* it satisfies are taken, whatever the status of the Run.  The node's Attempt
\* keeps running.
Skip(k, T) ==
    /\ <<"skip", k>> \in reading /\ Unlocked(k)
    /\ Saved(0)
    /\ output' = [output EXCEPT ![k] = seq + 1]
    /\ ActivateAs(k, T, "SKIPPED", IF ready[k] \in Live THEN "DONE" ELSE ready[k])
    /\ Record(<<"skip", k>>)
    /\ UNCHANGED <<usage, fence, attemptVars, claim, calls, due, acked>>

\* The operator's transaction rolls back.
GiveUp(i) == reading' = reading \ {i} /\ UNCHANGED <<vars, recorded>>

OperatorStep ==
    \/ \E a \in Attempts : ReadAttempt(a) \/ Reassign(a)
    \/ \E k \in Keys : ReadNode(k) \/ \E T \in Selections(k) : Skip(k, T)
    \/ \E i \in reading : GiveUp(i)

InterventionNext == (Next /\ UNCHANGED operatorVars) \/ OperatorStep

InterventionSpec == InterventionInit /\ [][InterventionNext]_<<vars, operatorVars>>

(***************************************************************************)
(* Correctness.                                                            *)
(***************************************************************************)
\* What ended an Attempt is never overwritten: a completion, a failure, the
\* reaper, a cancellation and an operator who all saw it running race for it, and
\* whoever comes late changes nothing of it.
Ended(a) == aStatus[a] \notin {"NONE", "RUNNING"}
AttemptIsFinal == [][\A a \in Attempts : Ended(a) => aStatus'[a] = aStatus[a]]_<<vars, operatorVars>>
===============================================================================
