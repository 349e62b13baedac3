--------------------------- MODULE PlatformCommands ---------------------------
(***************************************************************************)
(* Administrative commands that act on the runtime's executions through an *)
(* Action Card: create_command, execute_approved_command and               *)
(* expire_commands of src/scripts/lib/platform_agent_pool.py,              *)
(* create_action_card and decide_action_card of identity_api.py, and       *)
(* action_decision of web_app.py, which decides and then executes.         *)
(*                                                                         *)
(* A command and its card are two rows written in two transactions, and so *)
(* are the decision and the execution: a process may die in between, and   *)
(* the decision may be repeated to resume.                                 *)
(***************************************************************************)
EXTENDS RuntimeExecutions

CONSTANTS
    Commands,      \* commands that need an approval
    DrainNode      \* the processes on the node a drain empties

ASSUME CommandAssumption == DrainNode \subseteq Runners

VARIABLES
    order,         \* COMMAND_TYPE, NONE before: a drain, or a proposal only
    command,       \* CX_PLATFORM_ADMIN_COMMANDS.STATUS, NONE before
    card,          \* CX_ACTION_CARDS.STATUS, NONE before
    overdue,       \* EXPIRES_AT has passed
    applied        \* how often each command took effect

commandVars == <<order, command, card, overdue, applied>>

CommandStatus == {"NONE", "PENDING_APPROVAL", "COMPLETED", "PROPOSAL_CONFIRMED", "EXPIRED"}
Applied == {"COMPLETED", "PROPOSAL_CONFIRMED"}

CommandInit ==
    /\ order = [c \in Commands |-> "NONE"]
    /\ command = [c \in Commands |-> "NONE"]
    /\ card = [c \in Commands |-> "NONE"]
    /\ overdue = [c \in Commands |-> FALSE]
    /\ applied = [c \in Commands |-> 0]

CreateCommand(c, type) ==
    /\ order' = [order EXCEPT ![c] = type]
    /\ command[c] = "NONE" /\ command' = [command EXCEPT ![c] = "PENDING_APPROVAL"]
    /\ UNCHANGED <<card, overdue, applied, executionVars>>

CreateCard(c) ==
    /\ command[c] # "NONE" /\ card[c] = "NONE" /\ card' = [card EXCEPT ![c] = "PROPOSED"]
    /\ UNCHANGED <<order, command, overdue, applied, executionVars>>

\* Another administrator than the proposer decides, once.
DecideCard(c, decision) ==
    /\ card[c] = "PROPOSED" /\ card' = [card EXCEPT ![c] = decision]
    /\ UNCHANGED <<order, command, overdue, applied, executionVars>>

\* Mutant: a command that took effect is taken for one that is pending.
PendingStill(c) == command[c] # "EXPIRED" /\ ~overdue[c]

\* The update that claims the command for this transaction.
PendingCommand(c) == command[c] = "PENDING_APPROVAL" /\ ~overdue[c]

\* The claims a drain of the node sends back to the queue, for another node.
Drained == {e \in Executions : exec[e] = "CLAIMED" /\ expired[e] /\ holder[e] \in DrainNode}

\* The command and its card are locked from the first check to the commit; a
\* repeated decision finds the command COMPLETED and changes nothing.
ExecuteCommand(c) ==
    /\ card[c] = "CONFIRMED" /\ PendingCommand(c)
    /\ command' = [command EXCEPT ![c] = IF order[c] = "AGENT_DRAIN" THEN "COMPLETED" ELSE "PROPOSAL_CONFIRMED"]
    /\ applied' = [applied EXCEPT ![c] = @ + 1]
    /\ LET D == IF order[c] = "AGENT_DRAIN" THEN Drained ELSE {}
       IN  /\ exec' = [e \in Executions |-> IF e \in D THEN "PENDING" ELSE exec[e]]
           /\ holder' = [e \in Executions |-> IF e \in D THEN Nobody ELSE holder[e]]
           /\ expired' = [e \in Executions |-> expired[e] /\ e \notin D]
    /\ UNCHANGED <<order, card, overdue, kind, fencing, output, response, sends, runner, suspended, suspensions>>

ComeDue(c) ==
    /\ command[c] = "PENDING_APPROVAL" /\ ~overdue[c] /\ overdue' = [overdue EXCEPT ![c] = TRUE]
    /\ UNCHANGED <<order, command, card, applied, executionVars>>

\* expire_commands does not look at the card.
ExpireCommand(c) ==
    /\ command[c] = "PENDING_APPROVAL" /\ overdue[c]
    /\ command' = [command EXCEPT ![c] = "EXPIRED"]
    /\ UNCHANGED <<order, card, overdue, applied, executionVars>>

CommandNext ==
    \/ ExecutionNext /\ UNCHANGED commandVars
    \/ \E c \in Commands :
          \/ \E type \in {"AGENT_DRAIN", "PROPOSAL"} : CreateCommand(c, type)
          \/ CreateCard(c) \/ ExecuteCommand(c)
          \/ ComeDue(c) \/ ExpireCommand(c)
          \/ \E decision \in {"CONFIRMED", "REJECTED"} : DecideCard(c, decision)

CommandSpec == ExecutionInit /\ CommandInit /\ [][CommandNext]_<<commandVars, executionVars>>

(***************************************************************************)
(* Correctness.                                                            *)
(***************************************************************************)
CommandTypeOK ==
    /\ order \in [Commands -> {"NONE", "AGENT_DRAIN", "PROPOSAL"}]
    /\ command \in [Commands -> CommandStatus]
    /\ card \in [Commands -> {"NONE", "PROPOSED", "CONFIRMED", "REJECTED"}]
    /\ overdue \in [Commands -> BOOLEAN] /\ applied \in [Commands -> Nat]

\* However often its confirmation is repeated, a command takes effect once, and
\* never without a confirmation or after it expired.
CommandAppliedOnce ==
    \A c \in Commands :
        /\ applied[c] = (IF command[c] \in Applied THEN 1 ELSE 0)
        /\ applied[c] > 0 => card[c] = "CONFIRMED"
===============================================================================
