---------------------------- MODULE SchedulerLease ----------------------------
(***************************************************************************)
(* The lease of an Enterprise scheduler group: acquire_scheduler_lease,    *)
(* verify_scheduler_lease and release_scheduler_lease of                   *)
(* src/scripts/lib/graph_scheduler.py, and the start of claim_ready in     *)
(* graph_runtime.py, which verifies the lease before its transaction.      *)
(***************************************************************************)
EXTENDS Integers

CONSTANTS
    Schedulers,    \* SCHEDULER_IDs
    Free,          \* no row of the group
    TokenBound     \* model bound: FENCING_TOKEN

ASSUME SchedulerAssumption == Free \notin Schedulers /\ TokenBound \in Nat \ {0}

VARIABLES
    owner,         \* GRAPH_SCHEDULER_LEASES.SCHEDULER_ID, Free without a row
    leaseToken,    \* FENCING_TOKEN
    leaseActive,   \* STATUS is ACTIVE
    leaseOver,     \* EXPIRES_AT has passed
    reading,       \* the row an acquisition read, before its update
    granted,       \* the token each scheduler works with, 0 for none
    admitted       \* schedulers whose claim passed the verification

schedulerVars == <<owner, leaseToken, leaseActive, leaseOver, reading, granted, admitted>>

NotReading == [at |-> "idle", by |-> Free, token |-> 0, active |-> FALSE]

SchedulerInit ==
    /\ owner = Free /\ leaseToken = 0 /\ leaseActive = FALSE /\ leaseOver = FALSE
    /\ reading = [s \in Schedulers |-> NotReading]
    /\ granted = [s \in Schedulers |-> 0]
    /\ admitted = {}

Valid == leaseActive /\ ~leaseOver

\* The query of acquire_scheduler_lease: a valid lease of another is respected.
ReadLease(s) ==
    /\ reading[s].at = "idle"
    /\ IF Valid /\ owner # s THEN reading' = reading /\ granted' = [granted EXCEPT ![s] = 0]
       ELSE /\ reading' = [reading EXCEPT ![s] =
                 [at |-> IF owner = Free THEN "insert" ELSE "update",
                  by |-> owner, token |-> leaseToken, active |-> leaseActive]]
            /\ granted' = granted
    /\ UNCHANGED <<owner, leaseToken, leaseActive, leaseOver, admitted>>

\* The insert; if another's was first, PostgreSQL has aborted the transaction,
\* the query of the handler fails, and the call raises.
InsertLease(s) ==
    /\ reading[s].at = "insert" /\ reading' = [reading EXCEPT ![s] = NotReading]
    /\ IF owner = Free
       THEN /\ owner' = s /\ leaseToken' = 1 /\ leaseActive' = TRUE /\ leaseOver' = FALSE
            /\ granted' = [granted EXCEPT ![s] = 1]
       ELSE UNCHANGED <<owner, leaseToken, leaseActive, leaseOver, granted>>
    /\ UNCHANGED admitted

\* Mutant: the update trusts what the query returned.
BarrierNone(s) == TRUE

\* The condition of the update.
Barrier(s) == owner = s \/ ~Valid

\* The token is computed from the row that was read.
NextToken(s) ==
    reading[s].token + (IF reading[s].by = s /\ reading[s].active THEN 0 ELSE 1)

UpdateLease(s) ==
    /\ reading[s].at = "update" /\ reading' = [reading EXCEPT ![s] = NotReading]
    /\ IF Barrier(s)
       THEN /\ NextToken(s) <= TokenBound
            /\ owner' = s /\ leaseToken' = NextToken(s)
            /\ leaseActive' = TRUE /\ leaseOver' = FALSE
            /\ granted' = [granted EXCEPT ![s] = NextToken(s)]
       ELSE /\ granted' = [granted EXCEPT ![s] = 0]
            /\ UNCHANGED <<owner, leaseToken, leaseActive, leaseOver>>
    /\ UNCHANGED admitted

LeaseExpires ==
    /\ Valid /\ leaseOver' = TRUE
    /\ UNCHANGED <<owner, leaseToken, leaseActive, reading, granted, admitted>>

\* verify_scheduler_lease.
Verified(s) == owner = s /\ leaseToken = granted[s] /\ Valid

VerifyClaim(s) ==
    /\ granted[s] # 0 /\ s \notin admitted
    /\ admitted' = IF Verified(s) THEN admitted \cup {s} ELSE admitted
    /\ granted' = [granted EXCEPT ![s] = IF Verified(s) THEN @ ELSE 0]
    /\ UNCHANGED <<owner, leaseToken, leaseActive, leaseOver, reading>>

\* The transaction of claim_ready does not look at the lease again.
ClaimCommits(s) ==
    /\ s \in admitted /\ admitted' = admitted \ {s}
    /\ UNCHANGED <<owner, leaseToken, leaseActive, leaseOver, reading, granted>>

ReleaseLease(s) ==
    /\ granted[s] # 0 /\ granted' = [granted EXCEPT ![s] = 0]
    /\ leaseActive' = (leaseActive /\ ~(owner = s /\ leaseToken = granted[s]))
    /\ UNCHANGED <<owner, leaseToken, leaseOver, reading, admitted>>

SchedulerNext ==
    \/ LeaseExpires
    \/ \E s \in Schedulers : ReadLease(s) \/ InsertLease(s) \/ UpdateLease(s) \/ VerifyClaim(s)
                             \/ ClaimCommits(s) \/ ReleaseLease(s)

SchedulerSpec == SchedulerInit /\ [][SchedulerNext]_schedulerVars

(***************************************************************************)
(* Correctness.                                                            *)
(***************************************************************************)
SchedulerTypeOK ==
    /\ owner \in Schedulers \cup {Free} /\ leaseToken \in 0..TokenBound
    /\ leaseActive \in BOOLEAN /\ leaseOver \in BOOLEAN
    /\ reading \in [Schedulers -> [at : {"idle", "insert", "update"}, by : Schedulers \cup {Free},
                                   token : 0..TokenBound, active : BOOLEAN]]
    /\ granted \in [Schedulers -> 0..TokenBound] /\ admitted \subseteq Schedulers

\* A lease that is held and has not run out is never taken over by another
\* scheduler, and its token never moves, however stale the row is that an
\* acquisition read; but while nobody holds it, its token may move backwards.
LeaseIsExclusive ==
    [][Valid => owner' = owner /\ leaseToken' = leaseToken]_schedulerVars
===============================================================================
