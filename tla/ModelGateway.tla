----------------------------- MODULE ModelGateway -----------------------------
(***************************************************************************)
(* Calls to a model provider through the gateway: forward and              *)
(* stream_forward of src/scripts/lib/model_usage_api.py and the Agents'    *)
(* embedding call of embedding_governance.py, with the quota reservations  *)
(* and replay snapshots of model_governance_api.py.                        *)
(*                                                                         *)
(* One action is one committed statement or transaction, or one exchange   *)
(* with the provider.  reserve_quota is the exception: it locks one policy *)
(* after the other, in the order the query happened to return them, so it  *)
(* is one action per policy and one for its commit.                        *)
(***************************************************************************)
EXTENDS Integers, FiniteSets, FiniteSetsExt

CONSTANTS
    Calls,         \* calls of forward, stream_forward and the embedding gateway
    NoCall,        \* nobody, as the holder of a policy's row lock
    Ways,          \* which of the three each call may be
    Key,           \* the idempotency key of each call; its own if it has none
    Policies,      \* the quota policies that match every call
    Hard,          \* those with ENFORCEMENT HARD; the others warn
    Limit,         \* LIMIT_VALUE of each policy
    Amount,        \* RESERVATION_VALUE of each policy
    CostBased,     \* the policies whose METRIC is a cost
    ReleaseIfUnknown, \* the policies with INCOMPLETE_POLICY RELEASE
    Totals,        \* token totals a provider may report
    Unknown,       \* a total the provider does not report
    NoUsage        \* no usage row yet

Modes == {"json", "stream", "embed"}

ASSUME GatewayAssumption ==
    /\ IsFiniteSet(Calls) /\ NoCall \notin Calls
    /\ Ways \in [Calls -> SUBSET Modes]
    /\ Hard \subseteq Policies /\ CostBased \subseteq Policies
    /\ ReleaseIfUnknown \subseteq Policies
    /\ Limit \in [Policies -> Nat] /\ Amount \in [Policies -> Nat]
    /\ Totals \subseteq Nat /\ Unknown \notin Nat /\ NoUsage \notin Totals \cup {Unknown}

VARIABLES
    mode,          \* forward, stream_forward or the embedding gateway, once called
    request,       \* CX_MODEL_REQUESTS.STATUS of each call's row, NONE before
    stage,         \* how far each call got
    quota,         \* CX_MODEL_QUOTA_RESERVATIONS.STATUS by call and policy
    charge,        \* RESERVED_VALUE, or SETTLED_VALUE once settled
    lock,          \* who holds the row lock of each policy
    usage,         \* CX_MODEL_USAGE.TOTAL_TOKENS by call
    snapshot,      \* calls with a row in CX_MODEL_REPLAY_SNAPSHOTS
    dispatched,    \* calls that reached the provider
    replayed       \* <<call, original>>: answered from the original's snapshot

gatewayVars == <<mode, request, stage, quota, charge, lock, usage, snapshot, dispatched, replayed>>

RequestStatus == {"NONE", "AUTHORIZED", "DISPATCHED", "SUCCEEDED", "FAILED",
                  "QUOTA_REJECTED", "INCOMPLETE"}
Stages == {"new", "checked", "reserving", "rejecting", "unevaluated", "reserved",
           "sent", "answered", "settled", "failing", "released", "ended", "lost"}
QuotaStatus == {"NONE", "RESERVED", "SETTLED", "SETTLED_INCOMPLETE", "RELEASED"}
Counted == {"RESERVED", "SETTLED", "SETTLED_INCOMPLETE"}
SettledQuota == {"SETTLED", "SETTLED_INCOMPLETE"}

GatewayInit ==
    /\ mode = [c \in Calls |-> "NONE"]
    /\ request = [c \in Calls |-> "NONE"]
    /\ stage = [c \in Calls |-> "new"]
    /\ quota = [c \in Calls |-> [p \in Policies |-> "NONE"]]
    /\ charge = [c \in Calls |-> [p \in Policies |-> 0]]
    /\ lock = [p \in Policies |-> NoCall]
    /\ usage = [c \in Calls |-> NoUsage]
    /\ snapshot = {} /\ dispatched = {} /\ replayed = {}

At(c, s) == stage[c] = s
Move(c, s) == stage' = [stage EXCEPT ![c] = s]

(***************************************************************************)
(* Idempotency: _idempotent_replay, _reserve_idempotency and the insert of *)
(* the request, whose (actor, key) the schema keeps unique.                *)
(***************************************************************************)
KeyUsers(c) == {d \in Calls : Key[d] = Key[c] /\ request[d] # "NONE"}

\* A key that was used answers from the snapshot of a call that SUCCEEDED, or
\* refuses.  Only forward replays, and only a snapshot that is still fresh.
CheckKey(c, via, fresh) ==
    /\ At(c, "new") /\ mode' = [mode EXCEPT ![c] = via]
    /\ Move(c, IF KeyUsers(c) = {} THEN "checked" ELSE "ended")
    /\ replayed' = replayed \cup
          {<<c, d>> : d \in {e \in KeyUsers(c) \cap snapshot :
                                fresh /\ via = "json" /\ request[e] = "SUCCEEDED"}}
    /\ UNCHANGED <<request, quota, charge, lock, usage, snapshot, dispatched>>

\* Mutant: the schema does not keep the key unique.
KeyFreeAlways(c) == TRUE

KeyFree(c) == KeyUsers(c) = {}

Insert(c) ==
    /\ At(c, "checked")
    /\ request' = [request EXCEPT ![c] =
                      IF ~KeyFree(c) THEN @
                      ELSE IF mode[c] = "stream" THEN "DISPATCHED" ELSE "AUTHORIZED"]
    /\ Move(c, IF KeyFree(c) THEN "reserving" ELSE "ended")
    /\ UNCHANGED <<mode, quota, charge, lock, usage, snapshot, dispatched, replayed>>

(***************************************************************************)
(* reserve_quota: one transaction that holds the rows it locked.           *)
(***************************************************************************)
\* Committed and reserved value of a policy, as its lock's holder reads it.
Booked(c, p) == IF quota[c][p] \in Counted THEN charge[c][p] ELSE 0
Spent(p) == SumFunction([c \in Calls |-> IF At(c, "reserving") THEN 0 ELSE Booked(c, p)])
Pending(c) == {p \in Policies : quota[c][p] = "NONE"}
Unlocked(c) == [p \in Policies |-> IF lock[p] = c THEN NoCall ELSE lock[p]]

\* Rolling back removes the reservations the transaction inserted.
Rollback(c) ==
    /\ quota' = [quota EXCEPT ![c] = [p \in Policies |-> "NONE"]]
    /\ charge' = [charge EXCEPT ![c] = [p \in Policies |-> 0]]
    /\ lock' = Unlocked(c)

\* Mutant: the policy is read without FOR UPDATE.
PolicyFreeAlways(p) == TRUE

PolicyFree(p) == lock[p] = NoCall
Projected(p) == Spent(p) + Amount[p]
Exhausted(p) == p \in Hard /\ Projected(p) > Limit[p]

Reserve(c, p) ==
    /\ At(c, "reserving") /\ p \in Pending(c) /\ PolicyFree(p) /\ ~Exhausted(p)
    /\ quota' = [quota EXCEPT ![c][p] = "RESERVED"]
    /\ charge' = [charge EXCEPT ![c][p] = Amount[p]]
    /\ lock' = [lock EXCEPT ![p] = c]
    /\ UNCHANGED <<mode, request, stage, usage, snapshot, dispatched, replayed>>

QuotaRejects(c, p) ==
    /\ At(c, "reserving") /\ p \in Pending(c) /\ PolicyFree(p) /\ Exhausted(p)
    /\ Rollback(c) /\ Move(c, "rejecting")
    /\ UNCHANGED <<mode, request, usage, snapshot, dispatched, replayed>>

CommitReservation(c) ==
    /\ At(c, "reserving") /\ Pending(c) = {}
    /\ lock' = Unlocked(c) /\ Move(c, "reserved")
    /\ UNCHANGED <<mode, request, quota, charge, usage, snapshot, dispatched, replayed>>

\* A deadlock with another call that locked the policies in another order, or a
\* broken connection: only the embedding gateway marks the request.
ReservationFails(c) ==
    /\ At(c, "reserving")
    /\ Rollback(c) /\ Move(c, IF mode[c] = "embed" THEN "unevaluated" ELSE "ended")
    /\ UNCHANGED <<mode, request, usage, snapshot, dispatched, replayed>>

\* The request of a call that was refused, or could not be evaluated.
MarkRefused(c) ==
    /\ At(c, "rejecting") \/ At(c, "unevaluated")
    /\ request' = [request EXCEPT ![c] = IF At(c, "rejecting") THEN "QUOTA_REJECTED" ELSE "FAILED"]
    /\ Move(c, "ended")
    /\ UNCHANGED <<mode, quota, charge, lock, usage, snapshot, dispatched, replayed>>

(***************************************************************************)
(* The provider, _write_usage and settle_quota.                            *)
(***************************************************************************)
Dispatch(c) ==
    /\ At(c, "reserved")
    /\ dispatched' = dispatched \cup {c} /\ Move(c, "sent")
    /\ UNCHANGED <<mode, request, quota, charge, lock, usage, snapshot, replayed>>

\* The usage row is inserted and committed on its own.
Answer(c, total) ==
    /\ At(c, "sent")
    /\ usage' = [usage EXCEPT ![c] = total] /\ Move(c, "answered")
    /\ UNCHANGED <<mode, request, quota, charge, lock, snapshot, dispatched, replayed>>

\* Mutants: the reservation is settled with what was reserved; a total that was
\* not reported is settled like one that was.
SettlementReserved(c, p, total, priced) == <<"SETTLED", Amount[p]>>
SettlementUnreported(c, p, total, priced) == <<"SETTLED", total>>

\* What becomes of one reservation; priced: the price of the model is known.
Settlement(c, p, total, priced) ==
    CASE total = Unknown /\ p \in ReleaseIfUnknown -> <<"RELEASED", charge[c][p]>>
      [] total = Unknown /\ p \notin ReleaseIfUnknown -> <<"SETTLED_INCOMPLETE", charge[c][p]>>
      [] total # Unknown /\ (p \notin CostBased \/ priced) -> <<"SETTLED", total>>
      [] OTHER -> <<"RELEASED", charge[c][p]>>

\* Mutant: settle_quota takes the reservations in any state.
OpenAny(c, p) == quota[c][p] # "NONE"

\* The reservations settle_quota and release_quota look at.
Open(c, p) == quota[c][p] = "RESERVED"

SettleAll(c, total, priced) ==
    /\ quota' = [quota EXCEPT ![c] = [p \in Policies |->
                    IF Open(c, p) THEN Settlement(c, p, total, priced)[1] ELSE quota[c][p]]]
    /\ charge' = [charge EXCEPT ![c] = [p \in Policies |->
                    IF Open(c, p) THEN Settlement(c, p, total, priced)[2] ELSE charge[c][p]]]

Settle(c, priced) ==
    /\ At(c, "answered") /\ \A p \in Policies : PolicyFree(p)
    /\ SettleAll(c, usage[c], priced) /\ Move(c, "settled")
    /\ UNCHANGED <<mode, request, lock, usage, snapshot, dispatched, replayed>>

\* finalize_replayable_success: the snapshot and the status in one transaction.
\* If the connection breaks while it commits (acked is FALSE) the call fails
\* although it succeeded.
Finalize(c, acked) ==
    /\ At(c, "settled")
    /\ request' = [request EXCEPT ![c] = "SUCCEEDED"]
    /\ snapshot' = IF mode[c] = "json" THEN snapshot \cup {c} ELSE snapshot
    /\ Move(c, IF acked THEN "ended" ELSE "failing")
    /\ UNCHANGED <<mode, quota, charge, lock, usage, dispatched, replayed>>

(***************************************************************************)
(* Failures.                                                               *)
(***************************************************************************)
\* No answer, an oversized or invalid one, or a statement that fails.
CallFails(c) ==
    /\ At(c, "sent") \/ At(c, "answered") \/ At(c, "settled")
    /\ Move(c, "failing")
    /\ UNCHANGED <<mode, request, quota, charge, lock, usage, snapshot, dispatched, replayed>>

\* release_quota; a stream settles what it reserved as incomplete instead.
Release(c) ==
    /\ At(c, "failing")
    /\ IF mode[c] = "stream" THEN (\A p \in Policies : PolicyFree(p)) /\ SettleAll(c, Unknown, FALSE)
       ELSE /\ quota' = [quota EXCEPT ![c] = [p \in Policies |->
                            IF Open(c, p) THEN "RELEASED" ELSE quota[c][p]]]
            /\ charge' = charge
    /\ Move(c, "released")
    /\ UNCHANGED <<mode, request, lock, usage, snapshot, dispatched, replayed>>

\* Only the embedding gateway looks whether the request SUCCEEDED (forward does
\* so after a governed error, which leaves nothing committed).
MarkFailed(c) ==
    /\ At(c, "released")
    /\ request' = [request EXCEPT ![c] =
                      CASE mode[c] = "stream" -> "INCOMPLETE"
                        [] mode[c] = "embed" -> IF @ = "SUCCEEDED" THEN @ ELSE "FAILED"
                        [] OTHER -> "FAILED"]
    /\ Move(c, "ended")
    /\ UNCHANGED <<mode, quota, charge, lock, usage, snapshot, dispatched, replayed>>

\* The client of a stream disconnects: the generator is closed where it yields,
\* and GeneratorExit is no Exception.
HangUp(c) ==
    /\ mode[c] = "stream" /\ At(c, "sent") /\ Move(c, "ended")
    /\ UNCHANGED <<mode, request, quota, charge, lock, usage, snapshot, dispatched, replayed>>

\* The process dies; an open transaction rolls back.
CallDies(c) ==
    /\ stage[c] \notin {"new", "ended", "lost"} /\ Move(c, "lost")
    /\ IF At(c, "reserving") THEN Rollback(c) ELSE UNCHANGED <<quota, charge, lock>>
    /\ UNCHANGED <<mode, request, usage, snapshot, dispatched, replayed>>

GatewayNext ==
    \E c \in Calls :
        \/ \E via \in Ways[c], fresh \in BOOLEAN : CheckKey(c, via, fresh)
        \/ Insert(c)
        \/ \E p \in Policies : Reserve(c, p) \/ QuotaRejects(c, p)
        \/ CommitReservation(c) \/ ReservationFails(c) \/ MarkRefused(c)
        \/ Dispatch(c)
        \/ \E total \in Totals \cup {Unknown} : Answer(c, total)
        \/ \E priced \in BOOLEAN : Settle(c, priced)
        \/ \E acked \in BOOLEAN : Finalize(c, acked)
        \/ CallFails(c) \/ Release(c) \/ MarkFailed(c) \/ HangUp(c) \/ CallDies(c)

GatewaySpec == GatewayInit /\ [][GatewayNext]_gatewayVars

(***************************************************************************)
(* Correctness.                                                            *)
(***************************************************************************)
GatewayTypeOK ==
    /\ mode \in [Calls -> Modes \cup {"NONE"}]
    /\ request \in [Calls -> RequestStatus] /\ stage \in [Calls -> Stages]
    /\ quota \in [Calls -> [Policies -> QuotaStatus]]
    /\ charge \in [Calls -> [Policies -> Nat]]
    /\ lock \in [Policies -> Calls \cup {NoCall}]
    /\ usage \in [Calls -> Totals \cup {Unknown, NoUsage}]
    /\ snapshot \subseteq Calls /\ dispatched \subseteq Calls
    /\ replayed \subseteq Calls \X Calls

\* A hard quota is exceeded by nothing but what single calls used beyond their
\* own reservation: reservations of concurrent calls, whatever they settle,
\* never share the same room.
AsReserved(p, value) == IF value < Amount[p] THEN value ELSE Amount[p]
Within(p) == SumFunction([c \in Calls |-> AsReserved(p, Booked(c, p))])
QuotaHolds == \A p \in Hard : Within(p) <= Limit[p]

\* Of the calls with one key at most one ever reaches the provider, and a call
\* that is answered from a snapshot is answered from that one's.
OneDispatch ==
    /\ \A c, d \in dispatched : Key[c] = Key[d] => c = d
    /\ \A r \in replayed : r[1] \notin dispatched /\ r[2] \in dispatched \cap snapshot

\* A settled reservation is a fact: later failures of the same call, its
\* release included, neither change nor remove it.
ChargeStep ==
    \A c \in Calls, p \in Policies : quota[c][p] \in SettledQuota =>
        quota'[c][p] = quota[c][p] /\ charge'[c][p] = charge[c][p]
ChargeIsFinal == [][ChargeStep]_gatewayVars

\* A call that SUCCEEDED has no open reservation, and was charged the tokens the
\* provider reported on every token policy.
SuccessIsCharged ==
    \A c \in Calls : request[c] = "SUCCEEDED" =>
        /\ usage[c] # NoUsage
        /\ \A p \in Policies :
              /\ quota[c][p] \notin {"NONE", "RESERVED"}
              /\ usage[c] # Unknown /\ p \notin CostBased => charge[c][p] = usage[c]
===============================================================================
