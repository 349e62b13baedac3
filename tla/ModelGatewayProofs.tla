--------------------------- MODULE ModelGatewayProofs ---------------------------
(***************************************************************************)
(* Theorems about ModelGateway: types, one dispatch for a key, settled     *)
(* reservations that rest, and calls that SUCCEEDED and were charged.      *)
(***************************************************************************)
EXTENDS ModelGateway, FiniteSetTheorems, WellFoundedInduction, TLAPS

Table == [Calls -> [Policies -> QuotaStatus]]
Charges == [Calls -> [Policies -> Nat]]
Inserted == Stages \ {"new", "checked", "ended", "lost"}
Dispatched == {"sent", "answered", "settled"}

(***************************************************************************)
(* The inductive invariant.  Behind the key: a call past its insert has    *)
(* the one request row of its key, and a call that was answered from a     *)
(* snapshot ended without one.  Behind the charge: nothing is settled      *)
(* before the reservation commits, and everything is when Finalize runs.   *)
(***************************************************************************)
KeysAreUnique ==
    \A c, d \in Calls : Key[c] = Key[d] /\ request[c] # "NONE" /\ request[d] # "NONE" => c = d

DispatchFollowsInsert ==
    \A c \in Calls :
        /\ stage[c] \in Inserted \/ c \in dispatched \cup snapshot => request[c] # "NONE"
        /\ stage[c] \in Dispatched \/ c \in snapshot => c \in dispatched
        /\ stage[c] \in {"new", "checked"} => request[c] = "NONE"

ReplaysEnded ==
    \A r \in replayed : /\ stage[r[1]] = "ended" /\ r[1] \notin dispatched
                        /\ r[2] \in dispatched \cap snapshot

Charged(c) ==
    /\ usage[c] # NoUsage
    /\ \A p \in Policies :
          /\ quota[c][p] \notin {"NONE", "RESERVED"}
          /\ usage[c] # Unknown /\ p \notin CostBased => charge[c][p] = usage[c]

ReservedFirst ==
    \A c \in Calls, p \in Policies :
        /\ stage[c] \in {"new", "checked"} => quota[c][p] = "NONE"
        /\ stage[c] = "reserving" => quota[c][p] \in {"NONE", "RESERVED"}
        /\ stage[c] \in {"reserved", "sent", "answered"} => quota[c][p] = "RESERVED"

ChargedWhenSettled ==
    \A c \in Calls :
        /\ stage[c] = "answered" => usage[c] # NoUsage
        /\ stage[c] = "settled" => Charged(c)
        /\ request[c] = "SUCCEEDED" => Charged(c) /\ stage[c] \in {"ended", "failing", "released", "lost"}

GatewayInv ==
    /\ GatewayTypeOK /\ KeysAreUnique /\ DispatchFollowsInsert /\ ReplaysEnded
    /\ ReservedFirst /\ ChargedWhenSettled

LEMMA GatewayInitially == GatewayInit => GatewayInv
<1> SUFFICES ASSUME GatewayInit PROVE GatewayInv
    OBVIOUS
<1> USE GatewayAssumption DEF GatewayInit
<1>1. GatewayTypeOK
    BY DEF GatewayTypeOK, Modes, RequestStatus, Stages, QuotaStatus
<1>2. KeysAreUnique /\ DispatchFollowsInsert /\ ReplaysEnded
    BY DEF KeysAreUnique, DispatchFollowsInsert, ReplaysEnded, Inserted, Dispatched
<1>3. ReservedFirst /\ ChargedWhenSettled
    BY DEF ReservedFirst, ChargedWhenSettled
<1> QED
    BY <1>1, <1>2, <1>3 DEF GatewayInv

(***************************************************************************)
(* The key: requests, stages and the provider.                             *)
(***************************************************************************)
KeyInv == KeysAreUnique /\ DispatchFollowsInsert /\ ReplaysEnded

\* The status of a request that was inserted changes as its call ends.
LEMMA KeyRests ==
    ASSUME GatewayTypeOK, KeyInv, NEW c \in Calls, stage[c] \in Inserted,
           NEW status \in RequestStatus \ {"NONE"}, request' = [request EXCEPT ![c] = status],
           stage' = [stage EXCEPT ![c] = "ended"], UNCHANGED <<snapshot, dispatched, replayed>>
    PROVE  KeyInv'
<1>1. \A d \in Calls : request'[d] # "NONE" <=> request[d] # "NONE"
    BY DEF GatewayTypeOK, KeyInv, DispatchFollowsInsert, RequestStatus
<1>2. stage'[c] = "ended" /\ \A d \in Calls \ {c} : stage'[d] = stage[d]
    BY DEF GatewayTypeOK
<1>3. KeysAreUnique'
    BY <1>1 DEF KeyInv, KeysAreUnique
<1>4. DispatchFollowsInsert'
    BY <1>1, <1>2 DEF KeyInv, DispatchFollowsInsert, Inserted, Dispatched
<1>5. ReplaysEnded'
    BY <1>2 DEF KeyInv, ReplaysEnded, GatewayTypeOK
<1> QED
    BY <1>3, <1>4, <1>5 DEF KeyInv

LEMMA KeyStep == GatewayTypeOK /\ KeyInv /\ [GatewayNext]_gatewayVars => KeyInv'
<1> SUFFICES ASSUME GatewayTypeOK, KeyInv, [GatewayNext]_gatewayVars PROVE KeyInv'
    OBVIOUS
<1> USE DEF KeyInv, KeysAreUnique, DispatchFollowsInsert, ReplaysEnded, Inserted, Dispatched, At, Move, Stages,
            GatewayTypeOK, RequestStatus
<1>1. ASSUME NEW c \in Calls, NEW via \in Ways[c], NEW fresh \in BOOLEAN, CheckKey(c, via, fresh) PROVE KeyInv'
    BY <1>1 DEF CheckKey, KeyUsers
<1>2. ASSUME NEW c \in Calls, Insert(c) PROVE KeyInv'
    <2>1. CASE KeyFree(c)
        <3>1. \A d \in Calls : Key[d] = Key[c] => request[d] = "NONE"
            BY <2>1 DEF KeyFree, KeyUsers
        <3>2. /\ stage[c] = "checked" /\ stage' = [stage EXCEPT ![c] = "reserving"]
              /\ request' = [request EXCEPT ![c] = IF mode[c] = "stream" THEN "DISPATCHED" ELSE "AUTHORIZED"]
              /\ UNCHANGED <<snapshot, dispatched, replayed>>
            BY <1>2, <2>1 DEF Insert
        <3> QED
            BY <3>1, <3>2
    <2>2. CASE ~KeyFree(c)
        BY <1>2, <2>2 DEF Insert
    <2> QED
        BY <2>1, <2>2
<1>3. ASSUME NEW c \in Calls, NEW p \in Policies, Reserve(c, p) \/ QuotaRejects(c, p) PROVE KeyInv'
    BY <1>3 DEF Reserve, QuotaRejects
<1>4. ASSUME NEW c \in Calls, CommitReservation(c) \/ ReservationFails(c) PROVE KeyInv'
    BY <1>4 DEF CommitReservation, ReservationFails
<1>5. ASSUME NEW c \in Calls, MarkRefused(c) PROVE KeyInv'
    <2>1. PICK status \in {"QUOTA_REJECTED", "FAILED"} : request' = [request EXCEPT ![c] = status]
        BY <1>5 DEF MarkRefused
    <2>2. /\ stage[c] \in {"rejecting", "unevaluated"} /\ stage' = [stage EXCEPT ![c] = "ended"]
          /\ UNCHANGED <<snapshot, dispatched, replayed>>
        BY <1>5 DEF MarkRefused
    <2> QED
        BY <2>1, <2>2, KeyRests
<1>6. ASSUME NEW c \in Calls, Dispatch(c) PROVE KeyInv'
    BY <1>6 DEF Dispatch
<1>7. ASSUME NEW c \in Calls, NEW total \in Totals \cup {Unknown}, Answer(c, total) PROVE KeyInv'
    BY <1>7 DEF Answer
<1>8. ASSUME NEW c \in Calls, NEW priced \in BOOLEAN, Settle(c, priced) PROVE KeyInv'
    BY <1>8 DEF Settle
<1>9. ASSUME NEW c \in Calls, NEW acked \in BOOLEAN, Finalize(c, acked) PROVE KeyInv'
    BY <1>9 DEF Finalize
<1>10. ASSUME NEW c \in Calls, CallFails(c) \/ Release(c) PROVE KeyInv'
    <2>1. /\ stage[c] \in {"sent", "answered", "settled", "failing"}
          /\ stage' = [stage EXCEPT ![c] = "failing"] \/ stage' = [stage EXCEPT ![c] = "released"]
          /\ UNCHANGED <<request, snapshot, dispatched, replayed>>
        BY <1>10 DEF CallFails, Release
    <2> QED
        BY <2>1
<1>11. ASSUME NEW c \in Calls, MarkFailed(c) PROVE KeyInv'
    <2>1. PICK status \in {"INCOMPLETE", "FAILED", "SUCCEEDED"} : request' = [request EXCEPT ![c] = status]
        BY <1>11 DEF MarkFailed
    <2>2. /\ stage[c] = "released" /\ stage' = [stage EXCEPT ![c] = "ended"]
          /\ UNCHANGED <<snapshot, dispatched, replayed>>
        BY <1>11 DEF MarkFailed
    <2> QED
        BY <2>1, <2>2, KeyRests
<1>12. ASSUME NEW c \in Calls, HangUp(c) \/ CallDies(c) PROVE KeyInv'
    BY <1>12 DEF HangUp, CallDies
<1>13. CASE UNCHANGED gatewayVars
    BY <1>13 DEF gatewayVars
<1> QED
    BY <1>1, <1>2, <1>3, <1>4, <1>5, <1>6, <1>7, <1>8, <1>9, <1>10, <1>11, <1>12, <1>13 DEF GatewayNext

(***************************************************************************)
(* The charge: types, reservations and usage.                              *)
(***************************************************************************)
ChargeInv == GatewayTypeOK /\ ReservedFirst /\ ChargedWhenSettled

\* What becomes of a reservation is not open any more, and a number.
LEMMA SettlementCloses ==
    ASSUME GatewayTypeOK, NEW c \in Calls, NEW p \in Policies, NEW total \in Totals \cup {Unknown},
           NEW priced \in BOOLEAN
    PROVE  /\ Settlement(c, p, total, priced)[1] \in QuotaStatus \ {"NONE", "RESERVED"}
           /\ Settlement(c, p, total, priced)[2] \in Nat
           /\ total # Unknown /\ p \notin CostBased => Settlement(c, p, total, priced)[2] = total
<1>1. charge[c][p] \in Nat
    BY DEF GatewayTypeOK
<1>2. CASE total = Unknown /\ p \in ReleaseIfUnknown
    BY <1>1, <1>2 DEF Settlement, QuotaStatus
<1>3. CASE total = Unknown /\ p \notin ReleaseIfUnknown
    BY <1>1, <1>3 DEF Settlement, QuotaStatus
<1>4. CASE total # Unknown /\ (p \notin CostBased \/ priced)
    BY <1>1, <1>4, GatewayAssumption DEF Settlement, QuotaStatus
<1>5. CASE total # Unknown /\ ~(p \notin CostBased \/ priced)
    BY <1>1, <1>5 DEF Settlement, QuotaStatus
<1> QED
    BY <1>2, <1>3, <1>4, <1>5

\* settle_quota closes the call's reservations and touches nobody else's.
LEMMA SettleAllCloses ==
    ASSUME GatewayTypeOK, NEW c \in Calls, NEW total \in Totals \cup {Unknown}, NEW priced \in BOOLEAN,
           SettleAll(c, total, priced)
    PROVE  /\ quota' \in Table /\ charge' \in Charges
           /\ \A d \in Calls, p \in Policies :
                 ~(d = c /\ Open(c, p)) => quota'[d][p] = quota[d][p] /\ charge'[d][p] = charge[d][p]
           /\ \A p \in Policies :
                 Open(c, p) =>
                     /\ quota'[c][p] \notin {"NONE", "RESERVED"}
                     /\ total # Unknown /\ p \notin CostBased => charge'[c][p] = total
<1> DEFINE q == [p \in Policies |-> IF Open(c, p) THEN Settlement(c, p, total, priced)[1] ELSE quota[c][p]]
           v == [p \in Policies |-> IF Open(c, p) THEN Settlement(c, p, total, priced)[2] ELSE charge[c][p]]
<1>1. quota' = [quota EXCEPT ![c] = q] /\ charge' = [charge EXCEPT ![c] = v]
    BY DEF SettleAll
<1>2. \A p \in Policies : quota[c][p] \in QuotaStatus /\ charge[c][p] \in Nat
    BY DEF GatewayTypeOK
<1>3. q \in [Policies -> QuotaStatus] /\ v \in [Policies -> Nat]
    BY <1>2, SettlementCloses
<1>4. \A p \in Policies :
          /\ q[p] = IF Open(c, p) THEN Settlement(c, p, total, priced)[1] ELSE quota[c][p]
          /\ v[p] = IF Open(c, p) THEN Settlement(c, p, total, priced)[2] ELSE charge[c][p]
    OBVIOUS
<1> HIDE DEF q, v
<1>5. quota \in Table /\ charge \in Charges
    BY DEF GatewayTypeOK, Table, Charges
<1>6. quota' \in Table /\ charge' \in Charges
    BY <1>1, <1>3, <1>5 DEF Table, Charges
<1>7. /\ quota'[c] = q /\ charge'[c] = v
      /\ \A d \in Calls \ {c} : quota'[d] = quota[d] /\ charge'[d] = charge[d]
    BY <1>1, <1>5 DEF Table, Charges
<1> QED
    BY <1>4, <1>6, <1>7, SettlementCloses

\* A step keeps the invariant and every reservation that is settled.
ChargeKeeps == ChargeInv' /\ ChargeStep

\* Steps that leave reservations and usage alone.
LEMMA ChargeRests ==
    ASSUME ChargeInv, NEW c \in Calls, UNCHANGED <<quota, charge, usage>>,
           mode' \in [Calls -> Modes \cup {"NONE"}], lock' \in [Policies -> Calls \cup {NoCall}],
           NEW s \in Stages \ {"new", "settled"}, stage' = [stage EXCEPT ![c] = s],
           s = "checked" => stage[c] = "new", s = "reserving" => stage[c] = "checked",
           s = "reserved" => stage[c] = "reserving" /\ Pending(c) = {},
           s = "sent" => stage[c] = "reserved", s # "answered",
           stage[c] \notin {"ended", "lost"},
           request' \in [Calls -> RequestStatus],
           \A d \in Calls \ {c} : request'[d] = request[d],
           request'[c] = "SUCCEEDED" =>
               /\ request[c] = "SUCCEEDED" \/ stage[c] = "settled"
               /\ s \in {"ended", "failing", "released", "lost"},
           snapshot' \subseteq Calls, dispatched' \subseteq Calls, replayed' \subseteq Calls \X Calls
    PROVE  ChargeKeeps
<1> USE DEF ChargeInv
<1>1. GatewayTypeOK'
    BY DEF GatewayTypeOK
<1>2. stage'[c] = s /\ \A d \in Calls \ {c} : stage'[d] = stage[d]
    BY DEF GatewayTypeOK
<1>3. ReservedFirst'
    <2> SUFFICES ASSUME NEW d \in Calls, NEW p \in Policies
                 PROVE  /\ stage'[d] \in {"new", "checked"} => quota[d][p] = "NONE"
                        /\ stage'[d] = "reserving" => quota[d][p] \in {"NONE", "RESERVED"}
                        /\ stage'[d] \in {"reserved", "sent", "answered"} => quota[d][p] = "RESERVED"
        BY DEF ReservedFirst
    <2>1. CASE d = c
        BY <1>2, <2>1 DEF ReservedFirst, Pending
    <2>2. CASE d # c
        BY <1>2, <2>2 DEF ReservedFirst
    <2> QED
        BY <2>1, <2>2
<1>4. ASSUME NEW d \in Calls PROVE Charged(d)' <=> Charged(d)
    BY DEF Charged
<1>5. ChargedWhenSettled'
    <2> SUFFICES ASSUME NEW d \in Calls
                 PROVE  /\ stage'[d] = "answered" => usage[d] # NoUsage
                        /\ stage'[d] = "settled" => Charged(d)
                        /\ request'[d] = "SUCCEEDED"
                              => Charged(d) /\ stage'[d] \in {"ended", "failing", "released", "lost"}
        BY <1>4 DEF ChargedWhenSettled
    <2>1. CASE d = c
        BY <1>2, <2>1 DEF ChargedWhenSettled
    <2>2. CASE d # c
        BY <1>2, <2>2 DEF ChargedWhenSettled
    <2> QED
        BY <2>1, <2>2
<1>6. ChargeStep
    BY DEF ChargeStep
<1> QED
    BY <1>1, <1>3, <1>5, <1>6 DEF ChargeKeeps

\* A step of one call that changes its own reservations or usage.
OfCall(c) ==
    /\ \A p \in Policies :
          /\ stage[c] \in {"new", "checked"} => quota[c][p] = "NONE"
          /\ stage[c] = "reserving" => quota[c][p] \in {"NONE", "RESERVED"}
          /\ stage[c] \in {"reserved", "sent", "answered"} => quota[c][p] = "RESERVED"
    /\ stage[c] = "answered" => usage[c] # NoUsage
    /\ stage[c] = "settled" => Charged(c)
    /\ request[c] = "SUCCEEDED" => Charged(c) /\ stage[c] \in {"ended", "failing", "released", "lost"}

LEMMA OneCallMoves ==
    ASSUME ChargeInv, NEW c \in Calls, GatewayTypeOK', OfCall(c)',
           \A d \in Calls \ {c} : /\ quota'[d] = quota[d] /\ charge'[d] = charge[d] /\ usage'[d] = usage[d]
                                 /\ stage'[d] = stage[d] /\ request'[d] = request[d],
           \A p \in Policies : quota[c][p] \in SettledQuota =>
                                 quota'[c][p] = quota[c][p] /\ charge'[c][p] = charge[c][p]
    PROVE  ChargeKeeps
<1> USE DEF ChargeInv
<1>1. ASSUME NEW d \in Calls \ {c} PROVE Charged(d)' <=> Charged(d)
    BY DEF Charged
<1>2. ASSUME NEW d \in Calls PROVE OfCall(d)'
    <2>1. CASE d = c
        BY <2>1
    <2>2. CASE d # c
        BY <1>1, <2>2 DEF OfCall, ReservedFirst, ChargedWhenSettled
    <2> QED
        BY <2>1, <2>2
<1>3. ReservedFirst' /\ ChargedWhenSettled'
    BY <1>2 DEF OfCall, ReservedFirst, ChargedWhenSettled
<1>4. ChargeStep
    BY DEF ChargeStep
<1> QED
    BY <1>3, <1>4 DEF ChargeKeeps

\* A rollback happens before anything is settled.
LEMMA RollbackKeeps ==
    ASSUME ChargeInv, NEW c \in Calls, At(c, "reserving"), Rollback(c),
           NEW s \in {"rejecting", "unevaluated", "ended", "lost"}, Move(c, s),
           UNCHANGED <<mode, request, usage, snapshot, dispatched, replayed>>
    PROVE  ChargeKeeps
<1> USE DEF ChargeInv
<1> DEFINE none == [p \in Policies |-> "NONE"]
           zero == [p \in Policies |-> 0]
<1>1. quota' = [quota EXCEPT ![c] = none] /\ charge' = [charge EXCEPT ![c] = zero]
    BY DEF Rollback
<1>2. none \in [Policies -> QuotaStatus] /\ zero \in [Policies -> Nat]
    BY DEF QuotaStatus
<1> HIDE DEF none, zero
<1>3. lock' \in [Policies -> Calls \cup {NoCall}]
    BY DEF Rollback, Unlocked, GatewayTypeOK
<1>4. /\ quota' \in Table /\ charge' \in Charges
      /\ \A d \in Calls \ {c} : quota'[d] = quota[d] /\ charge'[d] = charge[d]
    BY <1>1, <1>2 DEF GatewayTypeOK, Table, Charges
<1>5. /\ stage' \in [Calls -> Stages] /\ stage'[c] = s
      /\ \A d \in Calls \ {c} : stage'[d] = stage[d]
    BY DEF GatewayTypeOK, Move, Stages
<1>6. GatewayTypeOK'
    BY <1>3, <1>4, <1>5 DEF GatewayTypeOK, Table, Charges
<1>7. request[c] # "SUCCEEDED" /\ \A p \in Policies : quota[c][p] \notin SettledQuota
    BY DEF ChargedWhenSettled, ReservedFirst, At, SettledQuota
<1>8. OfCall(c)'
    BY <1>5, <1>7 DEF OfCall
<1> QED
    BY <1>4, <1>5, <1>6, <1>7, <1>8, OneCallMoves

\* Settling closes what the call reserved, with what was used.
LEMMA SettleKeeps ==
    ASSUME ChargeInv, NEW c \in Calls, NEW total \in Totals \cup {Unknown}, NEW priced \in BOOLEAN,
           SettleAll(c, total, priced),
           \/ At(c, "answered") /\ Move(c, "settled") /\ total = usage[c]
           \/ At(c, "failing") /\ Move(c, "released"),
           UNCHANGED <<mode, request, lock, usage, snapshot, dispatched, replayed>>
    PROVE  ChargeKeeps
<1> USE DEF ChargeInv
<1>1. /\ quota' \in Table /\ charge' \in Charges
      /\ \A d \in Calls, p \in Policies :
            ~(d = c /\ Open(c, p)) => quota'[d][p] = quota[d][p] /\ charge'[d][p] = charge[d][p]
      /\ \A p \in Policies :
            Open(c, p) =>
                /\ quota'[c][p] \notin {"NONE", "RESERVED"}
                /\ total # Unknown /\ p \notin CostBased => charge'[c][p] = total
    BY SettleAllCloses
<1>2. \A d \in Calls \ {c} : quota'[d] = quota[d] /\ charge'[d] = charge[d]
    BY <1>1 DEF Table, Charges, GatewayTypeOK
<1>3. /\ stage' \in [Calls -> Stages] /\ stage'[c] \in {"settled", "released"}
      /\ \A d \in Calls \ {c} : stage'[d] = stage[d]
    BY DEF GatewayTypeOK, Move, Stages
<1>4. GatewayTypeOK'
    BY <1>1, <1>3 DEF GatewayTypeOK, Table, Charges
<1>5. \A p \in Policies : quota[c][p] \in SettledQuota =>
                               quota'[c][p] = quota[c][p] /\ charge'[c][p] = charge[c][p]
    BY <1>1 DEF Open, SettledQuota
<1>6. OfCall(c)'
    <2>1. CASE At(c, "answered") /\ Move(c, "settled") /\ total = usage[c]
        <3>1. stage'[c] = "settled" /\ request[c] # "SUCCEEDED" /\ usage[c] # NoUsage
            BY <2>1 DEF Move, At, GatewayTypeOK, ChargedWhenSettled
        <3>2. \A p \in Policies : Open(c, p)
            BY <2>1 DEF At, Open, ReservedFirst
        <3>3. Charged(c)'
            BY <1>1, <2>1, <3>1, <3>2 DEF Charged
        <3> QED
            BY <3>1, <3>3 DEF OfCall
    <2>2. CASE At(c, "failing") /\ Move(c, "released")
        <3>1. stage'[c] = "released"
            BY <2>2 DEF Move, GatewayTypeOK
        <3>2. request[c] = "SUCCEEDED" => Charged(c)'
            BY <1>1 DEF ChargedWhenSettled, Charged, Open
        <3> QED
            BY <3>1, <3>2 DEF OfCall
    <2> QED
        BY <2>1, <2>2
<1> QED
    BY <1>2, <1>3, <1>4, <1>5, <1>6, OneCallMoves

\* Every step of a call.
LEMMA ChargeAct == ChargeInv /\ [GatewayNext]_gatewayVars => ChargeKeeps
<1> SUFFICES ASSUME ChargeInv, [GatewayNext]_gatewayVars PROVE ChargeKeeps
    OBVIOUS
<1> USE GatewayAssumption
<1> DEFINE Typed == /\ mode \in [Calls -> Modes \cup {"NONE"}] /\ request \in [Calls -> RequestStatus]
                    /\ stage \in [Calls -> Stages] /\ lock \in [Policies -> Calls \cup {NoCall}]
                    /\ snapshot \subseteq Calls /\ dispatched \subseteq Calls /\ replayed \subseteq Calls \X Calls
<1>0. Typed
    BY DEF ChargeInv, GatewayTypeOK
<1>s. \A c \in Calls : request[c] = "SUCCEEDED" => stage[c] \in {"ended", "failing", "released", "lost"}
    BY DEF ChargeInv, ChargedWhenSettled
<1>1. ASSUME NEW c \in Calls, NEW via \in Ways[c], NEW fresh \in BOOLEAN, CheckKey(c, via, fresh) PROVE ChargeKeeps
    <2>1. mode' \in [Calls -> Modes \cup {"NONE"}] /\ replayed' \subseteq Calls \X Calls
        BY <1>0, <1>1 DEF CheckKey, KeyUsers
    <2>2. PICK s \in {"checked", "ended"} : stage' = [stage EXCEPT ![c] = s]
        BY <1>1 DEF CheckKey, Move
    <2>3. /\ stage[c] = "new"
          /\ UNCHANGED <<request, quota, charge, lock, usage, snapshot, dispatched>>
        BY <1>1 DEF CheckKey, At
    <2>4. request[c] # "SUCCEEDED"
        BY <1>s, <2>3
    <2> QED
        BY <1>0, <2>1, <2>2, <2>3, <2>4, ChargeRests DEF Stages
<1>2. ASSUME NEW c \in Calls, Insert(c) PROVE ChargeKeeps
    <2>1. PICK s \in {"reserving", "ended"} : stage' = [stage EXCEPT ![c] = s]
        BY <1>2 DEF Insert, Move
    <2>2. /\ stage[c] = "checked"
          /\ UNCHANGED <<mode, quota, charge, lock, usage, snapshot, dispatched, replayed>>
        BY <1>2 DEF Insert, At
    <2>3. PICK status \in RequestStatus : request' = [request EXCEPT ![c] = status] /\ status # "SUCCEEDED"
        BY <1>0, <1>2, <1>s, <2>2 DEF Insert, RequestStatus
    <2> QED
        BY <1>0, <2>1, <2>2, <2>3, ChargeRests DEF Stages
<1>3. ASSUME NEW c \in Calls, NEW p \in Policies, Reserve(c, p) PROVE ChargeKeeps
    <2>1. /\ stage[c] = "reserving" /\ quota[c][p] = "NONE"
          /\ quota' = [quota EXCEPT ![c][p] = "RESERVED"]
          /\ charge' = [charge EXCEPT ![c][p] = Amount[p]]
          /\ lock' = [lock EXCEPT ![p] = c]
          /\ UNCHANGED <<mode, request, stage, usage, snapshot, dispatched, replayed>>
        BY <1>3 DEF Reserve, At, Pending
    <2>2. quota' \in Table /\ charge' \in Charges
        BY <2>1 DEF ChargeInv, GatewayTypeOK, Table, Charges, QuotaStatus
    <2>3. GatewayTypeOK'
        BY <2>1, <2>2 DEF ChargeInv, GatewayTypeOK, Table, Charges
    <2>4. \A d \in Calls \ {c} : quota'[d] = quota[d] /\ charge'[d] = charge[d]
        BY <2>1 DEF ChargeInv, GatewayTypeOK
    <2>5. \A q \in Policies : quota'[c][q] = (IF q = p THEN "RESERVED" ELSE quota[c][q])
                             /\ (q # p => charge'[c][q] = charge[c][q])
        BY <2>1 DEF ChargeInv, GatewayTypeOK
    <2>6. OfCall(c)'
        BY <1>s, <2>1, <2>5 DEF OfCall, ChargeInv, ReservedFirst
    <2> QED
        BY <2>1, <2>3, <2>4, <2>5, <2>6, OneCallMoves DEF SettledQuota
<1>4. ASSUME NEW c \in Calls, NEW p \in Policies, QuotaRejects(c, p) PROVE ChargeKeeps
    BY <1>4, RollbackKeeps DEF QuotaRejects
<1>5. ASSUME NEW c \in Calls, CommitReservation(c) PROVE ChargeKeeps
    <2>1. lock' \in [Policies -> Calls \cup {NoCall}]
        BY <1>0, <1>5 DEF CommitReservation, Unlocked
    <2>2. /\ stage[c] = "reserving" /\ stage' = [stage EXCEPT ![c] = "reserved"] /\ Pending(c) = {}
          /\ UNCHANGED <<mode, request, quota, charge, usage, snapshot, dispatched, replayed>>
        BY <1>5 DEF CommitReservation, At, Move
    <2>3. request[c] # "SUCCEEDED"
        BY <1>s, <2>2
    <2> QED
        BY <1>0, <2>1, <2>2, <2>3, ChargeRests DEF Stages
<1>6. ASSUME NEW c \in Calls, ReservationFails(c) PROVE ChargeKeeps
    BY <1>6, RollbackKeeps DEF ReservationFails
<1>7. ASSUME NEW c \in Calls, MarkRefused(c) PROVE ChargeKeeps
    <2>1. PICK status \in {"QUOTA_REJECTED", "FAILED"} : request' = [request EXCEPT ![c] = status]
        BY <1>7 DEF MarkRefused
    <2>2. /\ stage[c] \in {"rejecting", "unevaluated"} /\ stage' = [stage EXCEPT ![c] = "ended"]
          /\ UNCHANGED <<mode, quota, charge, lock, usage, snapshot, dispatched, replayed>>
        BY <1>7 DEF MarkRefused, At, Move
    <2>3. request' \in [Calls -> RequestStatus] /\ request'[c] = status
          /\ \A d \in Calls \ {c} : request'[d] = request[d]
        BY <1>0, <2>1 DEF RequestStatus
    <2> QED
        BY <1>0, <2>2, <2>3, ChargeRests DEF Stages
<1>8. ASSUME NEW c \in Calls, Dispatch(c) PROVE ChargeKeeps
    <2>1. /\ stage[c] = "reserved" /\ stage' = [stage EXCEPT ![c] = "sent"] /\ dispatched' \subseteq Calls
          /\ UNCHANGED <<mode, request, quota, charge, lock, usage, snapshot, replayed>>
        BY <1>0, <1>8 DEF Dispatch, At, Move
    <2>2. request[c] # "SUCCEEDED"
        BY <1>s, <2>1
    <2> QED
        BY <1>0, <2>1, <2>2, ChargeRests DEF Stages
<1>9. ASSUME NEW c \in Calls, NEW total \in Totals \cup {Unknown}, Answer(c, total) PROVE ChargeKeeps
    <2>1. /\ stage[c] = "sent" /\ stage' = [stage EXCEPT ![c] = "answered"]
          /\ usage' = [usage EXCEPT ![c] = total]
          /\ UNCHANGED <<mode, request, quota, charge, lock, snapshot, dispatched, replayed>>
        BY <1>9 DEF Answer, At, Move
    <2>2. GatewayTypeOK'
        BY <2>1 DEF ChargeInv, GatewayTypeOK, Stages
    <2>3. /\ stage'[c] = "answered" /\ usage'[c] = total /\ total # NoUsage
          /\ \A d \in Calls \ {c} : stage'[d] = stage[d] /\ usage'[d] = usage[d]
        BY <2>1 DEF ChargeInv, GatewayTypeOK
    <2>4. OfCall(c)'
        BY <1>s, <2>1, <2>3 DEF OfCall, ChargeInv, ReservedFirst
    <2> QED
        BY <2>1, <2>2, <2>3, <2>4, OneCallMoves
<1>10. ASSUME NEW c \in Calls, NEW priced \in BOOLEAN, Settle(c, priced) PROVE ChargeKeeps
    <2>1. usage[c] \in Totals \cup {Unknown}
        BY <1>10 DEF Settle, At, ChargeInv, ChargedWhenSettled, GatewayTypeOK
    <2>2. /\ SettleAll(c, usage[c], priced) /\ At(c, "answered") /\ Move(c, "settled")
          /\ UNCHANGED <<mode, request, lock, usage, snapshot, dispatched, replayed>>
        BY <1>10 DEF Settle
    <2> DEFINE total == usage[c]
    <2>3. total \in Totals \cup {Unknown} /\ SettleAll(c, total, priced) /\ total = usage[c]
        BY <2>1, <2>2
    <2> HIDE DEF total
    <2> QED
        BY <2>2, <2>3, SettleKeeps
<1>11. ASSUME NEW c \in Calls, NEW acked \in BOOLEAN, Finalize(c, acked) PROVE ChargeKeeps
    <2>1. PICK s \in {"ended", "failing"} : stage' = [stage EXCEPT ![c] = s]
        BY <1>11 DEF Finalize, Move
    <2>2. /\ stage[c] = "settled" /\ request' = [request EXCEPT ![c] = "SUCCEEDED"]
          /\ UNCHANGED <<mode, quota, charge, lock, usage, dispatched, replayed>>
        BY <1>11 DEF Finalize, At
    <2>3. request' \in [Calls -> RequestStatus] /\ snapshot' \subseteq Calls
        BY <1>0, <1>11, <2>2 DEF Finalize, RequestStatus
    <2>4. \A d \in Calls \ {c} : request'[d] = request[d]
        BY <1>0, <2>2
    <2> QED
        BY <1>0, <2>1, <2>2, <2>3, <2>4, ChargeRests DEF Stages
<1>12. ASSUME NEW c \in Calls, CallFails(c) \/ HangUp(c) PROVE ChargeKeeps
    <2>1. PICK s \in {"failing", "ended"} : stage' = [stage EXCEPT ![c] = s]
        BY <1>12 DEF CallFails, HangUp, Move
    <2>2. /\ stage[c] \in {"sent", "answered", "settled"}
          /\ UNCHANGED <<mode, request, quota, charge, lock, usage, snapshot, dispatched, replayed>>
        BY <1>12 DEF CallFails, HangUp, At
    <2>3. request[c] # "SUCCEEDED"
        BY <1>s, <2>2
    <2> QED
        BY <1>0, <2>1, <2>2, <2>3, ChargeRests DEF Stages
<1>13. ASSUME NEW c \in Calls, Release(c) PROVE ChargeKeeps
    <2>1. CASE mode[c] = "stream"
        BY <1>13, <2>1, SettleKeeps DEF Release
    <2>2. CASE mode[c] # "stream"
        <3> DEFINE q == [p \in Policies |-> IF Open(c, p) THEN "RELEASED" ELSE quota[c][p]]
        <3>1. /\ stage[c] = "failing" /\ stage' = [stage EXCEPT ![c] = "released"]
              /\ quota' = [quota EXCEPT ![c] = q]
              /\ UNCHANGED <<charge, mode, request, lock, usage, snapshot, dispatched, replayed>>
            BY <1>13, <2>2 DEF Release, At, Move
        <3>2. q \in [Policies -> QuotaStatus]
            BY DEF ChargeInv, GatewayTypeOK, QuotaStatus
        <3>3. \A p \in Policies : q[p] = IF Open(c, p) THEN "RELEASED" ELSE quota[c][p]
            OBVIOUS
        <3> HIDE DEF q
        <3>4. GatewayTypeOK'
            BY <3>1, <3>2 DEF ChargeInv, GatewayTypeOK, Stages
        <3>5. /\ quota'[c] = q /\ stage'[c] = "released"
              /\ \A d \in Calls \ {c} : quota'[d] = quota[d] /\ stage'[d] = stage[d]
            BY <3>1 DEF ChargeInv, GatewayTypeOK
        <3>6. request[c] = "SUCCEEDED" => Charged(c)'
            BY <3>1, <3>3, <3>5 DEF ChargeInv, ChargedWhenSettled, Charged, Open
        <3>7. OfCall(c)'
            BY <3>1, <3>5, <3>6 DEF OfCall
        <3> QED
            BY <3>1, <3>3, <3>4, <3>5, <3>7, OneCallMoves DEF Open, SettledQuota
    <2> QED
        BY <2>1, <2>2
<1>14. ASSUME NEW c \in Calls, MarkFailed(c) PROVE ChargeKeeps
    <2>1. /\ stage[c] = "released" /\ stage' = [stage EXCEPT ![c] = "ended"]
          /\ UNCHANGED <<mode, quota, charge, lock, usage, snapshot, dispatched, replayed>>
        BY <1>14 DEF MarkFailed, At, Move
    <2>2. PICK status \in RequestStatus :
              request' = [request EXCEPT ![c] = status] /\ (status = "SUCCEEDED" => request[c] = "SUCCEEDED")
        BY <1>0, <1>14 DEF MarkFailed, RequestStatus
    <2>3. /\ request' \in [Calls -> RequestStatus] /\ request'[c] = status
          /\ \A d \in Calls \ {c} : request'[d] = request[d]
        BY <1>0, <2>2
    <2> QED
        BY <1>0, <2>1, <2>2, <2>3, ChargeRests DEF Stages
<1>15. ASSUME NEW c \in Calls, CallDies(c) PROVE ChargeKeeps
    <2>1. CASE At(c, "reserving")
        BY <1>15, <2>1, RollbackKeeps DEF CallDies
    <2>2. CASE ~At(c, "reserving")
        <3>1. /\ stage[c] \notin {"new", "ended", "lost"} /\ stage' = [stage EXCEPT ![c] = "lost"]
              /\ UNCHANGED <<mode, request, quota, charge, lock, usage, snapshot, dispatched, replayed>>
            BY <1>15, <2>2 DEF CallDies, Move
        <3> QED
            BY <1>0, <1>s, <3>1, ChargeRests DEF Stages
    <2> QED
        BY <2>1, <2>2
<1>16. CASE UNCHANGED gatewayVars
    <2> USE <1>16 DEF gatewayVars, ChargeInv
    <2>1. GatewayTypeOK' /\ ReservedFirst'
        BY DEF GatewayTypeOK, ReservedFirst
    <2>2. ChargedWhenSettled' /\ ChargeStep
        BY DEF ChargedWhenSettled, Charged, ChargeStep
    <2> QED
        BY <2>1, <2>2 DEF ChargeKeeps
<1> QED
    BY <1>1, <1>2, <1>3, <1>4, <1>5, <1>6, <1>7, <1>8, <1>9, <1>10, <1>11, <1>12, <1>13, <1>14, <1>15, <1>16
       DEF GatewayNext

\* The invariant holds of every behaviour.
LEMMA GatewayInvariant == GatewaySpec => []GatewayInv
<1>1. GatewayInv /\ [GatewayNext]_gatewayVars => GatewayInv'
    BY KeyStep, ChargeAct DEF GatewayInv, KeyInv, ChargeInv, ChargeKeeps
<1> QED
    BY <1>1, GatewayInitially, PTL DEF GatewaySpec

\* The requests, reservations and calls in flight keep their types.
THEOREM GatewayTypes == GatewaySpec => []GatewayTypeOK
<1>1. GatewayInv => GatewayTypeOK
    BY DEF GatewayInv
<1> QED
    BY <1>1, GatewayInvariant, PTL

\* Of any number of calls with one key at most one reaches the provider, and an
\* answer from a snapshot is the answer of that one.
THEOREM KeyDispatchesOnce == GatewaySpec => []OneDispatch
<1>1. GatewayInv => OneDispatch
    <2> SUFFICES ASSUME GatewayInv PROVE OneDispatch
        OBVIOUS
    <2>1. \A c \in dispatched : c \in Calls /\ request[c] # "NONE"
        BY DEF GatewayInv, GatewayTypeOK, DispatchFollowsInsert
    <2>2. \A c, d \in dispatched : Key[c] = Key[d] => c = d
        BY <2>1 DEF GatewayInv, KeysAreUnique
    <2> QED
        BY <2>2 DEF GatewayInv, ReplaysEnded, OneDispatch
<1> QED
    BY <1>1, GatewayInvariant, PTL

\* A settled reservation rests, whatever its call does or fails to do later.
THEOREM ChargesAreFinal == GatewaySpec => ChargeIsFinal
<1>1. GatewayInv /\ [GatewayNext]_gatewayVars => [ChargeStep]_gatewayVars
    BY ChargeAct DEF GatewayInv, ChargeInv, ChargeKeeps
<1> QED
    BY <1>1, GatewayInvariant, PTL DEF GatewaySpec, ChargeIsFinal

\* A call that SUCCEEDED reserved nothing any more and was charged what the provider
\* reported.
THEOREM SuccessesAreCharged == GatewaySpec => []SuccessIsCharged
<1>1. GatewayInv => SuccessIsCharged
    BY DEF GatewayInv, ChargedWhenSettled, Charged, SuccessIsCharged
<1> QED
    BY <1>1, GatewayInvariant, PTL

(***************************************************************************)
(* Sums.  SumFunction folds over a set in the order CHOOSE picks, by a     *)
(* recursive function on the subsets.  That this function exists, and what *)
(* it computes, are inductions: the library's induction theorems take a    *)
(* predicate, so the least counterexample stands in for them.              *)
(***************************************************************************)
Pick(T) == CHOOSE x \in T : TRUE
\* The equation of the recursive function, and the one that CHOOSE takes.
Sums(g, f, S) == g = [T \in SUBSET S |-> IF T = {} THEN 0 ELSE f[Pick(T)] + g[T \ {Pick(T)}]]
SumsOf(f, S) == CHOOSE g : Sums(g, f, S)

\* SumFunction is that function, at the whole domain.
LEMMA SumIs == ASSUME NEW f PROVE SumFunction(f) = SumsOf(f, DOMAIN f)[DOMAIN f]
BY DEF SumFunction, SumFunctionOnSet, FoldFunctionOnSet, MapThenFoldSet, SumsOf, Sums, Pick

Less == {ss \in Nat \X Nat : ss[1] < ss[2]}

\* A set of numbers has a least one.
LEMMA LeastNumber == ASSUME NEW N \in SUBSET Nat, N # {} PROVE \E n \in N : \A m \in N : n <= m
<1>1. IsWellFoundedOn(Less, Nat)
    BY NatLessThanWellFounded DEF OpToRel, Less
<1>2. PICK n \in N : \A m \in N : <<m, n>> \notin Less
    BY <1>1, WFMin
<1>3. ASSUME NEW m \in N PROVE n <= m
    <2>1. <<m, n>> \in Nat \X Nat /\ <<m, n>> \notin Less
        BY <1>2
    <2>2. ~(m < n)
        BY <2>1 DEF Less
    <2> QED
        BY <2>2
<1> QED
    BY <1>3

\* Of some subsets of a finite set one has no other below it.
LEMMA SmallestSubset ==
    ASSUME NEW S, IsFiniteSet(S), NEW B, B \subseteq SUBSET S, B # {}
    PROVE  \E T \in B : \A U \in SUBSET T : U # T => U \notin B
<1>1. IsWellFoundedOn(StrictSubsetOrdering(S), SUBSET S)
    BY FS_StrictSubsetOrderingWellFounded, FS_FiniteSubsetsOfFinite
<1>2. PICK T \in B : \A U \in B : <<U, T>> \notin StrictSubsetOrdering(S)
    BY <1>1, WFMin
<1>3. ASSUME NEW U \in SUBSET T, U # T, U \in B PROVE FALSE
    <2>1. <<U, T>> \in (SUBSET S) \X (SUBSET S)
        BY <1>3
    <2> QED
        BY <1>2, <1>3, <2>1 DEF StrictSubsetOrdering
<1> QED
    BY <1>3

\* What is picked of a set is in it.
LEMMA PickIn == ASSUME NEW T, T # {} PROVE Pick(T) \in T
BY DEF Pick

\* The recursive function exists: one that obeys its equation for all subsets of
\* up to n elements is the step to one that does for n + 1.
LEMMA SumsExist ==
    ASSUME NEW S, IsFiniteSet(S), NEW f \in [S -> Nat]
    PROVE  \E g : Sums(g, f, S)
<1> DEFINE Body(g, T) == IF T = {} THEN 0 ELSE f[Pick(T)] + g[T \ {Pick(T)}]
           UpTo(n, g) == \A T \in SUBSET S : Cardinality(T) <= n => g[T] = Body(g, T)
           Bad == {n \in Nat : ~ \E g \in [SUBSET S -> Nat] : UpTo(n, g)}
<1>a. \A T \in SUBSET S : IsFiniteSet(T) /\ Cardinality(T) \in Nat
    BY FS_Subset, FS_CardinalityType
<1>1. Bad = {}
    <2> SUFFICES ASSUME Bad # {} PROVE FALSE
        OBVIOUS
    <2>1. PICK n \in Bad : \A m \in Bad : n <= m
        BY LeastNumber
    <2>2. CASE n = 0
        <3>1. \A T \in SUBSET S : Cardinality(T) <= 0 => T = {}
            BY <1>a, FS_EmptySet
        <3>2. [T \in SUBSET S |-> 0] \in [SUBSET S -> Nat]
            OBVIOUS
        <3>3. UpTo(0, [T \in SUBSET S |-> 0])
            BY <3>1
        <3> QED
            BY <2>2, <3>2, <3>3
    <2>3. CASE n # 0
        <3>b. n \in Nat
            BY <2>1
        <3>1. n - 1 \in Nat /\ n - 1 \notin Bad
            <4> HIDE DEF Bad
            <4> QED
                BY <2>1, <2>3, <3>b
        <3>2. PICK g \in [SUBSET S -> Nat] : UpTo(n - 1, g)
            BY <3>1
        <3> DEFINE h == [T \in SUBSET S |-> Body(g, T)]
        <3>a. ASSUME NEW T \in SUBSET S, T # {}
              PROVE  /\ Pick(T) \in S /\ T \ {Pick(T)} \in SUBSET S
                     /\ Cardinality(T \ {Pick(T)}) = Cardinality(T) - 1
            BY <1>a, <3>a, PickIn, FS_RemoveElement
        <3>3. h \in [SUBSET S -> Nat]
            <4>1. ASSUME NEW T \in SUBSET S PROVE Body(g, T) \in Nat
                <5>1. CASE T = {}
                    BY <5>1
                <5>2. CASE T # {}
                    <6>1. f[Pick(T)] \in Nat /\ g[T \ {Pick(T)}] \in Nat
                        BY <3>a, <5>2
                    <6> QED
                        BY <5>2, <6>1
                <5> QED
                    BY <5>1, <5>2
            <4> QED
                BY <4>1
        <3>4. \A T \in SUBSET S : Cardinality(T) <= n - 1 => h[T] = g[T]
            BY <3>2
        <3>5. ASSUME NEW T \in SUBSET S, Cardinality(T) <= n PROVE h[T] = Body(h, T)
            <4>1. CASE T = {}
                BY <4>1
            <4>2. CASE T # {}
                <5>1. Cardinality(T \ {Pick(T)}) <= n - 1 /\ T \ {Pick(T)} \in SUBSET S
                    BY <1>a, <3>a, <3>5, <4>2
                <5>2. h[T \ {Pick(T)}] = g[T \ {Pick(T)}]
                    BY <3>4, <5>1
                <5> QED
                    BY <4>2, <5>2
            <4> QED
                BY <4>1, <4>2
        <3>6. UpTo(n, h)
            BY <3>5
        <3> QED
            BY <3>3, <3>6
    <2> QED
        BY <2>2, <2>3
<1>2. Cardinality(S) \in Nat /\ \A T \in SUBSET S : Cardinality(T) <= Cardinality(S)
    BY <1>a, FS_Subset
<1>3. PICK g \in [SUBSET S -> Nat] : UpTo(Cardinality(S), g)
    BY <1>1, <1>2
<1>4. \A T \in SUBSET S : g[T] = Body(g, T)
    BY <1>2, <1>3
<1>5. g = [T \in SUBSET S |-> Body(g, T)]
    BY <1>4
<1> QED
    BY <1>5 DEF Sums

\* What g says of f on the subsets of S: their sums.
PartialSums(g, f, S) ==
    /\ g[{}] = 0 /\ \A T \in SUBSET S : g[T] \in Nat
    /\ \A T \in SUBSET S : T # {} =>
          /\ Pick(T) \in T /\ T \ {Pick(T)} \in SUBSET S
          /\ g[T] = f[Pick(T)] + g[T \ {Pick(T)}]

\* SumFunction(f) is the last of the sums of the subsets of f's domain.
LEMMA SumsAdd ==
    ASSUME NEW S, IsFiniteSet(S), NEW f \in [S -> Nat]
    PROVE  \E g : PartialSums(g, f, S) /\ SumFunction(f) = g[S]
<1>1. Sums(SumsOf(f, S), f, S)
    BY SumsExist DEF SumsOf
<1> DEFINE g == SumsOf(f, S)
           Wrong == {T \in SUBSET S : g[T] \notin Nat}
<1>2. \A T \in SUBSET S : g[T] = IF T = {} THEN 0 ELSE f[Pick(T)] + g[T \ {Pick(T)}]
    <2> HIDE DEF g
    <2>1. g = [T \in SUBSET S |-> IF T = {} THEN 0 ELSE f[Pick(T)] + g[T \ {Pick(T)}]]
        BY <1>1 DEF g, Sums
    <2>2. \A G : G = [T \in SUBSET S |-> IF T = {} THEN 0 ELSE f[Pick(T)] + g[T \ {Pick(T)}]]
                  => \A T \in SUBSET S : G[T] = IF T = {} THEN 0 ELSE f[Pick(T)] + g[T \ {Pick(T)}]
        OBVIOUS
    <2> QED
        BY <2>1, <2>2
<1>3. \A T \in SUBSET S : T # {} => Pick(T) \in T /\ T \ {Pick(T)} \in SUBSET S
    BY PickIn
<1>z. g[{}] = 0
    <2> HIDE DEF g
    <2> QED
        BY <1>2
<1>4. Wrong = {}
    <2> SUFFICES ASSUME Wrong # {} PROVE FALSE
        OBVIOUS
    <2>a. Wrong \subseteq SUBSET S
        OBVIOUS
    <2>1. PICK T \in Wrong : \A U \in SUBSET T : U # T => U \notin Wrong
        <3> HIDE DEF Wrong
        <3> QED
            BY <2>a, SmallestSubset
    <2>b. T \in SUBSET S /\ g[T] \notin Nat
        BY <2>1
    <2>2. T # {}
        <3>1. CASE T = {}
            BY <1>z, <2>b, <3>1
        <3> QED
            BY <3>1
    <2>3. T \ {Pick(T)} \notin Wrong
        BY <1>3, <2>1, <2>2
    <2>4. f[Pick(T)] \in Nat /\ g[T \ {Pick(T)}] \in Nat
        BY <1>3, <2>2, <2>3
    <2>5. g[T] = f[Pick(T)] + g[T \ {Pick(T)}]
        BY <1>2, <2>2, <2>b
    <2> QED
        BY <2>4, <2>5, <2>b
<1>5. SumFunction(f) = g[S]
    BY SumIs
<1> HIDE DEF g
<1>6. PartialSums(g, f, S)
    BY <1>2, <1>3, <1>4, <1>z DEF PartialSums
<1> QED
    BY <1>5, <1>6

\* A sum of smaller numbers is no larger.
LEMMA SumBelow ==
    ASSUME NEW S, IsFiniteSet(S), NEW f \in [S -> Nat], NEW h \in [S -> Nat],
           \A x \in S : f[x] <= h[x]
    PROVE  SumFunction(f) <= SumFunction(h)
<1>1. PICK F : PartialSums(F, f, S) /\ SumFunction(f) = F[S]
    BY SumsAdd
<1>2. PICK H : PartialSums(H, h, S) /\ SumFunction(h) = H[S]
    BY SumsAdd
<1> USE DEF PartialSums
<1> DEFINE Wrong == {T \in SUBSET S : ~(F[T] <= H[T])}
<1>3. Wrong = {}
    <2> SUFFICES ASSUME Wrong # {} PROVE FALSE
        OBVIOUS
    <2>a. Wrong \subseteq SUBSET S
        OBVIOUS
    <2>1. PICK T \in Wrong : \A U \in SUBSET T : U # T => U \notin Wrong
        <3> HIDE DEF Wrong
        <3> QED
            BY <2>a, SmallestSubset
    <2>b. T \in SUBSET S /\ ~(F[T] <= H[T])
        BY <2>1
    <2>2. T # {}
        <3>1. CASE T = {}
            BY <1>1, <1>2, <2>b, <3>1
        <3> QED
            BY <3>1
    <2>3. T \ {Pick(T)} \notin Wrong
        BY <1>1, <1>2, <2>1, <2>2
    <2>4. /\ F[T \ {Pick(T)}] <= H[T \ {Pick(T)}] /\ Pick(T) \in S
          /\ F[T \ {Pick(T)}] \in Nat /\ H[T \ {Pick(T)}] \in Nat
        BY <1>1, <1>2, <2>2, <2>3
    <2>5. /\ F[T] = f[Pick(T)] + F[T \ {Pick(T)}] /\ f[Pick(T)] \in Nat
          /\ H[T] = h[Pick(T)] + H[T \ {Pick(T)}] /\ h[Pick(T)] \in Nat
          /\ f[Pick(T)] <= h[Pick(T)]
        BY <1>1, <1>2, <2>2, <2>4, <2>b
    <2> QED
        BY <2>4, <2>5, <2>b
<1> QED
    BY <1>1, <1>2, <1>3

\* A sum grows by what one of its numbers grows.
LEMMA SumAt ==
    ASSUME NEW S, IsFiniteSet(S), NEW f \in [S -> Nat], NEW h \in [S -> Nat],
           NEW c \in S, NEW d \in Nat, h[c] = f[c] + d, \A x \in S \ {c} : h[x] = f[x]
    PROVE  SumFunction(h) = SumFunction(f) + d
<1>1. PICK F : PartialSums(F, f, S) /\ SumFunction(f) = F[S]
    BY SumsAdd
<1>2. PICK H : PartialSums(H, h, S) /\ SumFunction(h) = H[S]
    BY SumsAdd
<1> USE DEF PartialSums
<1> DEFINE Wrong == {T \in SUBSET S : H[T] # F[T] + (IF c \in T THEN d ELSE 0)}
<1>3. Wrong = {}
    <2> SUFFICES ASSUME Wrong # {} PROVE FALSE
        OBVIOUS
    <2>a. Wrong \subseteq SUBSET S
        OBVIOUS
    <2>1. PICK T \in Wrong : \A U \in SUBSET T : U # T => U \notin Wrong
        <3> HIDE DEF Wrong
        <3> QED
            BY <2>a, SmallestSubset
    <2>b. T \in SUBSET S /\ H[T] # F[T] + (IF c \in T THEN d ELSE 0)
        BY <2>1
    <2>2. T # {}
        <3>1. CASE T = {}
            BY <1>1, <1>2, <2>b, <3>1
        <3> QED
            BY <3>1
    <2> DEFINE x == Pick(T)
               U == T \ {x}
    <2>3. x \in T /\ x \in S /\ U \in SUBSET S
        BY <1>1, <1>2, <2>2
    <2>4. U \notin Wrong
        BY <2>1, <2>3
    <2>5. /\ F[T] = f[x] + F[U] /\ H[T] = h[x] + H[U]
          /\ F[U] \in Nat /\ H[U] \in Nat /\ f[x] \in Nat /\ h[x] \in Nat
        BY <1>1, <1>2, <2>2, <2>3
    <2> HIDE DEF x
    <2>6. H[U] = F[U] + (IF c \in U THEN d ELSE 0)
        BY <2>3, <2>4
    <2>7. H[T] # F[T] + (IF c \in T THEN d ELSE 0)
        BY <2>1
    <2>8. CASE x = c
        BY <2>3, <2>5, <2>6, <2>7, <2>8
    <2>9. CASE x # c
        BY <2>3, <2>5, <2>6, <2>7, <2>9
    <2> QED
        BY <2>8, <2>9
<1>4. F[S] \in Nat /\ H[S] = F[S] + d
    BY <1>1, <1>2, <1>3
<1> QED
    BY <1>1, <1>2, <1>4

\* A sum of numbers is a number.
LEMMA SumIsNat ==
    ASSUME NEW S, IsFiniteSet(S), NEW f \in [S -> Nat]
    PROVE  SumFunction(f) \in Nat
<1>1. PICK g : PartialSums(g, f, S) /\ SumFunction(f) = g[S]
    BY SumsAdd
<1> QED
    BY <1>1 DEF PartialSums

\* A sum of zeros is zero.
LEMMA SumOfZeros ==
    ASSUME NEW S, IsFiniteSet(S)
    PROVE  SumFunction([x \in S |-> 0]) = 0
<1> DEFINE f == [x \in S |-> 0]
<1>0. f \in [S -> Nat] /\ \A x \in S : f[x] = 0
    OBVIOUS
<1> HIDE DEF f
<1>1. PICK g : PartialSums(g, f, S) /\ SumFunction(f) = g[S]
    BY <1>0, SumsAdd
<1> USE DEF PartialSums
<1> DEFINE Wrong == {T \in SUBSET S : g[T] # 0}
<1>2. Wrong = {}
    <2> SUFFICES ASSUME Wrong # {} PROVE FALSE
        OBVIOUS
    <2>a. Wrong \subseteq SUBSET S
        OBVIOUS
    <2>1. PICK T \in Wrong : \A U \in SUBSET T : U # T => U \notin Wrong
        <3> HIDE DEF Wrong
        <3> QED
            BY <2>a, SmallestSubset
    <2>b. T \in SUBSET S /\ g[T] # 0
        BY <2>1
    <2>2. T # {}
        BY <1>1, <2>b
    <2>3. T \ {Pick(T)} \notin Wrong
        BY <1>1, <2>1, <2>2, <2>b
    <2>4. g[T \ {Pick(T)}] = 0 /\ f[Pick(T)] = 0
        BY <1>0, <1>1, <2>2, <2>3, <2>b
    <2>5. g[T] = f[Pick(T)] + g[T \ {Pick(T)}]
        BY <1>1, <2>2, <2>b
    <2> QED
        BY <2>4, <2>5, <2>b
<1>3. SumFunction(f) = 0
    BY <1>1, <1>2
<1> QED
    BY <1>3 DEF f

(***************************************************************************)
(* The quota.  Two calls never have the same room: the one that reads a    *)
(* policy holds its lock, so all that was reserved before it is committed, *)
(* and what it reads is all there is.                                      *)
(***************************************************************************)
\* An open reservation is booked with the policy's amount, and one that is not
\* committed yet is behind the lock of its policy.
ReservedIsAmount ==
    \A c \in Calls, p \in Policies : quota[c][p] = "RESERVED" => charge[c][p] = Amount[p]
LockedWhileReserving ==
    \A c \in Calls, p \in Policies :
        stage[c] = "reserving" /\ quota[c][p] # "NONE" => lock[p] = c

Room == ReservedIsAmount /\ LockedWhileReserving
QuotaInv == Room /\ QuotaHolds

\* What call c takes of the limit of policy p.
Share(c, p) == AsReserved(p, Booked(c, p))

\* Shares are numbers, and no larger than what is booked.
LEMMA ShareType ==
    ASSUME GatewayTypeOK, NEW c \in Calls, NEW p \in Policies
    PROVE  Share(c, p) \in Nat /\ Booked(c, p) \in Nat /\ Share(c, p) <= Booked(c, p)
BY GatewayAssumption DEF GatewayTypeOK, Share, AsReserved, Booked

\* A step in which no call takes more of a policy keeps the policy's limit.
LEMMA WithinFalls ==
    ASSUME GatewayTypeOK, GatewayTypeOK', NEW p \in Policies, Within(p) <= Limit[p],
           \A c \in Calls : Share(c, p)' <= Share(c, p)
    PROVE  Within(p)' <= Limit[p]
<1> DEFINE f == [c \in Calls |-> Share(c, p)]
           h == [c \in Calls |-> Share(c, p)']
<1>1. f \in [Calls -> Nat] /\ h \in [Calls -> Nat]
    <2>1. \A c \in Calls : Share(c, p) \in Nat
        BY ShareType
    <2>2. \A c \in Calls : Share(c, p)' \in Nat
        BY ShareType, GatewayAssumption DEF GatewayTypeOK, Share, AsReserved, Booked
    <2> QED
        BY <2>1, <2>2
<1>2. Within(p) = SumFunction(f) /\ Within(p)' = SumFunction(h)
    BY DEF Within, Share
<1>3. \A c \in Calls : h[c] <= f[c]
    OBVIOUS
<1>4. SumFunction(f) \in Nat /\ SumFunction(h) \in Nat
    BY <1>1, SumIsNat, GatewayAssumption
<1>5. Limit[p] \in Nat
    BY GatewayAssumption
<1> HIDE DEF f, h
<1>6. SumFunction(h) <= SumFunction(f)
    BY <1>1, <1>3, SumBelow, GatewayAssumption
<1> QED
    BY <1>2, <1>4, <1>5, <1>6

\* A reservation fits: what its call reads is at least all shares there are.
LEMMA WithinAfterReserve ==
    ASSUME GatewayTypeOK, GatewayTypeOK', Room, NEW p \in Hard, NEW c \in Calls, Reserve(c, p)
    PROVE  Within(p)' <= Limit[p]
<1> DEFINE f == [d \in Calls |-> Share(d, p)]
           h == [d \in Calls |-> Share(d, p)']
           all == [d \in Calls |-> IF At(d, "reserving") THEN 0 ELSE Booked(d, p)]
<1>0. /\ p \in Policies /\ IsFiniteSet(Calls) /\ Amount[p] \in Nat /\ Limit[p] \in Nat
      /\ NoCall \notin Calls
    BY GatewayAssumption
<1>1. /\ quota[c][p] = "NONE" /\ lock[p] = NoCall /\ Spent(p) + Amount[p] <= Limit[p]
      /\ quota' = [quota EXCEPT ![c][p] = "RESERVED"]
      /\ charge' = [charge EXCEPT ![c][p] = Amount[p]]
    <2>1. Spent(p) + Amount[p] \in Int
        <3>1. Spent(p) = SumFunction(all)
            BY DEF Spent
        <3>2. all \in [Calls -> Nat]
            BY <1>0, ShareType
        <3> HIDE DEF all
        <3>3. SumFunction(all) \in Nat
            BY <1>0, <3>2, SumIsNat
        <3> QED
            BY <1>0, <3>1, <3>3
    <2> QED
        BY <1>0, <2>1 DEF Reserve, Pending, PolicyFree, Exhausted, Projected
<1>2. /\ quota'[c][p] = "RESERVED" /\ charge'[c][p] = Amount[p]
      /\ \A d \in Calls \ {c} : quota'[d] = quota[d] /\ charge'[d] = charge[d]
    BY <1>0, <1>1 DEF GatewayTypeOK
<1>3. /\ f \in [Calls -> Nat] /\ h \in [Calls -> Nat] /\ all \in [Calls -> Nat]
    <2>1. \A d \in Calls : Share(d, p) \in Nat /\ Booked(d, p) \in Nat
        BY <1>0, ShareType
    <2>2. \A d \in Calls : Share(d, p)' \in Nat
        BY <1>0 DEF GatewayTypeOK, Share, AsReserved, Booked
    <2> QED
        BY <2>1, <2>2
<1>4. Share(c, p) = 0 /\ Share(c, p)' = Amount[p]
    BY <1>0, <1>1, <1>2 DEF Share, AsReserved, Booked, Counted
<1>5. \A d \in Calls \ {c} : Share(d, p)' = Share(d, p)
    BY <1>2 DEF Share, AsReserved, Booked
<1>6. \A d \in Calls : f[d] <= all[d]
    <2> SUFFICES ASSUME NEW d \in Calls
                 PROVE  Share(d, p) <= IF At(d, "reserving") THEN 0 ELSE Booked(d, p)
        OBVIOUS
    <2>1. CASE At(d, "reserving")
        <3>1. quota[d][p] = "NONE"
            BY <1>0, <1>1, <2>1 DEF Room, LockedWhileReserving, At
        <3> QED
            BY <1>0, <2>1, <3>1 DEF Share, AsReserved, Booked, Counted
    <2>2. CASE ~At(d, "reserving")
        BY <1>0, <2>2, ShareType
    <2> QED
        BY <2>1, <2>2
<1>7. Spent(p) = SumFunction(all) /\ Within(p)' = SumFunction(h)
    BY DEF Spent, Within, Share
<1>8. h[c] = f[c] + Amount[p] /\ \A d \in Calls \ {c} : h[d] = f[d]
    BY <1>0, <1>4, <1>5
<1> HIDE DEF f, h, all
<1>9. SumFunction(f) <= SumFunction(all)
    BY <1>0, <1>3, <1>6, SumBelow
<1>10. SumFunction(h) = SumFunction(f) + Amount[p]
    BY <1>0, <1>3, <1>8, SumAt
<1>11. SumFunction(f) \in Nat /\ SumFunction(all) \in Nat
    BY <1>0, <1>3, SumIsNat
<1> QED
    BY <1>0, <1>1, <1>7, <1>9, <1>10, <1>11

\* One call moves, and takes no more of any policy than it did.
LEMMA RoomKept ==
    ASSUME GatewayTypeOK, GatewayTypeOK', QuotaInv, NEW c \in Calls,
           \A d \in Calls \ {c} : /\ quota'[d] = quota[d] /\ charge'[d] = charge[d]
                                 /\ stage'[d] = stage[d]
                                 /\ \A p \in Policies : lock[p] = d => lock'[p] = d,
           \A p \in Policies :
               /\ quota'[c][p] = "RESERVED" => charge'[c][p] = Amount[p]
               /\ stage'[c] = "reserving" /\ quota'[c][p] # "NONE" => lock'[p] = c
               /\ Share(c, p)' <= Share(c, p)
    PROVE  QuotaInv'
<1>1. Room'
    BY DEF QuotaInv, Room, ReservedIsAmount, LockedWhileReserving
<1>2. ASSUME NEW p \in Hard PROVE Within(p)' <= Limit[p]
    <2>1. p \in Policies /\ Within(p) <= Limit[p]
        BY GatewayAssumption DEF QuotaInv, QuotaHolds
    <2>2. ASSUME NEW d \in Calls PROVE Share(d, p)' <= Share(d, p)
        <3>1. CASE d = c
            BY <2>1, <3>1
        <3>2. CASE d # c
            <4>1. Share(d, p)' = Share(d, p)
                BY <3>2 DEF Share, AsReserved, Booked
            <4> QED
                BY <2>1, <4>1, ShareType
        <3> QED
            BY <3>1, <3>2
    <2> QED
        BY <2>1, <2>2, WithinFalls
<1> QED
    BY <1>1, <1>2 DEF QuotaInv, QuotaHolds

\* A call that leaves the reservations alone keeps QuotaInv, unless it starts to
\* reserve with something reserved.
LEMMA RoomRests ==
    ASSUME GatewayTypeOK, GatewayTypeOK', QuotaInv, NEW c \in Calls, UNCHANGED <<quota, charge>>,
           \A d \in Calls \ {c} : /\ stage'[d] = stage[d]
                                 /\ \A p \in Policies : lock[p] = d => lock'[p] = d,
           stage'[c] = "reserving" => \A p \in Policies : quota[c][p] = "NONE"
    PROVE  QuotaInv'
<1>1. ASSUME NEW p \in Policies PROVE Share(c, p)' <= Share(c, p)
    <2>1. Share(c, p)' = Share(c, p)
        BY DEF Share, AsReserved, Booked
    <2> QED
        BY <2>1, ShareType
<1> QED
    BY <1>1, RoomKept DEF QuotaInv, Room, ReservedIsAmount

\* A rollback takes nothing, and only the locks of its own call are given back.
LEMMA RoomAfterRollback ==
    ASSUME GatewayTypeOK, GatewayTypeOK', QuotaInv, NEW c \in Calls, Rollback(c),
           \A d \in Calls \ {c} : stage'[d] = stage[d]
    PROVE  QuotaInv'
<1>1. \A p \in Policies : quota'[c][p] = "NONE"
    BY DEF Rollback, GatewayTypeOK
<1>2. \A d \in Calls \ {c} : quota'[d] = quota[d] /\ charge'[d] = charge[d]
    BY DEF Rollback, GatewayTypeOK
<1>3. \A d \in Calls \ {c}, p \in Policies : lock[p] = d => lock'[p] = d
    BY DEF Rollback, Unlocked
<1>4. ASSUME NEW p \in Policies PROVE Share(c, p)' <= Share(c, p)
    <2>1. Share(c, p)' = 0
        BY <1>1, GatewayAssumption DEF Share, AsReserved, Booked, Counted
    <2> QED
        BY <2>1, ShareType
<1> QED
    BY <1>1, <1>2, <1>3, <1>4, RoomKept

\* Settling takes no more of a policy than was reserved: less if the call used
\* less, and what it used beyond its reservation does not count.
LEMMA RoomAfterSettle ==
    ASSUME GatewayTypeOK, GatewayTypeOK', QuotaInv, NEW c \in Calls,
           NEW total \in Totals \cup {Unknown}, NEW priced \in BOOLEAN, SettleAll(c, total, priced),
           \A d \in Calls \ {c} : stage'[d] = stage[d], stage'[c] # "reserving", lock' = lock
    PROVE  QuotaInv'
<1>1. /\ \A d \in Calls, p \in Policies :
            ~(d = c /\ Open(c, p)) => quota'[d][p] = quota[d][p] /\ charge'[d][p] = charge[d][p]
      /\ \A p \in Policies : Open(c, p) => quota'[c][p] # "RESERVED"
    BY SettleAllCloses
<1>2. \A d \in Calls \ {c} : quota'[d] = quota[d] /\ charge'[d] = charge[d]
    BY DEF SettleAll, GatewayTypeOK
<1>3. ASSUME NEW p \in Policies PROVE Share(c, p)' <= Share(c, p)
    <2>1. Share(c, p) \in Nat /\ Amount[p] \in Nat /\ charge'[c][p] \in Nat
        BY ShareType, GatewayAssumption DEF GatewayTypeOK
    <2>2. CASE Open(c, p)
        <3>1. Share(c, p) = Amount[p]
            BY <2>1, <2>2 DEF Open, QuotaInv, Room, ReservedIsAmount, Share, AsReserved, Booked, Counted
        <3>2. Share(c, p)' <= Amount[p]
            BY <2>1 DEF Share, AsReserved, Booked
        <3> QED
            BY <3>1, <3>2
    <2>3. CASE ~Open(c, p)
        <3>1. Share(c, p)' = Share(c, p)
            BY <1>1, <2>3 DEF Share, AsReserved, Booked
        <3> QED
            BY <2>1, <3>1
    <2> QED
        BY <2>2, <2>3
<1>4. \A p \in Policies : quota'[c][p] = "RESERVED" => charge'[c][p] = Amount[p]
    BY <1>1 DEF Open
<1> QED
    BY <1>2, <1>3, <1>4, RoomKept

\* Every step keeps QuotaInv.
LEMMA QuotaStep ==
    ASSUME ChargeInv, GatewayTypeOK', QuotaInv, [GatewayNext]_gatewayVars
    PROVE  QuotaInv'
<1>t. GatewayTypeOK
    BY DEF ChargeInv
<1>1. ASSUME NEW c \in Calls,
             \/ \E via \in Ways[c], fresh \in BOOLEAN : CheckKey(c, via, fresh)
             \/ MarkRefused(c) \/ Dispatch(c) \/ (\E total \in Totals \cup {Unknown} : Answer(c, total))
             \/ (\E acked \in BOOLEAN : Finalize(c, acked))
             \/ CallFails(c) \/ MarkFailed(c) \/ HangUp(c)
      PROVE  QuotaInv'
    <2>1. PICK s \in Stages \ {"reserving"} : stage' = [stage EXCEPT ![c] = s]
        BY <1>1 DEF CheckKey, MarkRefused, Dispatch, Answer, Finalize, CallFails, MarkFailed, HangUp,
                    Move, Stages
    <2>2. UNCHANGED <<quota, charge, lock>>
        BY <1>1 DEF CheckKey, MarkRefused, Dispatch, Answer, Finalize, CallFails, MarkFailed, HangUp
    <2>3. stage'[c] # "reserving" /\ \A d \in Calls \ {c} : stage'[d] = stage[d]
        BY <1>t, <2>1 DEF GatewayTypeOK
    <2> QED
        BY <1>t, <2>2, <2>3, RoomRests
<1>2. ASSUME NEW c \in Calls, Insert(c) PROVE QuotaInv'
    <2>1. /\ UNCHANGED <<quota, charge, lock>> /\ \A d \in Calls \ {c} : stage'[d] = stage[d]
          /\ \A p \in Policies : quota[c][p] = "NONE"
        BY <1>t, <1>2 DEF Insert, Move, At, GatewayTypeOK, ChargeInv, ReservedFirst
    <2> QED
        BY <1>t, <2>1, RoomRests
<1>3. ASSUME NEW c \in Calls, NEW p \in Policies, Reserve(c, p) PROVE QuotaInv'
    <2>1. /\ lock[p] = NoCall /\ stage' = stage /\ lock' = [lock EXCEPT ![p] = c]
          /\ quota' = [quota EXCEPT ![c][p] = "RESERVED"]
          /\ charge' = [charge EXCEPT ![c][p] = Amount[p]]
        BY <1>3 DEF Reserve, PolicyFree
    <2>2. \A d \in Calls, q \in Policies :
              IF d = c /\ q = p
              THEN quota'[d][q] = "RESERVED" /\ charge'[d][q] = Amount[q] /\ lock'[q] = d
              ELSE /\ quota'[d][q] = quota[d][q] /\ charge'[d][q] = charge[d][q]
                   /\ lock[q] = d => lock'[q] = d
        BY <1>t, <2>1, GatewayAssumption DEF GatewayTypeOK
    <2>3. Room'
        BY <2>1, <2>2 DEF QuotaInv, Room, ReservedIsAmount, LockedWhileReserving
    <2>4. ASSUME NEW q \in Hard PROVE Within(q)' <= Limit[q]
        <3>1. CASE q = p
            BY <1>t, <1>3, <3>1, WithinAfterReserve DEF QuotaInv
        <3>2. CASE q # p
            <4>1. q \in Policies /\ Within(q) <= Limit[q]
                BY GatewayAssumption DEF QuotaInv, QuotaHolds
            <4>2. ASSUME NEW d \in Calls PROVE Share(d, q)' <= Share(d, q)
                <5>1. Share(d, q)' = Share(d, q)
                    BY <2>2, <3>2, <4>1 DEF Share, AsReserved, Booked
                <5> QED
                    BY <1>t, <4>1, <5>1, ShareType
            <4> QED
                BY <1>t, <4>1, <4>2, WithinFalls
        <3> QED
            BY <3>1, <3>2
    <2> QED
        BY <2>3, <2>4 DEF QuotaInv, QuotaHolds
<1>4. ASSUME NEW c \in Calls, CommitReservation(c) PROVE QuotaInv'
    <2>1. /\ UNCHANGED <<quota, charge>> /\ stage'[c] = "reserved"
          /\ \A d \in Calls \ {c} : stage'[d] = stage[d]
        BY <1>t, <1>4 DEF CommitReservation, Move, GatewayTypeOK
    <2>2. \A d \in Calls \ {c}, p \in Policies : lock[p] = d => lock'[p] = d
        BY <1>4 DEF CommitReservation, Unlocked
    <2> QED
        BY <1>t, <2>1, <2>2, RoomRests
<1>5. ASSUME NEW c \in Calls, Rollback(c), NEW s \in Stages, Move(c, s) PROVE QuotaInv'
    <2>1. \A d \in Calls \ {c} : stage'[d] = stage[d]
        BY <1>t, <1>5 DEF Move, GatewayTypeOK
    <2> QED
        BY <1>t, <1>5, <2>1, RoomAfterRollback
<1>6. ASSUME NEW c \in Calls, ReservationFails(c) \/ \E p \in Policies : QuotaRejects(c, p)
      PROVE  QuotaInv'
    <2>1. PICK s \in Stages : Rollback(c) /\ Move(c, s)
        BY <1>6 DEF ReservationFails, QuotaRejects, Stages
    <2> QED
        BY <1>5, <2>1
<1>7. ASSUME NEW c \in Calls, NEW priced \in BOOLEAN, Settle(c, priced) PROVE QuotaInv'
    <2>1. stage'[c] # "reserving" /\ lock' = lock /\ \A d \in Calls \ {c} : stage'[d] = stage[d]
        BY <1>t, <1>7 DEF Settle, Move, GatewayTypeOK
    <2> DEFINE total == usage[c]
    <2>2. total \in Totals \cup {Unknown} /\ SettleAll(c, total, priced)
        BY <1>7 DEF Settle, At, ChargeInv, ChargedWhenSettled, GatewayTypeOK
    <2> HIDE DEF total
    <2> QED
        BY <1>t, <2>1, <2>2, RoomAfterSettle
<1>8. ASSUME NEW c \in Calls, Release(c) PROVE QuotaInv'
    <2>1. stage'[c] # "reserving" /\ lock' = lock /\ \A d \in Calls \ {c} : stage'[d] = stage[d]
        BY <1>t, <1>8 DEF Release, Move, GatewayTypeOK
    <2>2. CASE mode[c] = "stream"
        BY <1>t, <1>8, <2>1, <2>2, RoomAfterSettle DEF Release
    <2>3. CASE mode[c] # "stream"
        <3>1. /\ charge' = charge
              /\ quota' = [quota EXCEPT ![c] = [p \in Policies |->
                               IF Open(c, p) THEN "RELEASED" ELSE quota[c][p]]]
            BY <1>8, <2>3 DEF Release
        <3>2. /\ \A d \in Calls \ {c} : quota'[d] = quota[d]
              /\ \A p \in Policies : quota'[c][p] = IF Open(c, p) THEN "RELEASED" ELSE quota[c][p]
            BY <1>t, <3>1 DEF GatewayTypeOK
        <3>3. ASSUME NEW p \in Policies PROVE Share(c, p)' <= Share(c, p)
            <4>1. Share(c, p) \in Nat /\ Amount[p] \in Nat
                BY <1>t, ShareType, GatewayAssumption
            <4>2. Share(c, p)' = 0 \/ Share(c, p)' = Share(c, p)
                BY <3>1, <3>2, <4>1 DEF Share, AsReserved, Booked, Counted
            <4> QED
                BY <4>1, <4>2
        <3>4. \A p \in Policies : quota'[c][p] = "RESERVED" => charge'[c][p] = Amount[p]
            BY <3>1, <3>2 DEF Open
        <3> QED
            BY <1>t, <2>1, <3>1, <3>2, <3>3, <3>4, RoomKept
    <2> QED
        BY <2>2, <2>3
<1>9. ASSUME NEW c \in Calls, CallDies(c) PROVE QuotaInv'
    <2>1. CASE At(c, "reserving")
        BY <1>5, <1>9, <2>1 DEF CallDies, Stages
    <2>2. CASE ~At(c, "reserving")
        <3>1. /\ UNCHANGED <<quota, charge, lock>> /\ stage'[c] # "reserving"
              /\ \A d \in Calls \ {c} : stage'[d] = stage[d]
            BY <1>t, <1>9, <2>2 DEF CallDies, Move, GatewayTypeOK
        <3> QED
            BY <1>t, <3>1, RoomRests
    <2> QED
        BY <2>1, <2>2
<1>10. CASE UNCHANGED gatewayVars
    BY <1>10 DEF gatewayVars, QuotaInv, Room, ReservedIsAmount, LockedWhileReserving, QuotaHolds, Within,
                 AsReserved, Booked
<1> QED
    BY <1>1, <1>2, <1>3, <1>4, <1>6, <1>7, <1>8, <1>9, <1>10 DEF GatewayNext

\* Nothing is reserved at first.
LEMMA QuotaInitially == GatewayInit => QuotaInv
<1> SUFFICES ASSUME GatewayInit PROVE QuotaInv
    OBVIOUS
<1>1. Room
    BY DEF GatewayInit, Room, ReservedIsAmount, LockedWhileReserving
<1>2. ASSUME NEW p \in Hard PROVE Within(p) <= Limit[p]
    <2> DEFINE f == [c \in Calls |-> Share(c, p)]
    <2>1. p \in Policies /\ Limit[p] \in Nat /\ Amount[p] \in Nat
        BY GatewayAssumption
    <2>2. f = [c \in Calls |-> 0]
        BY <2>1 DEF GatewayInit, Share, AsReserved, Booked, Counted
    <2>3. Within(p) = SumFunction(f)
        BY DEF Within, Share
    <2>4. SumFunction([c \in Calls |-> 0]) = 0
        BY SumOfZeros, GatewayAssumption
    <2> QED
        BY <2>1, <2>2, <2>3, <2>4
<1> QED
    BY <1>1, <1>2 DEF QuotaInv, QuotaHolds

\* The reservations of any number of concurrent calls never share the room of a
\* hard policy, whatever they settle, release or leave open when they die: what
\* they were granted stays within its limit.
THEOREM QuotaIsKept == GatewaySpec => []QuotaHolds
<1>1. GatewayInit => GatewayInv /\ QuotaInv
    BY GatewayInitially, QuotaInitially
<1>2. GatewayInv /\ QuotaInv /\ [GatewayNext]_gatewayVars => (GatewayInv /\ QuotaInv)'
    BY KeyStep, ChargeAct, QuotaStep DEF GatewayInv, KeyInv, ChargeInv, ChargeKeeps
<1>3. QuotaInv => QuotaHolds
    BY DEF QuotaInv
<1> QED
    BY <1>1, <1>2, <1>3, PTL DEF GatewaySpec
===============================================================================
