------------------------- MODULE AjoRotationProofs -------------------------
(***************************************************************************)
(* Proofs about an Ajo group.  Part 1: AjoRotation, for groups of any      *)
(* size, any contribution and any number of requests and swaps.  Part 2:   *)
(* AjoFormation, which ends where part 1 starts.                           *)
(***************************************************************************)
EXTENDS AjoRotation, AjoFormation, Sums, TLAPS

\* Slots and cycles are numbered alike, and a payout is an amount.
LEMMA Positions == Slots = Cycles /\ 1 \in Slots /\ PayoutAmount \in Nat
<1>1. 1 \in 1..N
  BY GroupAssumption
<1>2. Due * N \in Nat
  BY GroupAssumption
<1> QED
  BY <1>1, <1>2 DEF Slots, Cycles, PayoutAmount

\* Changing the status of one row keeps every version's length and turns.
LEMMA TurnUpdate ==
    ASSUME TypeOK, NEW v \in 1..Version, NEW c \in Cycles, NEW st \in PayoutScheduleStatus,
           rotation' = [rotation EXCEPT ![v][c].status = st]
    PROVE  /\ rotation' \in Seq([Cycles -> Turn])
           /\ Version' = Version
           /\ \A w \in 1..Version, d \in Cycles : rotation'[w][d].slot = rotation[w][d].slot
<1>1. rotation \in Seq([Cycles -> Turn]) /\ rotation[v] \in [Cycles -> Turn]
  BY DEF TypeOK, Version
<1>2. [rotation[v] EXCEPT ![c].status = st] \in [Cycles -> Turn]
  BY <1>1 DEF Turn
<1>3. rotation' = [rotation EXCEPT ![v] = [rotation[v] EXCEPT ![c].status = st]]
  BY <1>1
<1>4. rotation' \in Seq([Cycles -> Turn]) /\ Len(rotation') = Len(rotation)
  BY <1>1, <1>2, <1>3 DEF Version
<1>5. ASSUME NEW w \in 1..Version, NEW d \in Cycles
      PROVE  rotation'[w][d].slot = rotation[w][d].slot
  <2>1. rotation[w] \in [Cycles -> Turn]
    BY <1>1 DEF Version
  <2> QED
    BY <1>1, <1>3, <2>1 DEF Version, Turn
<1> QED
  BY <1>4, <1>5 DEF Version

\* contributionScheduleStatusFor says PAID exactly when the due is paid.
LEMMA StatusForPaid ==
    ASSUME NEW paid \in Nat, paid > 0, paid <= Due
    PROVE  /\ StatusFor(paid) = "PAID" <=> paid = Due
           /\ StatusFor(paid) \in {"DUE", "PARTIALLY_PAID", "PAID"}
<1>1. CASE paid = Due
  BY <1>1, GroupAssumption DEF StatusFor
<1>2. CASE paid # Due
  <2>1. ~(paid >= Due)
    BY <1>2, GroupAssumption
  <2> QED
    BY <1>2, <2>1 DEF StatusFor
<1> QED
  BY <1>1, <1>2

\* recordContributionWithin: no schedule is overpaid, its status follows, and
\* a schedule that was PAID is not touched.
LEMMA RecordKeeps ==
    ASSUME IInv, NEW c \in Cycles, NEW s \in Slots, NEW k \in Keys \cup Intents, NEW a \in Nat,
           IsOwed(c, s, a), wallet[OwnerOf[s]] >= a, Record(c, s, k, a), UNCHANGED payouts
    PROVE  /\ collected' \in [Cycles -> [Slots -> [paid: Nat, status: ScheduleStatus]]]
           /\ contributions' \subseteq Contribution
           /\ wallet' \in [Members -> Nat]
           /\ pool' \in Nat
           /\ StatusFollowsPaid'
           /\ PaidOnlyWhenCollected'
<1> DEFINE row == collected[c][s]
           new == [paid |-> row.paid + a, status |-> StatusFor(row.paid + a)]
<1>1. /\ collected \in [Cycles -> [Slots -> [paid: Nat, status: ScheduleStatus]]]
      /\ row.paid \in Nat /\ row.paid + a <= Due /\ a > 0 /\ row.paid # Due
  BY GroupAssumption DEF IInv, TypeOK, IsOwed
<1>2. new \in [paid: Nat, status: ScheduleStatus]
  BY <1>1 DEF StatusFor, ScheduleStatus
<1>3. /\ new.paid <= Due
      /\ new.status = "PAID" <=> new.paid = Due
      /\ new.status \in {"PENDING", "DUE", "PARTIALLY_PAID", "PAID"}
  <2>1. new.paid = row.paid + a /\ new.status = StatusFor(row.paid + a)
    OBVIOUS
  <2>2. row.paid + a \in Nat /\ row.paid + a > 0 /\ Due \in Nat
    BY <1>1, GroupAssumption
  <2>3. /\ StatusFor(row.paid + a) = "PAID" <=> row.paid + a = Due
        /\ StatusFor(row.paid + a) \in {"DUE", "PARTIALLY_PAID", "PAID"}
    BY <1>1, <2>2, StatusForPaid
  <2> HIDE DEF new, row
  <2> QED
    BY <1>1, <2>1, <2>3
<1>4. row.status # "PAID"
  BY <1>1 DEF IInv, StatusFollowsPaid
<1>5. collected' = [collected EXCEPT ![c][s] = new]
  BY DEF Record
<1> HIDE DEF new
<1>6. collected' \in [Cycles -> [Slots -> [paid: Nat, status: ScheduleStatus]]]
  BY <1>1, <1>2, <1>5
<1>7. \A d \in Cycles, t \in Slots :
        collected'[d][t] = IF d = c /\ t = s THEN new ELSE collected[d][t]
  BY <1>1, <1>5
<1>8. StatusFollowsPaid'
  BY <1>3, <1>7 DEF IInv, StatusFollowsPaid
<1>9. PaidOnlyWhenCollected'
  <2>1. \A p \in payouts : p.cycle \in Cycles
    BY DEF IInv, TypeOK, Payout
  <2> QED
    BY <1>4, <1>7, <2>1 DEF IInv, PaidOnlyWhenCollected
<1>10. contributions' \subseteq Contribution
  BY DEF IInv, TypeOK, Record, Contribution
<1>11. wallet' \in [Members -> Nat]
  <2>1. OwnerOf[s] \in Members
    BY GroupAssumption
  <2> QED
    BY <2>1 DEF IInv, TypeOK, Record
<1>12. pool' \in Nat
  BY DEF IInv, TypeOK, Record
<1> QED
  BY <1>6, <1>8, <1>9, <1>10, <1>11, <1>12

\* The turns of a version survive a change of its statuses.
LEMMA TurnsKept ==
    ASSUME EverySlotHasATurn, Version' = Version,
           \A w \in 1..Version, d \in Cycles : rotation'[w][d].slot = rotation[w][d].slot
    PROVE  EverySlotHasATurn'
<1> SUFFICES ASSUME NEW w \in 1..Version
             PROVE  {rotation'[w][c].slot : c \in Cycles} = Slots
  BY DEF EverySlotHasATurn
<1>1. {rotation[w][c].slot : c \in Cycles} = Slots
  BY DEF EverySlotHasATurn
<1> QED
  BY <1>1

\* A swap hands two turns round, so every slot still has one.
LEMMA SwappedTurns ==
    ASSUME NEW turns \in [Cycles -> Turn], {turns[c].slot : c \in Cycles} = Slots,
           NEW x \in Swaps, swap[x].from \in Slots, swap[x].to \in Slots,
           NEW next, next = [c \in Cycles |-> [slot |-> Swapped(x, turns[c].slot),
                                               status |-> "PENDING"]]
    PROVE  /\ next \in [Cycles -> Turn]
           /\ {next[c].slot : c \in Cycles} = Slots
<1>1. \A s \in Slots : Swapped(x, s) \in Slots /\ Swapped(x, Swapped(x, s)) = s
  BY DEF Swapped
<1>2. \A c \in Cycles : turns[c].slot \in Slots /\ next[c].slot = Swapped(x, turns[c].slot)
  BY DEF Turn
<1>3. next \in [Cycles -> Turn]
  BY <1>1, <1>2 DEF Turn, PayoutScheduleStatus
<1>4. ASSUME NEW s \in Slots PROVE \E c \in Cycles : next[c].slot = s
  <2>1. PICK c \in Cycles : turns[c].slot = Swapped(x, s)
    BY <1>1
  <2> QED
    BY <1>1, <1>2, <2>1
<1> QED
  BY <1>1, <1>2, <1>3, <1>4

\* The rows lock creates satisfy the invariant.
LEMMA InitIInv == Init => IInv
<1> SUFFICES ASSUME Init PROVE IInv
  OBVIOUS
<1>1. FirstRotation \in [Cycles -> Turn]
  BY Positions DEF FirstRotation, Turn, PayoutScheduleStatus
<1>2. rotation = <<FirstRotation>> /\ Version = 1 /\ rotation[1] = FirstRotation
  BY DEF Init, Version
<1>3. TypeOK
  <2>1. intent \in [Intents -> Intent] /\ executor \in [Executors -> Executor]
    BY Positions DEF Init, Intent, Executor
  <2>2. swap \in [Swaps -> Swap]
    BY Positions DEF Init, Swap
  <2> QED
    BY <1>1, <1>2, <2>1, <2>2, GroupAssumption DEF Init, TypeOK, ScheduleStatus
<1>4. StatusFollowsPaid
  BY GroupAssumption DEF Init, StatusFollowsPaid
<1>5. RowsExist
  BY <1>2 DEF Init, RowsExist
<1>6. PaidOnlyWhenCollected
  BY DEF Init, PaidOnlyWhenCollected
<1>7. EverySlotHasATurn
  BY <1>2, Positions DEF EverySlotHasATurn, FirstRotation
<1> QED
  BY <1>3, <1>4, <1>5, <1>6, <1>7 DEF IInv

\* One step of the system keeps the invariant and every published turn.
LEMMA NextIInv ==
    ASSUME IInv, [Next]_vars
    PROVE  /\ IInv'
           /\ \A v \in 1..Version : /\ v \in 1..Version'
                                    /\ \A c \in Cycles : rotation'[v][c].slot = rotation[v][c].slot
<1> DEFINE Kept == \A v \in 1..Version :
                     /\ v \in 1..Version'
                     /\ \A c \in Cycles : rotation'[v][c].slot = rotation[v][c].slot
<1>0. ASSUME UNCHANGED rotation, EverySlotHasATurn
      PROVE  EverySlotHasATurn' /\ Kept /\ Version' = Version
  BY <1>0 DEF EverySlotHasATurn, Version
<1>1. ASSUME NEW c \in Cycles, NEW s \in Slots, NEW k \in Keys, NEW a \in 1..Due,
             PayContribution(c, s, k, a)
      PROVE  IInv' /\ Kept
  <2>1. /\ a \in Nat /\ IsOwed(c, s, a) /\ wallet[OwnerOf[s]] >= a /\ Record(c, s, k, a)
        /\ UNCHANGED <<intent, rotation, payouts, swap, executor>>
    BY <1>1, GroupAssumption DEF PayContribution
  <2>2. /\ collected' \in [Cycles -> [Slots -> [paid: Nat, status: ScheduleStatus]]]
        /\ contributions' \subseteq Contribution /\ wallet' \in [Members -> Nat] /\ pool' \in Nat
        /\ StatusFollowsPaid' /\ PaidOnlyWhenCollected'
    BY <2>1, RecordKeeps
  <2> QED
    BY <1>0, <2>1, <2>2 DEF IInv, TypeOK, RowsExist
<1>2. ASSUME NEW i \in Intents, NEW c \in Cycles, NEW s \in Slots, NEW a \in 1..Due,
             CreateIntent(i, c, s, a)
      PROVE  IInv' /\ Kept
  <2>1. intent' \in [Intents -> Intent]
    BY <1>2, GroupAssumption DEF CreateIntent, Intent, IInv, TypeOK
  <2>2. UNCHANGED <<money, rotation, payouts, swap, executor>>
    BY <1>2 DEF CreateIntent
  <2> QED
    BY <1>0, <2>1, <2>2 DEF IInv, TypeOK, StatusFollowsPaid, PaidOnlyWhenCollected, RowsExist, money
<1>3. ASSUME NEW i \in Intents, ConfirmIntent(i)
      PROVE  IInv' /\ Kept
  <2> DEFINE c == intent[i].cycle  s == intent[i].slot  a == intent[i].amount
  <2>1. c \in Cycles /\ s \in Slots /\ a \in Nat
    BY DEF IInv, TypeOK, Intent
  <2>2. /\ IsOwed(c, s, a) /\ wallet[OwnerOf[s]] >= a /\ Record(c, s, i, a)
        /\ UNCHANGED <<rotation, payouts, swap, executor>>
        /\ intent' = [intent EXCEPT ![i].status = "SUCCEEDED"]
    BY <1>3 DEF ConfirmIntent
  <2>3. intent' \in [Intents -> Intent]
    BY <2>2 DEF IInv, TypeOK, Intent
  <2> HIDE DEF c, s, a
  <2>4. /\ collected' \in [Cycles -> [Slots -> [paid: Nat, status: ScheduleStatus]]]
        /\ contributions' \subseteq Contribution /\ wallet' \in [Members -> Nat] /\ pool' \in Nat
        /\ StatusFollowsPaid' /\ PaidOnlyWhenCollected'
    BY <2>1, <2>2, RecordKeeps
  <2> QED
    BY <1>0, <2>2, <2>3, <2>4 DEF IInv, TypeOK, RowsExist
<1>4. ASSUME NEW v \in 1..Version, NEW c \in Cycles, SettlePayout(v, c)
      PROVE  IInv' /\ Kept
  <2> DEFINE s == rotation[v][c].slot
  <2>1. s \in Slots /\ OwnerOf[s] \in Members /\ v \in Nat \ {0}
    BY GroupAssumption DEF IInv, TypeOK, Turn, Version
  <2>2. /\ pool >= PayoutAmount /\ pool' = pool - PayoutAmount
        /\ wallet' = [wallet EXCEPT ![OwnerOf[s]] = @ + PayoutAmount]
        /\ payouts' = payouts \cup {[version |-> v, cycle |-> c, slot |-> s]}
        /\ rotation' = [rotation EXCEPT ![v][c].status = "PAID"]
        /\ IsFullyCollected(c)
        /\ UNCHANGED <<collected, contributions, intent, swap, executor>>
    BY <1>4 DEF SettlePayout, PayOut
  <2> HIDE DEF s
  <2>3. pool' \in Nat /\ wallet' \in [Members -> Nat]
    <3>1. pool \in Nat /\ wallet \in [Members -> Nat] /\ PayoutAmount \in Nat
      BY Positions DEF IInv, TypeOK
    <3>2. wallet[OwnerOf[s]] + PayoutAmount \in Nat
      BY <2>1, <3>1
    <3> QED
      BY <2>1, <2>2, <3>1, <3>2
  <2>4. payouts' \subseteq Payout
    BY <2>1, <2>2 DEF IInv, TypeOK, Payout
  <2>5. /\ rotation' \in Seq([Cycles -> Turn]) /\ Version' = Version
        /\ \A w \in 1..Version, d \in Cycles : rotation'[w][d].slot = rotation[w][d].slot
    <3>1. "PAID" \in PayoutScheduleStatus
      BY DEF PayoutScheduleStatus
    <3> QED
      BY <2>2, <3>1, TurnUpdate DEF IInv
  <2>6. TypeOK' /\ StatusFollowsPaid'
    BY <2>2, <2>3, <2>4, <2>5 DEF IInv, TypeOK, StatusFollowsPaid
  <2>7. \A t \in Slots : collected[c][t].status = "PAID"
    BY <2>2 DEF IsFullyCollected, IsOutstanding, IInv, StatusFollowsPaid
  <2>8. PaidOnlyWhenCollected'
    BY <2>2, <2>7 DEF IInv, PaidOnlyWhenCollected
  <2>9. RowsExist'
    BY <2>2, <2>5 DEF IInv, RowsExist, Version, TypeOK
  <2> QED
    BY <2>5, <2>6, <2>8, <2>9, TurnsKept DEF IInv
<1>5. ASSUME NEW e \in Executors, NEW v \in 1..Version, NEW c \in Cycles, RefusePayout(e, v, c)
      PROVE  IInv' /\ Kept
  <2>1. v \in Nat
    BY DEF IInv, TypeOK, Version
  <2>2. /\ executor' = [executor EXCEPT ![e] = [pc |-> "hold", version |-> v, cycle |-> c]]
        /\ UNCHANGED <<money, intent, rotation, payouts, swap>>
    BY <1>5 DEF RefusePayout
  <2>3. executor' \in [Executors -> Executor]
    BY <2>1, <2>2 DEF IInv, TypeOK, Executor
  <2>4. \A f \in Executors : executor'[f].version \in 1..Version
    BY <2>2 DEF IInv, TypeOK, RowsExist
  <2> QED
    BY <1>0, <2>2, <2>3, <2>4
    DEF IInv, TypeOK, StatusFollowsPaid, PaidOnlyWhenCollected, RowsExist, money
<1>6. ASSUME NEW e \in Executors, Hold(e)
      PROVE  IInv' /\ Kept
  <2> DEFINE v == executor[e].version  c == executor[e].cycle
  <2>1. v \in 1..Version /\ c \in Cycles
    BY DEF IInv, TypeOK, RowsExist, Executor
  <2>2. /\ rotation' = [rotation EXCEPT ![v][c].status = "HELD"]
        /\ executor' = [executor EXCEPT ![e].pc = "idle"]
        /\ UNCHANGED <<money, intent, payouts, swap>>
    BY <1>6 DEF Hold
  <2>3. /\ executor' \in [Executors -> Executor]
        /\ \A f \in Executors : executor'[f].version = executor[f].version
    BY <2>2 DEF IInv, TypeOK, Executor
  <2> HIDE DEF v, c
  <2>4. /\ rotation' \in Seq([Cycles -> Turn]) /\ Version' = Version
        /\ \A w \in 1..Version, d \in Cycles : rotation'[w][d].slot = rotation[w][d].slot
    <3>1. "HELD" \in PayoutScheduleStatus
      BY DEF PayoutScheduleStatus
    <3> QED
      BY <2>1, <2>2, <3>1, TurnUpdate DEF IInv
  <2>5. TypeOK' /\ StatusFollowsPaid' /\ PaidOnlyWhenCollected'
    BY <2>2, <2>3, <2>4 DEF IInv, TypeOK, StatusFollowsPaid, PaidOnlyWhenCollected, money
  <2>6. RowsExist'
    BY <2>1, <2>2, <2>3, <2>4 DEF IInv, RowsExist, Version, TypeOK
  <2> QED
    BY <2>4, <2>5, <2>6, TurnsKept DEF IInv
<1>7. ASSUME NEW e \in Executors, HoldLost(e)
      PROVE  IInv' /\ Kept
  <2>1. /\ executor' = [executor EXCEPT ![e].pc = "idle"]
        /\ UNCHANGED <<money, intent, rotation, payouts, swap>>
    BY <1>7 DEF HoldLost
  <2>2. /\ executor' \in [Executors -> Executor]
        /\ \A f \in Executors : executor'[f].version = executor[f].version
    BY <2>1 DEF IInv, TypeOK, Executor
  <2> QED
    BY <1>0, <2>1, <2>2
    DEF IInv, TypeOK, StatusFollowsPaid, PaidOnlyWhenCollected, RowsExist, money
<1>8. ASSUME swap' \in [Swaps -> Swap], UNCHANGED <<money, intent, rotation, payouts, executor>>
      PROVE  IInv' /\ Kept
  BY <1>0, <1>8 DEF IInv, TypeOK, StatusFollowsPaid, PaidOnlyWhenCollected, RowsExist, money
<1>9. ASSUME NEW x \in Swaps, NEW m \in Members, NEW from \in Slots, NEW to \in Slots,
             RequestSwap(x, m, from, to)
      PROVE  IInv' /\ Kept
  <2>1. Version \in Nat
    BY DEF IInv, TypeOK, Version
  <2>2. swap' \in [Swaps -> Swap]
    BY <1>9, <2>1 DEF RequestSwap, Swap, IInv, TypeOK
  <2> QED
    BY <1>8, <1>9, <2>2 DEF RequestSwap
<1>10. ASSUME NEW x \in Swaps, NEW m \in Members, Approve(x, m) \/ Reject(x, m)
      PROVE  IInv' /\ Kept
  <2>1. swap \in [Swaps -> Swap] /\ swap[x] \in Swap
    BY DEF IInv, TypeOK
  <2>2. ASSUME Approve(x, m) PROVE swap' \in [Swaps -> Swap]
    <3>1. swap' = [swap EXCEPT ![x].approved = @ \cup {m}]
      BY <2>2 DEF Approve
    <3> QED
      BY <2>1, <3>1 DEF Swap
  <2>3. ASSUME Reject(x, m) PROVE swap' \in [Swaps -> Swap]
    <3>1. swap' = [swap EXCEPT ![x].approved = @ \ {m}, ![x].status = "REJECTED"]
      BY <2>3 DEF Reject
    <3> QED
      BY <2>1, <3>1 DEF Swap
  <2>4. swap' \in [Swaps -> Swap]
    BY <1>10, <2>2, <2>3
  <2> QED
    BY <1>8, <1>10, <2>4 DEF Approve, Reject
<1>11. ASSUME NEW x \in Swaps, ExpireSwap(x)
      PROVE  IInv' /\ Kept
  <2>1. swap' \in [Swaps -> Swap]
    BY <1>11 DEF ExpireSwap, Swap, IInv, TypeOK
  <2> QED
    BY <1>8, <1>11, <2>1 DEF ExpireSwap
<1>12. ASSUME NEW x \in Swaps, NEW m \in Members, ExecuteSwap(x, m)
      PROVE  IInv' /\ Kept
  <2> DEFINE next == [c \in Cycles |-> [slot |-> Swapped(x, rotation[Version][c].slot),
                                        status |-> "PENDING"]]
  <2>1. /\ rotation' = Append(rotation, next)
        /\ swap' = [swap EXCEPT ![x].approved = @ \cup {m}, ![x].status = "EXECUTED"]
        /\ UNCHANGED <<money, intent, payouts, executor>>
    BY <1>12 DEF ExecuteSwap
  <2>2. swap' \in [Swaps -> Swap] /\ swap[x].from \in Slots /\ swap[x].to \in Slots
    <3> DEFINE y == [swap[x] EXCEPT !.approved = swap[x].approved \cup {m}, !.status = "EXECUTED"]
    <3>1. swap \in [Swaps -> Swap]
      BY DEF IInv, TypeOK
    <3>2. y \in Swap /\ swap[x].from \in Slots /\ swap[x].to \in Slots
      BY <3>1 DEF Swap
    <3>3. swap' = [swap EXCEPT ![x] = y]
      BY <2>1, <3>1
    <3> HIDE DEF y
    <3> QED
      BY <3>1, <3>2, <3>3
  <2>3. /\ Version \in Nat /\ Version >= 1 /\ rotation[Version] \in [Cycles -> Turn]
        /\ {rotation[Version][c].slot : c \in Cycles} = Slots
    <3>1. Version \in Nat /\ Version >= 1 /\ rotation[Version] \in [Cycles -> Turn]
      BY DEF IInv, TypeOK, RowsExist, Version
    <3>2. Version \in 1..Version
      BY <3>1
    <3> QED
      BY <3>1, <3>2 DEF IInv, EverySlotHasATurn
  <2>4. next \in [Cycles -> Turn] /\ {next[c].slot : c \in Cycles} = Slots
    BY <2>2, <2>3, SwappedTurns
  <2> HIDE DEF next
  <2>5. /\ rotation' \in Seq([Cycles -> Turn]) /\ Version' = Version + 1
        /\ rotation'[Version + 1] = next
        /\ \A w \in 1..Version : rotation'[w] = rotation[w]
    BY <2>1, <2>4 DEF IInv, TypeOK, Version
  <2>6. TypeOK' /\ StatusFollowsPaid' /\ PaidOnlyWhenCollected'
    BY <2>1, <2>2, <2>5 DEF IInv, TypeOK, StatusFollowsPaid, PaidOnlyWhenCollected, money
  <2>7. RowsExist'
    <3>1. rotation' # <<>>
      BY <2>3, <2>5 DEF Version
    <3> QED
      BY <2>1, <2>3, <2>5, <3>1 DEF IInv, RowsExist
  <2>8. EverySlotHasATurn'
    <3> SUFFICES ASSUME NEW w \in 1..(Version + 1)
                 PROVE  {rotation'[w][c].slot : c \in Cycles} = Slots
      BY <2>5 DEF EverySlotHasATurn
    <3>1. CASE w = Version + 1
      BY <2>4, <2>5, <3>1
    <3>2. CASE w # Version + 1
      <4>1. w \in 1..Version
        BY <2>3, <3>2
      <4> QED
        BY <2>5, <4>1 DEF IInv, EverySlotHasATurn
    <3> QED
      BY <3>1, <3>2
  <2>9. Kept
    BY <2>3, <2>5
  <2> QED
    BY <2>6, <2>7, <2>8, <2>9 DEF IInv
<1>13. CASE UNCHANGED vars
  BY <1>13, <1>0 DEF vars, IInv, TypeOK, StatusFollowsPaid, PaidOnlyWhenCollected, RowsExist
<1> HIDE DEF Kept
<1>14. ASSUME NEW c \in Cycles, NEW s \in Slots, NEW a \in 1..Due,
              \/ \E k \in Keys : PayContribution(c, s, k, a)
              \/ \E i \in Intents : CreateIntent(i, c, s, a)
       PROVE  IInv' /\ Kept
  BY <1>14, <1>1, <1>2
<1>15. ASSUME NEW v \in 1..Version, NEW c \in Cycles,
              SettlePayout(v, c) \/ \E e \in Executors : RefusePayout(e, v, c)
       PROVE  IInv' /\ Kept
  BY <1>15, <1>4, <1>5
<1>16. ASSUME NEW x \in Swaps, NEW m \in Members,
              \/ \E from, to \in Slots : RequestSwap(x, m, from, to)
              \/ Approve(x, m) \/ ExecuteSwap(x, m) \/ Reject(x, m)
       PROVE  IInv' /\ Kept
  BY <1>16, <1>9, <1>10, <1>12
<1>17. ASSUME Next PROVE IInv' /\ Kept
  BY <1>17, <1>14, <1>15, <1>16, <1>3, <1>6, <1>7, <1>11 DEF Next
<1> QED
  BY <1>13, <1>17 DEF Kept

\* The inductive invariant holds in every reachable state.
THEOREM InvariantHolds == Spec => []IInv
<1>1. Init => IInv
  BY InitIInv
<1>2. IInv /\ [Next]_vars => IInv'
  BY NextIInv
<1> QED
  BY <1>1, <1>2, PTL DEF Spec

\* Every variable keeps its type; in particular neither the pool nor any
\* wallet is ever overdrawn, whatever requests run concurrently.
THEOREM TypeCorrect == Spec => []TypeOK
<1>1. IInv => TypeOK
  BY DEF IInv
<1> QED
  BY <1>1, InvariantHolds, PTL

\* settlePayout pays only for cycles that every slot has paid in full.
THEOREM PayoutsFollowCollection == Spec => []PaidOnlyWhenCollected
<1>1. IInv => PaidOnlyWhenCollected
  BY DEF IInv
<1> QED
  BY <1>1, InvariantHolds, PTL

\* After any sequence of swaps every slot has exactly one turn.
THEOREM EveryoneHasATurn == Spec => []EverySlotHasATurn
<1>1. IInv => EverySlotHasATurn
  BY DEF IInv
<1> QED
  BY <1>1, InvariantHolds, PTL

\* No operation changes the turns of a schedule version once published.
THEOREM VersionsStay == Spec => VersionsAreImmutable
<1>1. IInv /\ [Next]_vars =>
        [\A v \in 1..Version :
           /\ v \in 1..Version'
           /\ \A c \in Cycles : rotation'[v][c].slot = rotation[v][c].slot]_vars
  BY NextIInv
<1> QED
  BY <1>1, InvariantHolds, PTL DEF Spec, VersionsAreImmutable

-----------------------------------------------------------------------------
(* The totals.                                                             *)

\* What one more contribution adds.
LEMMA TotalInsert ==
    ASSUME NEW rows \in SUBSET Contribution, IsFiniteSet(rows),
           NEW d \in Contribution, d \notin rows
    PROVE  /\ Total(rows) \in Nat
           /\ Total(rows \cup {d}) = Total(rows) + d.amount
<1> DEFINE f == [e \in rows |-> e.amount]
           g == [e \in rows \cup {d} |-> e.amount]
<1>1. \A e \in rows \cup {d} : e.amount \in Nat
  BY DEF Contribution
<1>2. SumFunctionOnSet(f, rows) \in Nat
  <2>1. \A e \in rows : f[e] \in Nat
    BY <1>1
  <2> HIDE DEF f
  <2> QED
    BY <2>1, SumType
<1>3. SumFunctionOnSet(g, rows) = SumFunctionOnSet(f, rows)
  <2>1. \A e \in rows : g[e] = f[e]
    OBVIOUS
  <2> HIDE DEF f, g
  <2> QED
    BY <2>1, SumSame
<1>4. SumFunctionOnSet(g, rows \cup {d}) = g[d] + SumFunctionOnSet(g, rows)
  <2>1. \A e \in rows \cup {d} : g[e] \in Int
    BY <1>1
  <2> HIDE DEF g
  <2> QED
    BY <2>1, SumInsert
<1>5. g[d] = d.amount /\ d.amount \in Nat
  BY <1>1
<1> QED
  BY <1>2, <1>3, <1>4, <1>5 DEF Total

\* recordContributionWithin writes one new row, and the pool and the schedule
\* grow by its amount.
LEMMA RecordCounts ==
    ASSUME IInv, BooksInv, NEW c \in Cycles, NEW s \in Slots, NEW k \in Keys \cup Intents,
           NEW a \in Nat, IsOwed(c, s, a), wallet[OwnerOf[s]] >= a, Record(c, s, k, a),
           UNCHANGED payouts,
           \A d \in contributions : <<d.cycle, d.slot, d.key>> # <<c, s, k>>
    PROVE  /\ IsFiniteSet(contributions')
           /\ PoolIsContributionsLessPayouts'
           /\ SchedulesTellTheTruth'
<1> DEFINE new == [cycle |-> c, slot |-> s, key |-> k, amount |-> a]
           Of(rows, e, t) == {d \in rows : d.cycle = e /\ d.slot = t}
<1>1. contributions' = contributions \cup {new} /\ pool' = pool + a
  BY DEF Record
<1>2. /\ contributions \in SUBSET Contribution /\ IsFiniteSet(contributions) /\ pool \in Nat
      /\ IsFiniteSet(payouts) /\ PayoutAmount * Cardinality(payouts) \in Int
  <2>1. Cardinality(payouts) \in Nat /\ PayoutAmount \in Nat
    BY FS_CardinalityType, Positions DEF BooksInv, RowsCounted
  <2> QED
    BY <2>1 DEF IInv, TypeOK, BooksInv, RowsCounted
<1>3. new \in Contribution /\ new \notin contributions /\ new.amount = a
      /\ new.cycle = c /\ new.slot = s
  BY DEF Contribution
<1> HIDE DEF new
<1>4. IsFiniteSet(contributions')
  BY <1>1, <1>2, FS_AddElement
<1>5. Total(contributions) \in Nat /\ Total(contributions') = Total(contributions) + a
  BY <1>1, <1>2, <1>3, TotalInsert
<1>6. PoolIsContributionsLessPayouts'
  <2>1. pool = Total(contributions) - PayoutAmount * Cardinality(payouts)
    BY DEF BooksInv, PoolIsContributionsLessPayouts
  <2>2. pool' = Total(contributions') - PayoutAmount * Cardinality(payouts)
    BY <1>1, <1>2, <1>5, <2>1
  <2> QED
    BY <2>2 DEF PoolIsContributionsLessPayouts, PayoutAmount
<1>7. ASSUME NEW e \in Cycles, NEW t \in Slots
      PROVE  collected'[e][t].paid = Total(Of(contributions', e, t))
  <2>1. /\ Of(contributions, e, t) \in SUBSET Contribution
        /\ IsFiniteSet(Of(contributions, e, t))
        /\ new \notin Of(contributions, e, t)
    BY <1>2, <1>3, FS_Subset
  <2>2. collected[e][t].paid = Total(Of(contributions, e, t))
    BY DEF BooksInv, SchedulesTellTheTruth
  <2>3. collected'[e][t].paid = IF e = c /\ t = s THEN collected[e][t].paid + a
                                                 ELSE collected[e][t].paid
    BY DEF IInv, TypeOK, Record
  <2>4. CASE e = c /\ t = s
    <3>1. Of(contributions', e, t) = Of(contributions, e, t) \cup {new}
      BY <1>1, <1>3, <2>4
    <3> HIDE DEF Of
    <3> QED
      BY <1>3, <2>1, <2>2, <2>3, <2>4, <3>1, TotalInsert
  <2>5. CASE ~(e = c /\ t = s)
    <3>1. Of(contributions', e, t) = Of(contributions, e, t)
      BY <1>1, <1>3, <2>5
    <3> HIDE DEF Of
    <3> QED
      BY <2>2, <2>3, <2>5, <3>1
  <2> QED
    BY <2>4, <2>5
<1>8. StatusFollowsPaid'
  BY RecordKeeps
<1>9. SchedulesTellTheTruth'
  BY <1>7, <1>8 DEF SchedulesTellTheTruth, StatusFollowsPaid
<1> QED
  BY <1>4, <1>6, <1>9

\* The rows lock creates add up to nothing.
LEMMA InitBooks == Init => BooksInv
<1> SUFFICES ASSUME Init PROVE BooksInv
  OBVIOUS
<1>1. contributions = {} /\ payouts = {} /\ pool = 0
  BY DEF Init
<1>2. Total({}) = 0
  BY SumEmpty DEF Total
<1>3. RowsCounted
  BY <1>1, FS_EmptySet DEF RowsCounted
<1>4. PoolIsContributionsLessPayouts
  <2>1. PayoutAmount * 0 = 0
    BY Positions
  <2> QED
    BY <1>1, <1>2, <2>1, FS_EmptySet DEF PoolIsContributionsLessPayouts
<1>5. SchedulesTellTheTruth
  <2>1. \A c \in Cycles, s \in Slots : {d \in contributions : d.cycle = c /\ d.slot = s} = {}
    BY <1>1
  <2> QED
    BY <1>2, <2>1, GroupAssumption DEF Init, SchedulesTellTheTruth
<1> QED
  BY <1>3, <1>4, <1>5 DEF BooksInv

\* One step of the system keeps the totals.
LEMMA NextBooks ==
    ASSUME IInv, BooksInv, [Next]_vars
    PROVE  BooksInv'
<1>1. ASSUME NEW c \in Cycles, NEW s \in Slots, NEW k \in Keys, NEW a \in 1..Due,
             PayContribution(c, s, k, a)
      PROVE  BooksInv'
  <2>1. /\ a \in Nat /\ IsOwed(c, s, a) /\ wallet[OwnerOf[s]] >= a /\ Record(c, s, k, a)
        /\ \A d \in contributions : <<d.cycle, d.slot, d.key>> # <<c, s, k>>
        /\ UNCHANGED <<intent, payouts>>
    BY <1>1, GroupAssumption DEF PayContribution
  <2>2. /\ IsFiniteSet(contributions')
        /\ PoolIsContributionsLessPayouts' /\ SchedulesTellTheTruth'
    BY <2>1, RecordCounts
  <2>3. RowsCounted'
    <3>1. contributions' = contributions \cup {[cycle |-> c, slot |-> s, key |-> k, amount |-> a]}
      BY <2>1 DEF Record
    <3>2. k \notin Intents
      BY GroupAssumption
    <3> QED
      BY <2>1, <2>2, <3>1, <3>2 DEF BooksInv, RowsCounted
  <2> QED
    BY <2>2, <2>3 DEF BooksInv
<1>2. ASSUME NEW i \in Intents, NEW c \in Cycles, NEW s \in Slots, NEW a \in 1..Due,
             CreateIntent(i, c, s, a)
      PROVE  BooksInv'
  <2>1. /\ UNCHANGED <<money, payouts>> /\ intent[i].status = "none"
        /\ \A j \in Intents : j # i => intent'[j] = intent[j]
    BY <1>2 DEF CreateIntent, IInv, TypeOK
  <2>2. RowsCounted'
    BY <2>1 DEF BooksInv, RowsCounted, money
  <2> QED
    BY <2>1, <2>2 DEF BooksInv, PoolIsContributionsLessPayouts, SchedulesTellTheTruth, money
<1>3. ASSUME NEW i \in Intents, ConfirmIntent(i)
      PROVE  BooksInv'
  <2> DEFINE c == intent[i].cycle  s == intent[i].slot  a == intent[i].amount
  <2>1. c \in Cycles /\ s \in Slots /\ a \in Nat
    BY DEF IInv, TypeOK, Intent
  <2>2. /\ IsOwed(c, s, a) /\ wallet[OwnerOf[s]] >= a /\ Record(c, s, i, a)
        /\ UNCHANGED payouts
        /\ \A j \in Intents : intent'[j].status = IF j = i THEN "SUCCEEDED" ELSE intent[j].status
        /\ intent[i].status = "REQUIRES_CONFIRMATION"
    BY <1>3 DEF ConfirmIntent, IInv, TypeOK, Intent
  <2>3. \A d \in contributions : d.key # i
    BY <2>2 DEF BooksInv, RowsCounted
  <2> HIDE DEF c, s, a
  <2>4. /\ IsFiniteSet(contributions')
        /\ PoolIsContributionsLessPayouts' /\ SchedulesTellTheTruth'
    BY <2>1, <2>2, <2>3, RecordCounts
  <2>5. RowsCounted'
    <3>1. contributions' = contributions \cup {[cycle |-> c, slot |-> s, key |-> i, amount |-> a]}
      BY <2>2 DEF Record
    <3> QED
      BY <2>2, <2>4, <3>1 DEF BooksInv, RowsCounted
  <2> QED
    BY <2>4, <2>5 DEF BooksInv
<1>4. ASSUME NEW v \in 1..Version, NEW c \in Cycles, SettlePayout(v, c)
      PROVE  BooksInv'
  <2> DEFINE new == [version |-> v, cycle |-> c, slot |-> rotation[v][c].slot]
  <2>1. /\ pool' = pool - PayoutAmount /\ payouts' = payouts \cup {new}
        /\ \A p \in payouts : <<p.version, p.cycle>> # <<v, c>>
        /\ UNCHANGED <<collected, contributions, intent>>
    BY <1>4 DEF SettlePayout, PayOut, IsExecutable
  <2>2. new \notin payouts
    BY <2>1
  <2> HIDE DEF new
  <2>3. /\ IsFiniteSet(payouts')
        /\ Cardinality(payouts) \in Nat
        /\ Cardinality(payouts') = Cardinality(payouts) + 1
    BY <2>1, <2>2, FS_AddElement, FS_CardinalityType DEF BooksInv, RowsCounted
  <2>4. PoolIsContributionsLessPayouts'
    <3> DEFINE n == Cardinality(payouts)
    <3>1. pool = Total(contributions) - PayoutAmount * n /\ pool \in Nat
      BY DEF BooksInv, PoolIsContributionsLessPayouts, IInv, TypeOK
    <3>2. Total(contributions) \in Int
      <4>1. \A d \in contributions : [e \in contributions |-> e.amount][d] \in Nat
        BY DEF IInv, TypeOK, Contribution
      <4>2. IsFiniteSet(contributions)
        BY DEF BooksInv, RowsCounted
      <4> QED
        BY <4>1, <4>2, SumType DEF Total
    <3>3. PayoutAmount \in Nat /\ n \in Nat
      BY <2>3, Positions
    <3> HIDE DEF n
    <3>4. PayoutAmount * (n + 1) = PayoutAmount * n + PayoutAmount /\ PayoutAmount * n \in Int
      BY <3>3
    <3>5. pool' = Total(contributions) - PayoutAmount * (n + 1)
      BY <2>1, <3>1, <3>2, <3>3, <3>4
    <3> QED
      BY <2>1, <2>3, <3>5 DEF PoolIsContributionsLessPayouts, PayoutAmount, n
  <2> QED
    BY <2>1, <2>3, <2>4 DEF BooksInv, RowsCounted, SchedulesTellTheTruth
<1>5. ASSUME UNCHANGED <<collected, contributions, pool, payouts, intent>>
      PROVE  BooksInv'
  BY <1>5 DEF BooksInv, RowsCounted, PoolIsContributionsLessPayouts, SchedulesTellTheTruth
<1>6. ASSUME NEW x \in Swaps, NEW m \in Members,
             \/ \E from, to \in Slots : RequestSwap(x, m, from, to)
             \/ Approve(x, m) \/ ExecuteSwap(x, m) \/ Reject(x, m) \/ ExpireSwap(x)
      PROVE  BooksInv'
  BY <1>5, <1>6 DEF RequestSwap, Approve, ExecuteSwap, Reject, ExpireSwap, money
<1>7. ASSUME NEW e \in Executors,
             \/ Hold(e) \/ HoldLost(e)
             \/ \E v \in 1..Version, c \in Cycles : RefusePayout(e, v, c)
      PROVE  BooksInv'
  BY <1>5, <1>7 DEF Hold, HoldLost, RefusePayout, money
<1>8. ASSUME NEW x \in Swaps, ExpireSwap(x)
      PROVE  BooksInv'
  BY <1>5, <1>8 DEF ExpireSwap, money
<1>9. CASE UNCHANGED vars
  BY <1>5, <1>9 DEF vars
<1> QED
  BY <1>1, <1>2, <1>3, <1>4, <1>6, <1>7, <1>8, <1>9 DEF Next

\* The totals agree in every reachable state.
THEOREM BooksHold == Spec => []BooksInv
<1>1. Init => BooksInv
  BY InitBooks
<1>2. IInv /\ BooksInv /\ [Next]_vars => BooksInv'
  BY NextBooks
<1> QED
  BY <1>1, <1>2, InvariantHolds, PTL DEF Spec

\* The pool account holds the contributions that were not paid out, for any
\* number of slots, requests and refused payouts.
THEOREM PoolBalances == Spec => []PoolIsContributionsLessPayouts
<1>1. BooksInv => PoolIsContributionsLessPayouts
  BY DEF BooksInv
<1> QED
  BY <1>1, BooksHold, PTL

\* A schedule says what its contributions add up to, by whichever route.
THEOREM SchedulesAddUp == Spec => []SchedulesTellTheTruth
<1>1. BooksInv => SchedulesTellTheTruth
  BY DEF BooksInv
<1> QED
  BY <1>1, BooksHold, PTL

-----------------------------------------------------------------------------
(***************************************************************************)
(* Part 2: the formation of a group (AjoFormation), from any terms, with   *)
(* any number of users and invitations.                                    *)
(***************************************************************************)

\* Nothing exists before the group does.
NotFormed ==
    group.status = "none" =>
        /\ slots = {} /\ Joined = {}
        /\ \A i \in InvitationIds : invitation[i] = NoInvitation

\* Slots belong to members.
SlotsOwned == IsFiniteSet(slots) /\ \A s \in slots : s.owner \in Joined

\* A plan asks for the unit amount of each slot in each cycle.
PlansPriced == \A u \in Joined : plan[u].perCycle = group.terms.unit * plan[u].units

\* What was not issued was not used.
Unissued == \A i \in InvitationIds : invitation[i].status = "none" => invitation[i].uses = 0

\* The rows lock leaves: cycles and plans that fit the slots.
LockedRows ==
    LET t == group.terms  n == Cardinality(slots) IN
    IF group.status = "LOCKED"
    THEN /\ cycles = RotationSchedule(t, slots)
         /\ Schedulable(t, slots)
         /\ SumFunctionOnSet([u \in Joined |-> plan[u].units], Joined) = n
         /\ \A u \in Joined : plan[u] = LockedPlan(plan[u], t, n)
    ELSE cycles = {}

FormationInv ==
    /\ FormationOK /\ WithinTerms /\ UsesAreMembers
    /\ NotFormed /\ SlotsOwned /\ PlansPriced /\ Unissued /\ LockedRows

\* Months have 28 to 31 days.
LEMMA MonthLengthType ==
    ASSUME NEW m \in Nat \ {0}
    PROVE  MonthLength(m) \in 28 .. 31
<1> DEFINE i == ((m - 1) % 12) + 1
<1>1. i \in 1 .. 12
  OBVIOUS
<1>2. \A j \in 1 .. 12 : MonthLengths[j] \in 28 .. 31
  BY DEF MonthLengths
<1> HIDE DEF i
<1> QED
  BY <1>1, <1>2 DEF MonthLength, i

\* The days before a month, and that a month's days come before the next one.
LEMMA DaysBeforeNext ==
    ASSUME NEW m \in Nat \ {0}
    PROVE  /\ DaysBefore(m) \in Nat
           /\ DaysBefore(m + 1) = DaysBefore(m) + MonthLength(m)
<1> DEFINE f == [n \in 1 .. m - 1 |-> MonthLength(n)]
           g == [n \in 1 .. m |-> MonthLength(n)]
<1>1. /\ \A n \in 1 .. m - 1 : f[n] \in Nat
      /\ \A n \in 1 .. m : g[n] \in Nat
      /\ \A n \in 1 .. m - 1 : f[n] = g[n]
      /\ g[m] = MonthLength(m)
  BY MonthLengthType
<1>2. IsFiniteSet(1 .. m - 1) /\ 1 .. m = (1 .. m - 1) \cup {m} /\ m \notin 1 .. m - 1
  BY FS_Interval
<1>3. DaysBefore(m) = SumFunctionOnSet(f, 1 .. m - 1) /\ DaysBefore(m + 1) = SumFunctionOnSet(g, 1 .. m)
  <2>1. (m + 1) - 1 = m
    OBVIOUS
  <2> QED
    BY <2>1 DEF DaysBefore
<1> HIDE DEF f, g
<1>4. SumFunctionOnSet(f, 1 .. m - 1) \in Nat
  BY <1>1, <1>2, SumType
<1>5. SumFunctionOnSet(g, 1 .. m - 1) = SumFunctionOnSet(f, 1 .. m - 1)
  BY <1>1, <1>2, SumSame
<1>6. SumFunctionOnSet(g, (1 .. m - 1) \cup {m}) = g[m] + SumFunctionOnSet(g, 1 .. m - 1)
  <2>1. \A y \in (1 .. m - 1) \cup {m} : g[y] \in Int
    BY <1>1, <1>2
  <2> QED
    BY <2>1, <1>2, SumInsert
<1>7. g[m] \in Nat
  BY <1>1
<1>8. SumFunctionOnSet(g, 1 .. m) = g[m] + SumFunctionOnSet(f, 1 .. m - 1)
  <2>1. SumFunctionOnSet(g, 1 .. m) = SumFunctionOnSet(g, (1 .. m - 1) \cup {m})
    BY <1>2
  <2> QED
    BY <2>1, <1>5, <1>6
<1>9. g[m] = MonthLength(m)
  BY <1>1
<1> QED
  BY <1>3, <1>4, <1>7, <1>8, <1>9

\* All days of a month come before any later month.
LEMMA DaysBeforeLater ==
    ASSUME NEW m \in Nat \ {0}, NEW k \in Nat
    PROVE  DaysBefore(m) + MonthLength(m) <= DaysBefore(m + 1 + k)
<1> DEFINE G == {j \in Nat : DaysBefore(m) + MonthLength(m) <= DaysBefore(m + 1 + j)}
<1>0. DaysBefore(m) + MonthLength(m) \in Nat /\ DaysBefore(m) \in Nat
  BY DaysBeforeNext, MonthLengthType
<1>1. 0 \in G
  BY <1>0, DaysBeforeNext
<1>2. ASSUME NEW j \in Nat, j \in G
      PROVE  j + 1 \in G
  <2>1. m + 1 + j \in Nat \ {0} /\ m + 1 + (j + 1) = (m + 1 + j) + 1
    OBVIOUS
  <2>2. /\ DaysBefore(m + 1 + j) \in Nat
        /\ DaysBefore((m + 1 + j) + 1) = DaysBefore(m + 1 + j) + MonthLength(m + 1 + j)
        /\ MonthLength(m + 1 + j) \in Nat
    BY <2>1, DaysBeforeNext, MonthLengthType
  <2>3. DaysBefore(m) + MonthLength(m) <= DaysBefore(m + 1 + j)
    BY <1>2
  <2> QED
    BY <1>0, <2>1, <2>2, <2>3
<1> HIDE DEF G
<1>3. Nat \subseteq G
  BY <1>1, <1>2, InductionOnNat
<1> QED
  BY <1>3 DEF G

\* What a set of terms is made of.
LEMMA TermsType ==
    ASSUME NEW t \in Terms
    PROVE  /\ t.maxMembers \in Nat /\ t.maxMembers >= 1
           /\ t.maxSlots \in Nat /\ t.min \in Nat /\ t.max \in Nat /\ t.unit \in Nat
           /\ t.frequency \in {"DAILY", "WEEKLY", "MONTHLY"}
           /\ t.start.month \in Nat \ {0} /\ t.start.day \in 1 .. 31
           /\ t.start.day <= MonthLength(t.start.month)
           /\ t.end.month \in Nat \ {0} /\ t.end.day \in 1 .. 31
<1>1. /\ t.start \in Dates /\ t.end \in Dates /\ t.maxMembers \in Nat \ {0, 1}
      /\ t.maxSlots \in Nat /\ t.min \in Nat /\ t.max \in Nat /\ t.unit \in Nat
      /\ t.frequency \in {"DAILY", "WEEKLY", "MONTHLY"}
  BY FormationAssumption
<1> QED
  BY <1>1 DEF Dates

\* A monthly turn falls on a day its month has.
LEMMA MonthlyTurn ==
    ASSUME NEW t \in Terms, t.frequency = "MONTHLY", NEW i \in Nat
    PROVE  \E day \in 1 .. 31 :
              /\ day <= MonthLength(t.start.month + i) /\ day <= t.start.day
              /\ i = 0 => day = t.start.day
              /\ DueDay(t, i) = DayNumber([month |-> t.start.month + i, day |-> day])
              /\ DueDay(t, i) = DaysBefore(t.start.month + i) + day
<1> DEFINE m == t.start.month + i
           last == MonthLength(m)
           day == IF t.start.day <= last THEN t.start.day ELSE last
<1>1. /\ t.start.month \in Nat \ {0} /\ t.start.day \in 1 .. 31
      /\ t.start.day <= MonthLength(t.start.month)
  BY TermsType
<1>2. m \in Nat \ {0} /\ last \in 28 .. 31
  BY <1>1, MonthLengthType
<1>3. day \in 1 .. 31 /\ day <= last /\ day <= t.start.day
  <2> HIDE DEF last
  <2> QED BY <1>1, <1>2
<1>4. i = 0 => day = t.start.day
  BY <1>1
<1>5. DueDay(t, i) = DayNumber([month |-> m, day |-> day])
  BY DEF DueDay
<1>6. DayNumber([month |-> m, day |-> day]) = DaysBefore(m) + day
  BY DEF DayNumber
<1> HIDE DEF day
<1> QED
  BY <1>3, <1>4, <1>5, <1>6

\* Turns fall on later and later days, the first on the start date.
LEMMA DueDaysAdvance ==
    ASSUME NEW t \in Terms, NEW i \in Nat
    PROVE  /\ DueDay(t, i) \in Nat
           /\ DayNumber(t.start) \in Nat
           /\ DueDay(t, 0) = DayNumber(t.start)
           /\ \A j \in Nat : i < j => DueDay(t, i) < DueDay(t, j)
<1>1. /\ t.start.month \in Nat \ {0} /\ t.start.day \in 1 .. 31
      /\ t.frequency \in {"DAILY", "WEEKLY", "MONTHLY"}
  BY TermsType
<1>2. DayNumber(t.start) = DaysBefore(t.start.month) + t.start.day /\ DaysBefore(t.start.month) \in Nat
  BY <1>1, DaysBeforeNext DEF DayNumber
<1>3. DayNumber(t.start) \in Nat
  BY <1>1, <1>2
<1>4. CASE t.frequency = "DAILY"
  <2>1. \A j \in Nat : DueDay(t, j) = DayNumber(t.start) + j
    BY <1>4 DEF DueDay
  <2> QED
    BY <1>3, <2>1
<1>5. CASE t.frequency = "WEEKLY"
  <2>1. \A j \in Nat : DueDay(t, j) = DayNumber(t.start) + 7 * j
    BY <1>5 DEF DueDay
  <2> QED
    BY <1>3, <2>1
<1>6. CASE t.frequency = "MONTHLY"
  <2> DEFINE m == t.start.month
  <2>1. PICK day \in 1 .. 31 : /\ day <= MonthLength(m + i)
                               /\ DueDay(t, i) = DaysBefore(m + i) + day
    BY <1>6, MonthlyTurn
  <2>2. m + i \in Nat \ {0} /\ DaysBefore(m + i) \in Nat /\ MonthLength(m + i) \in Nat
    BY <1>1, DaysBeforeNext, MonthLengthType
  <2>3. ASSUME NEW j \in Nat, i < j
        PROVE  DueDay(t, i) < DueDay(t, j)
    <3>1. PICK later \in 1 .. 31 : DueDay(t, j) = DaysBefore(m + j) + later
      BY <1>6, MonthlyTurn
    <3>2. PICK k \in Nat : m + j = (m + i) + 1 + k
      <4>1. j - i - 1 \in Nat /\ m + j = (m + i) + 1 + (j - i - 1)
        BY <1>1, <2>3
      <4> QED
        BY <4>1
    <3>3. DaysBefore(m + i) + MonthLength(m + i) <= DaysBefore(m + j)
      BY <2>2, <3>2, DaysBeforeLater
    <3>4. DaysBefore(m + j) \in Nat
      BY <1>1, DaysBeforeNext
    <3> QED
      BY <2>1, <2>2, <3>1, <3>3, <3>4
  <2>4. DueDay(t, 0) = DayNumber(t.start)
    <3>1. DueDay(t, 0) = DaysBefore(m + 0) + t.start.day
      BY <1>6, MonthlyTurn
    <3>2. m + 0 = m
      BY <1>1
    <3> QED
      BY <1>2, <3>1, <3>2
  <2> QED
    BY <1>3, <2>1, <2>2, <2>3, <2>4
<1> QED
  BY <1>1, <1>4, <1>5, <1>6

\* The schedule the lock writes goes forward, within the dates of the terms.
LEMMA ScheduleAdvances ==
    ASSUME FormationInv
    PROVE  TurnsAdvance
<1> DEFINE t == group.terms
           n == Cardinality(slots)
<1>1. t \in Terms /\ n \in Nat
  BY FS_CardinalityType DEF FormationInv, FormationOK, SlotsOwned
<1>2. \A c \in cycles : /\ c.sequence \in 1 .. n /\ c.due = DueDay(t, c.sequence - 1)
                        /\ c.due <= DayNumber(t.end)
  <2>1. CASE group.status = "LOCKED"
    <3>1. /\ cycles = {[sequence |-> p, due |-> DueDay(t, p - 1), payout |-> t.unit * n] : p \in 1 .. n}
          /\ \A index \in 0 .. n - 1 : DueDay(t, index) <= DayNumber(t.end)
      BY <2>1 DEF FormationInv, LockedRows, RotationSchedule, Schedulable
    <3>2. \A p \in 1 .. n : p - 1 \in 0 .. n - 1
      BY <1>1
    <3> HIDE DEF n, t
    <3> QED
      BY <3>1, <3>2
  <2>2. CASE group.status # "LOCKED"
    BY <2>2 DEF FormationInv, LockedRows
  <2> QED
    BY <2>1, <2>2
<1>3. \A c \in cycles : c.sequence - 1 \in Nat /\ c.sequence \in Nat
  BY <1>1, <1>2
<1>4. ASSUME NEW c \in cycles, NEW d \in cycles, c.sequence < d.sequence
      PROVE  c.due < d.due
  <2>1. c.sequence - 1 < d.sequence - 1
    BY <1>3, <1>4
  <2> QED
    BY <1>1, <1>2, <1>3, <2>1, DueDaysAdvance
<1>5. ASSUME NEW c \in cycles
      PROVE  c.due \in DayNumber(t.start) .. DayNumber(t.end)
  <2>1. /\ c.due \in Nat /\ DayNumber(t.start) \in Nat /\ c.due <= DayNumber(t.end)
    BY <1>1, <1>2, <1>3, DueDaysAdvance
  <2>2. DayNumber(t.end) \in Nat
    BY <1>1, TermsType, DaysBeforeNext DEF DayNumber
  <2>3. DueDay(t, 0) = DayNumber(t.start) /\ (0 < c.sequence - 1 => DueDay(t, 0) < c.due)
    BY <1>1, <1>2, <1>3, DueDaysAdvance
  <2>4. CASE c.sequence - 1 = 0
    <3>1. c.due = DayNumber(t.start)
      BY <1>2, <2>3, <2>4
    <3> QED
      BY <2>1, <2>2, <3>1
  <2>5. CASE c.sequence - 1 # 0
    BY <1>3, <2>1, <2>2, <2>3, <2>5
  <2> QED
    BY <2>4, <2>5
<1>6. ASSUME t.frequency = "MONTHLY", NEW c \in cycles
      PROVE  \E day \in 1 .. 31 :
                /\ c.due = DayNumber([month |-> t.start.month + c.sequence - 1, day |-> day])
                /\ day <= MonthLength(t.start.month + c.sequence - 1)
  <2>1. t.start.month + (c.sequence - 1) = t.start.month + c.sequence - 1
    BY <1>1, <1>3, TermsType
  <2> QED
    BY <1>1, <1>2, <1>3, <1>6, <2>1, MonthlyTurn
<1> QED
  BY <1>4, <1>5, <1>6 DEF TurnsAdvance

\* Rows with different numbers are as many as the numbers.
LEMMA NumberedRows ==
    ASSUME NEW n \in Nat, NEW f, NEW S, S = {f[k] : k \in 1 .. n}, f = [k \in 1 .. n |-> f[k]],
           \A j, k \in 1 .. n : f[j] = f[k] => j = k
    PROVE  IsFiniteSet(S) /\ Cardinality(S) = n
<1>1. IsFiniteSet(1 .. n) /\ Cardinality(1 .. n) = n
  BY FS_Interval
<1>2. f \in Bijection(1 .. n, S)
  BY DEF Bijection, Injection, Surjection, IsInjective
<1>3. ExistsBijection(1 .. n, S)
  BY <1>2 DEF ExistsBijection
<1> QED
  BY <1>1, <1>3, FS_Bijection

\* The plans and the turns of a locked group add up to each other.
LEMMA PlansReconcile ==
    ASSUME FormationInv
    PROVE  Reconciles
<1> SUFFICES ASSUME group.status = "LOCKED" PROVE Reconciles
  BY DEF Reconciles
<1> DEFINE t == group.terms
           n == Cardinality(slots)
           pay == t.unit * n
<1>1. /\ t \in Terms /\ t.unit \in Nat /\ n \in Nat /\ pay \in Nat
      /\ IsFiniteSet(Joined) /\ Joined \subseteq Users /\ IsFiniteSet(slots)
  <2>1. t \in Terms /\ IsFiniteSet(slots) /\ Joined \subseteq Users
    BY DEF FormationInv, FormationOK, SlotsOwned, Joined
  <2>2. IsFiniteSet(Joined)
    BY <2>1, FormationAssumption, FS_Subset
  <2>3. n \in Nat /\ t.unit \in Nat
    BY <2>1, FS_CardinalityType, TermsType
  <2> QED
    BY <2>1, <2>2, <2>3
<1>2. /\ cycles = {[sequence |-> p, due |-> DueDay(t, p - 1), payout |-> pay] : p \in 1 .. n}
      /\ {s.position : s \in slots} = 1 .. n
      /\ SumFunctionOnSet([u \in Joined |-> plan[u].units], Joined) = n
  BY DEF FormationInv, LockedRows, RotationSchedule, Schedulable
<1>3. \A u \in Joined : /\ plan[u].units \in Nat
                        /\ plan[u].total = pay * plan[u].units
                        /\ plan[u].entitlement = pay * plan[u].units
  <2> SUFFICES ASSUME NEW u \in Joined
               PROVE  /\ plan[u].units \in Nat
                      /\ plan[u].total = pay * plan[u].units
                      /\ plan[u].entitlement = pay * plan[u].units
    OBVIOUS
  <2> DEFINE p == plan[u]
  <2>1. /\ p \in [units: Nat, perCycle: Nat, total: Nat, entitlement: Nat]
        /\ p.perCycle = t.unit * p.units
        /\ p = [p EXCEPT !.total = p.perCycle * n, !.entitlement = t.unit * n * p.units]
    BY <1>1 DEF FormationInv, FormationOK, PlansPriced, LockedRows, LockedPlan
  <2> HIDE DEF p, t, n
  <2>2. p.total = p.perCycle * n /\ p.entitlement = t.unit * n * p.units /\ p.units \in Nat
    BY <2>1
  <2>3. (t.unit * p.units) * n = (t.unit * n) * p.units
    BY <1>1, <2>2
  <2>4. p.total = (t.unit * n) * p.units
    BY <2>1, <2>2, <2>3
  <2> QED
    BY <2>2, <2>4 DEF p
<1>4. IsFiniteSet(cycles) /\ Cardinality(cycles) = n /\ \A c \in cycles : c.payout = pay
  <2> DEFINE f == [p \in 1 .. n |-> [sequence |-> p, due |-> DueDay(t, p - 1), payout |-> pay]]
  <2>1. /\ cycles = {f[k] : k \in 1 .. n}
        /\ \A j, k \in 1 .. n : f[j] = f[k] => j = k
        /\ f = [k \in 1 .. n |-> f[k]]
        /\ \A c \in cycles : c.payout = pay
    <3> HIDE DEF pay, n
    <3>1. \A k \in 1 .. n : f[k].sequence = k
      OBVIOUS
    <3> QED
      BY <1>2, <3>1
  <2> HIDE DEF f, pay, n
  <2> QED
    BY <1>1, <2>1, NumberedRows
<1> HIDE DEF pay, t, n
<1>5. SumFunctionOnSet([u \in Joined |-> plan[u].total], Joined) = pay * n
  <2> DEFINE f == [u \in Joined |-> plan[u].units]
             h == [u \in Joined |-> plan[u].total]
  <2>1. \A u \in Joined : f[u] \in Int /\ h[u] = pay * f[u]
    BY <1>3
  <2>2. SumFunctionOnSet(f, Joined) = n
    BY <1>2
  <2> HIDE DEF f, h
  <2>3. SumFunctionOnSet(h, Joined) = pay * SumFunctionOnSet(f, Joined)
    BY <1>1, <2>1, SumScale
  <2> QED
    BY <2>2, <2>3 DEF h
<1>6. SumFunctionOnSet([c \in cycles |-> c.payout], cycles) = pay * n
  <2> DEFINE h == [c \in cycles |-> c.payout]
  <2>1. \A c \in cycles : h[c] = pay
    BY <1>4
  <2>0. pay \in Int /\ IsFiniteSet(cycles)
    BY <1>1, <1>4
  <2> HIDE DEF h
  <2>2. SumFunctionOnSet(h, cycles) = pay * Cardinality(cycles)
    BY <2>0, <2>1, SumConst
  <2> QED
    BY <1>4, <2>2 DEF h
<1>7. ASSUME NEW u \in Joined, NEW mine, mine = {s \in slots : s.owner = u}
      PROVE  plan[u].entitlement =
               SumFunctionOnSet([s \in mine |-> (CHOOSE c \in cycles : c.sequence = s.position).payout], mine)
  <2> DEFINE h == [s \in mine |-> (CHOOSE c \in cycles : c.sequence = s.position).payout]
  <2>1. IsFiniteSet(mine)
    BY <1>1, <1>7, FS_Subset
  <2>2. Cardinality(mine) = plan[u].units
    BY <1>7 DEF FormationInv, WithinTerms
  <2>3. ASSUME NEW s \in mine
        PROVE  h[s] = pay
    <3>1. s.position \in 1 .. n
      BY <1>2, <1>7
    <3>2. \E c \in cycles : c.sequence = s.position
      <4> DEFINE row(p) == [sequence |-> p, due |-> DueDay(t, p - 1), payout |-> pay]
      <4>1. row(s.position) \in cycles
        BY <1>2, <3>1
      <4>2. row(s.position).sequence = s.position
        OBVIOUS
      <4> QED
        BY <4>1, <4>2
    <3>3. (CHOOSE c \in cycles : c.sequence = s.position) \in cycles
      BY <3>2
    <3> QED
      BY <1>4, <3>3
  <2> HIDE DEF h
  <2>4. SumFunctionOnSet(h, mine) = pay * Cardinality(mine)
    BY <1>1, <2>1, <2>3, SumConst
  <2> QED
    BY <1>3, <2>2, <2>4 DEF h
<1> QED
  BY <1>5, <1>6, <1>7 DEF Reconciles

\* Before the group is created every part holds.
LEMMA InitFormationInv == FormationInit => FormationInv
<1> SUFFICES ASSUME FormationInit PROVE FormationInv
  OBVIOUS
<1>1. PICK t \in Terms : group = [status |-> "none", listed |-> FALSE, terms |-> t]
  BY DEF FormationInit
<1>2. /\ slots = {} /\ cycles = {} /\ Joined = {}
      /\ \A i \in InvitationIds : invitation[i] = NoInvitation
  BY DEF FormationInit, Joined
<1>3. Cardinality({}) = 0 /\ IsFiniteSet({}) /\ 1 .. 0 = {}
  BY FS_EmptySet
<1>4. group.terms = t /\ t.maxSlots \in Nat /\ t.maxMembers \in Nat
  BY <1>1, TermsType
<1>5. FormationOK
  <2>1. NoPlan \in [units: Nat, perCycle: Nat, total: Nat, entitlement: Nat]
    BY DEF NoPlan
  <2>2. NoInvitation \in [by: Users \cup {None}, status: {"none", "ACTIVE", "REVOKED"},
                          uses: Nat, max: Nat, expired: BOOLEAN]
    BY DEF NoInvitation
  <2>3. group \in [status: {"none", "DRAFT", "LOCKED"}, listed: BOOLEAN, terms: Terms]
    BY <1>1
  <2> QED
    BY <1>2, <2>1, <2>2, <2>3, FormationAssumption DEF FormationInit, FormationOK
<1>6. WithinTerms
  <2>1. {s.position : s \in slots} = {}
    BY <1>2
  <2> QED
    BY <1>2, <1>3, <1>4, <2>1 DEF WithinTerms
<1>7. UsesAreMembers /\ Unissued
  <2>1. \A i \in InvitationIds : {u \in Joined : joinedBy[u] = i} = {}
    BY <1>2
  <2> QED
    BY <1>2, <1>3, <2>1 DEF UsesAreMembers, Unissued, NoInvitation
<1>8. NotFormed /\ SlotsOwned /\ PlansPriced /\ LockedRows
  BY <1>1, <1>2, <1>3 DEF NotFormed, SlotsOwned, PlansPriced, LockedRows
<1> QED
  BY <1>5, <1>6, <1>7, <1>8 DEF FormationInv

\* The slots a member enters with continue the positions, as many as asked for.
LEMMA NewSlotsCounted ==
    ASSUME NEW u, NEW n \in Nat, Cardinality(slots) \in Nat
    PROVE  /\ IsFiniteSet(NewSlots(u, n)) /\ Cardinality(NewSlots(u, n)) = n
           /\ {s.position : s \in NewSlots(u, n)}
                = Cardinality(slots) + 1 .. Cardinality(slots) + n
           /\ \A s \in NewSlots(u, n) : s.owner = u
<1> DEFINE m == Cardinality(slots)
           f == [k \in 1 .. n |-> [position |-> m + k, owner |-> u]]
<1>1. NewSlots(u, n) = {f[k] : k \in 1 .. n} /\ f = [k \in 1 .. n |-> f[k]]
  BY DEF NewSlots
<1>2. \A k \in 1 .. n : f[k].position = m + k /\ f[k].owner = u
  OBVIOUS
<1>3. \A j, k \in 1 .. n : f[j] = f[k] => j = k
  <2> HIDE DEF f, m
  <2>1. ASSUME NEW j \in 1 .. n, NEW k \in 1 .. n, f[j] = f[k]
        PROVE  j = k
    <3>1. m + j = m + k /\ m \in Nat
      BY <1>2, <2>1 DEF m
    <3> QED
      BY <3>1
  <2> QED
    BY <2>1
<1>4. {s.position : s \in NewSlots(u, n)} = m + 1 .. m + n
  <2> HIDE DEF f, m
  <2>0. m \in Nat
    BY DEF m
  <2>1. {s.position : s \in NewSlots(u, n)} \subseteq m + 1 .. m + n
    BY <1>1, <1>2, <2>0
  <2>2. ASSUME NEW p \in m + 1 .. m + n
        PROVE  p \in {s.position : s \in NewSlots(u, n)}
    <3>1. p - m \in 1 .. n /\ m + (p - m) = p
      BY <2>0, <2>2
    <3>2. f[p - m] \in NewSlots(u, n) /\ f[p - m].position = p
      BY <1>1, <1>2, <3>1
    <3> QED
      BY <3>2
  <2> QED
    BY <2>1, <2>2
<1>5. \A s \in NewSlots(u, n) : s.owner = u
  <2> HIDE DEF f
  <2> QED BY <1>1, <1>2
<1> HIDE DEF f
<1>6. IsFiniteSet(NewSlots(u, n)) /\ Cardinality(NewSlots(u, n)) = n
  BY <1>1, <1>3, NumberedRows
<1> QED
  BY <1>4, <1>5, <1>6

\* Entering a group that has room keeps it within its terms.
LEMMA EnterKeeps ==
    ASSUME FormationInv, NEW u \in Users, u \notin Joined, NEW n \in Nat \ {0},
           NEW by \in 0 .. MaxInvitations, Enter(u, n, by),
           Cardinality(slots) + n <= group.terms.maxSlots,
           Cardinality(Joined) < group.terms.maxMembers,
           PerMember(group.terms, n), group'.terms = group.terms
    PROVE  /\ slots' \subseteq [position: Nat \ {0}, owner: Users]
           /\ plan' \in [Users -> [units: Nat, perCycle: Nat, total: Nat, entitlement: Nat]]
           /\ joinedBy' \in [Users -> -1 .. MaxInvitations]
           /\ Joined' = Joined \cup {u}
           /\ WithinTerms' /\ SlotsOwned' /\ PlansPriced'
<1> DEFINE t == group.terms
           new == NewSlots(u, n)
           m == Cardinality(slots)
<1>1. /\ t \in Terms /\ t.unit \in Nat /\ t.maxSlots \in Nat /\ t.maxMembers \in Nat
      /\ IsFiniteSet(slots) /\ m \in Nat /\ {s.position : s \in slots} = 1 .. m
      /\ \A s \in slots : s.owner \in Joined
  <2>1. group.terms \in Terms
    BY DEF FormationInv, FormationOK
  <2> QED
    BY <2>1, TermsType, FS_CardinalityType DEF FormationInv, SlotsOwned, WithinTerms
<1>2. /\ IsFiniteSet(new) /\ Cardinality(new) = n /\ \A s \in new : s.owner = u
      /\ {s.position : s \in new} = m + 1 .. m + n
  BY <1>1, NewSlotsCounted
<1>3. /\ slots' = slots \cup new
      /\ plan' = [plan EXCEPT ![u] = [units |-> n, perCycle |-> t.unit * n, total |-> 0,
                                      entitlement |-> t.unit * n]]
      /\ joinedBy' = [joinedBy EXCEPT ![u] = by]
  BY DEF Enter
<1>4. Joined' = Joined \cup {u}
  BY <1>3, FormationAssumption DEF Joined, FormationInv, FormationOK
<1>5. joinedBy' \in [Users -> -1 .. MaxInvitations]
  BY <1>3, FormationAssumption DEF FormationInv, FormationOK
<1>6. plan' \in [Users -> [units: Nat, perCycle: Nat, total: Nat, entitlement: Nat]]
  <2>1. t.unit * n \in Nat
    BY <1>1
  <2> HIDE DEF t
  <2> QED
    BY <1>3, <2>1 DEF FormationInv, FormationOK
<1>7. slots' \subseteq [position: Nat \ {0}, owner: Users]
  <2>1. \A k \in 1 .. n : m + k \in Nat \ {0}
    BY <1>1
  <2>2. new \subseteq [position: Nat \ {0}, owner: Users]
    <3> HIDE DEF m
    <3> QED BY <2>1 DEF NewSlots, m
  <2> QED
    BY <1>3, <2>2 DEF FormationInv, FormationOK
<1> HIDE DEF new
<1>8. IsFiniteSet(slots') /\ Cardinality(slots') = m + n
  <2>1. slots \cap new = {}
    <3>1. \A s \in slots : s.owner # u
      BY <1>1
    <3> QED
      BY <1>2, <3>1
  <2>2. Cardinality(slots \cap new) = 0
    BY <2>1, FS_EmptySet
  <2>3. IsFiniteSet(slots \cup new) /\ Cardinality(slots \cup new) = m + n - 0
    BY <1>1, <1>2, <2>2, FS_Union
  <2> QED
    BY <1>1, <1>3, <2>3
<1>9. {s.position : s \in slots'} = 1 .. m + n
  <2>1. {s.position : s \in slots \cup new} = {s.position : s \in slots} \cup {s.position : s \in new}
    OBVIOUS
  <2>2. (1 .. m) \cup (m + 1 .. m + n) = 1 .. m + n
    BY <1>1
  <2> HIDE DEF m
  <2> QED
    BY <1>1, <1>2, <1>3, <2>1, <2>2
<1>10. IsFiniteSet(Joined) /\ Cardinality(Joined') = Cardinality(Joined) + 1 /\ Cardinality(Joined) \in Nat
  <2>1. IsFiniteSet(Joined)
    BY FormationAssumption, FS_Subset DEF Joined
  <2> QED
    BY <1>4, <2>1, FS_AddElement, FS_CardinalityType
<1>11. ASSUME NEW v \in Joined'
       PROVE  /\ PerMember(t, plan'[v].units)
              /\ Cardinality({s \in slots' : s.owner = v}) = plan'[v].units
              /\ plan'[v].perCycle = t.unit * plan'[v].units
  <2>1. CASE v = u
    <3>1. plan'[u].units = n /\ plan'[u].perCycle = t.unit * n
      BY <1>3 DEF FormationInv, FormationOK
    <3>2. {s \in slots' : s.owner = u} = new
      BY <1>1, <1>2, <1>3
    <3> QED
      BY <1>2, <2>1, <3>1, <3>2
  <2>2. CASE v # u
    <3>1. v \in Joined /\ v \in Users
      BY <1>4, <1>11, <2>2 DEF Joined
    <3>2. plan'[v] = plan[v]
      BY <1>3, <2>2, <3>1 DEF FormationInv, FormationOK
    <3>3. {s \in slots' : s.owner = v} = {s \in slots : s.owner = v}
      BY <1>2, <1>3, <2>2
    <3> QED
      BY <3>1, <3>2, <3>3 DEF FormationInv, WithinTerms, PlansPriced
  <2> QED
    BY <2>1, <2>2
<1>12. WithinTerms'
  BY <1>1, <1>8, <1>9, <1>10, <1>11 DEF WithinTerms, PerMember
<1>13. SlotsOwned'
  BY <1>1, <1>2, <1>3, <1>4, <1>8 DEF SlotsOwned
<1>14. PlansPriced'
  BY <1>11 DEF PlansPriced
<1> QED
  BY <1>4, <1>5, <1>6, <1>7, <1>12, <1>13, <1>14

\* A step that leaves members, slots, plans and cycles alone disturbs only
\* what is said about invitations.
LEMMA RowsKept ==
    ASSUME FormationInv, UNCHANGED <<slots, plan, joinedBy, cycles>>,
           group'.terms = group.terms, group'.status = group.status
    PROVE  /\ Joined' = Joined
           /\ WithinTerms' /\ SlotsOwned' /\ PlansPriced' /\ LockedRows'
<1>1. Joined' = Joined
  BY DEF Joined
<1>2. WithinTerms'
  BY <1>1 DEF FormationInv, WithinTerms
<1>3. SlotsOwned' /\ PlansPriced'
  BY <1>1 DEF FormationInv, SlotsOwned, PlansPriced
<1>4. LockedRows'
  BY <1>1 DEF FormationInv, LockedRows
<1> QED
  BY <1>1, <1>2, <1>3, <1>4

\* The record of an issued invitation.
LEMMA IssueType ==
    ASSUME NEW i, NEW u \in Users, NEW max \in Nat
    PROVE  /\ Issue(i, u, max) \in [by: Users \cup {None}, status: {"none", "ACTIVE", "REVOKED"},
                                    uses: Nat, max: Nat, expired: BOOLEAN]
           /\ Issue(i, u, max).status = "ACTIVE"
           /\ Issue(i, u, max).uses = 0 /\ Issue(i, u, max).max = max
BY DEF Issue

\* create.
LEMMA CreateKeeps ==
    ASSUME FormationInv, NEW n \in 1 .. group.terms.maxSlots, Create(n)
    PROVE  FormationInv'
<1> DEFINE t == group.terms
<1>1. /\ group.status = "none" /\ PerMember(t, n) /\ n <= t.maxSlots
      /\ group' = [group EXCEPT !.status = "DRAFT"]
      /\ Enter(Creator, n, 0)
      /\ invitation' = [invitation EXCEPT ![1] = Issue(1, Creator, FirstUses(t, n))]
      /\ UNCHANGED <<opened, cycles, verified>>
  BY DEF Create
<1>2. /\ slots = {} /\ Joined = {} /\ \A i \in InvitationIds : invitation[i] = NoInvitation
  BY <1>1 DEF FormationInv, NotFormed
<1>3. t \in Terms /\ t.maxSlots \in Nat /\ t.maxMembers \in Nat /\ t.maxMembers >= 1
  BY TermsType DEF FormationInv, FormationOK
<1>4. /\ n \in Nat \ {0} /\ 0 \in 0 .. MaxInvitations /\ Creator \in Users /\ Creator \notin Joined
      /\ 1 \in InvitationIds /\ FirstUses(t, n) \in Nat
  BY <1>1, <1>2, <1>3, FormationAssumption DEF FirstUses, InvitationIds
<1>5. Cardinality(slots) + n <= t.maxSlots /\ Cardinality(Joined) < t.maxMembers
  <2>1. Cardinality(slots) = 0 /\ Cardinality(Joined) = 0
    BY <1>2, FS_EmptySet
  <2> QED
    BY <1>1, <1>3, <1>4, <2>1
<1>6. /\ group' \in [status: {"none", "DRAFT", "LOCKED"}, listed: BOOLEAN, terms: Terms]
      /\ group'.terms = group.terms /\ group'.status = "DRAFT"
  BY <1>1 DEF FormationInv, FormationOK
<1>7. /\ slots' \subseteq [position: Nat \ {0}, owner: Users]
      /\ plan' \in [Users -> [units: Nat, perCycle: Nat, total: Nat, entitlement: Nat]]
      /\ joinedBy' \in [Users -> -1 .. MaxInvitations]
      /\ Joined' = {Creator} /\ WithinTerms' /\ SlotsOwned' /\ PlansPriced'
  BY <1>1, <1>2, <1>4, <1>5, <1>6, EnterKeeps
<1>8. /\ invitation' \in [InvitationIds -> [by: Users \cup {None}, status: {"none", "ACTIVE", "REVOKED"},
                                            uses: Nat, max: Nat, expired: BOOLEAN]]
      /\ \A i \in InvitationIds : invitation'[i].uses = 0 /\ invitation'[i].max \in Nat
  <2>1. NoInvitation.uses = 0
    BY DEF NoInvitation
  <2> HIDE DEF t
  <2>2. invitation' \in [InvitationIds -> [by: Users \cup {None}, status: {"none", "ACTIVE", "REVOKED"},
                                            uses: Nat, max: Nat, expired: BOOLEAN]]
    BY <1>1, <1>4, IssueType DEF FormationInv, FormationOK
  <2>3. \A i \in InvitationIds : invitation'[i] = IF i = 1 THEN Issue(1, Creator, FirstUses(t, n)) ELSE NoInvitation
    BY <1>1, <1>2, <1>4 DEF FormationInv, FormationOK
  <2> QED
    BY <1>4, <2>1, <2>2, <2>3, IssueType
<1>9. UsesAreMembers' /\ Unissued'
  <2>1. joinedBy'[Creator] = 0
    BY <1>1, <1>4 DEF Enter, FormationInv, FormationOK
  <2>2. \A i \in InvitationIds : {u \in Joined' : joinedBy'[u] = i} = {}
    BY <1>7, <2>1, FormationAssumption DEF InvitationIds
  <2>3. \A i \in InvitationIds : invitation'[i].uses <= invitation'[i].max
    BY <1>8
  <2>4. \A i \in InvitationIds : Cardinality({u \in Joined' : joinedBy'[u] = i}) = 0
    BY <2>2, FS_EmptySet
  <2> QED
    BY <1>8, <2>3, <2>4 DEF UsesAreMembers, Unissued
<1>10. FormationOK'
  BY <1>1, <1>6, <1>7, <1>8 DEF FormationInv, FormationOK
<1>11. NotFormed' /\ LockedRows'
  BY <1>1, <1>6 DEF NotFormed, LockedRows, FormationInv
<1> QED
  BY <1>7, <1>9, <1>10, <1>11 DEF FormationInv

\* join.
LEMMA JoinKeeps ==
    ASSUME FormationInv, NEW u \in Users, NEW n \in 1 .. group.terms.maxSlots, Join(u, n)
    PROVE  FormationInv'
<1> DEFINE t == group.terms
           code == opened[u]
<1>1. /\ u \notin Joined /\ code # -1 /\ group.status = "DRAFT"
      /\ code # 0 => Redeemable(code)
      /\ Cardinality(slots) + n <= t.maxSlots /\ Cardinality(Joined) < t.maxMembers
      /\ PerMember(t, n) /\ Enter(u, n, code)
      /\ invitation' = IF code = 0 THEN invitation ELSE [invitation EXCEPT ![code].uses = @ + 1]
      /\ UNCHANGED <<group, opened, cycles, verified>>
  BY DEF Join, AcceptsMembers
<1>2. code \in 0 .. MaxInvitations /\ (code # 0 => code \in InvitationIds)
  <2>1. code \in -1 .. MaxInvitations
    BY DEF FormationInv, FormationOK
  <2> HIDE DEF code
  <2> QED
    BY <1>1, <2>1, FormationAssumption DEF InvitationIds
<1>3. n \in Nat \ {0}
  <2>1. group.terms.maxSlots \in Nat
    BY TermsType DEF FormationInv, FormationOK
  <2> QED
    BY <2>1
<1>4. /\ slots' \subseteq [position: Nat \ {0}, owner: Users]
      /\ plan' \in [Users -> [units: Nat, perCycle: Nat, total: Nat, entitlement: Nat]]
      /\ joinedBy' \in [Users -> -1 .. MaxInvitations]
      /\ Joined' = Joined \cup {u} /\ WithinTerms' /\ SlotsOwned' /\ PlansPriced'
  BY <1>1, <1>2, <1>3, EnterKeeps
<1> HIDE DEF code
<1>5. /\ invitation' \in [InvitationIds -> [by: Users \cup {None}, status: {"none", "ACTIVE", "REVOKED"},
                                            uses: Nat, max: Nat, expired: BOOLEAN]]
      /\ \A i \in InvitationIds :
            /\ invitation'[i].uses = IF i = code THEN invitation[i].uses + 1 ELSE invitation[i].uses
            /\ invitation'[i].max = invitation[i].max /\ invitation'[i].status = invitation[i].status
            /\ invitation[i].uses \in Nat /\ invitation[i].max \in Nat
  <2>1. 0 \notin InvitationIds
    BY FormationAssumption DEF InvitationIds
  <2>2. CASE code = 0
    BY <1>1, <2>1, <2>2 DEF FormationInv, FormationOK
  <2>3. CASE code # 0
    <3>1. invitation' = [invitation EXCEPT ![code].uses = @ + 1] /\ code \in InvitationIds
      BY <1>1, <1>2, <2>3
    <3>2. invitation \in [InvitationIds -> [by: Users \cup {None}, status: {"none", "ACTIVE", "REVOKED"},
                                            uses: Nat, max: Nat, expired: BOOLEAN]]
      BY DEF FormationInv, FormationOK
    <3>3. /\ invitation[code].uses + 1 \in Nat
          /\ invitation' = [invitation EXCEPT ![code] = [invitation[code] EXCEPT !.uses = invitation[code].uses + 1]]
      BY <3>1, <3>2
    <3>4. [invitation[code] EXCEPT !.uses = invitation[code].uses + 1]
             \in [by: Users \cup {None}, status: {"none", "ACTIVE", "REVOKED"},
                  uses: Nat, max: Nat, expired: BOOLEAN]
      BY <3>1, <3>2, <3>3
    <3>5. invitation' \in [InvitationIds -> [by: Users \cup {None}, status: {"none", "ACTIVE", "REVOKED"},
                                             uses: Nat, max: Nat, expired: BOOLEAN]]
      BY <3>1, <3>2, <3>3, <3>4
    <3>6. ASSUME NEW i \in InvitationIds
          PROVE  /\ invitation'[i].uses = IF i = code THEN invitation[i].uses + 1 ELSE invitation[i].uses
                 /\ invitation'[i].max = invitation[i].max /\ invitation'[i].status = invitation[i].status
                 /\ invitation[i].uses \in Nat /\ invitation[i].max \in Nat
      BY <3>1, <3>2, <3>3
    <3> QED
      BY <3>5, <3>6
  <2> QED
    BY <2>2, <2>3
<1>6. /\ joinedBy'[u] = code
      /\ \A v \in Joined : v # u /\ joinedBy'[v] = joinedBy[v]
  BY <1>1 DEF Enter, FormationInv, FormationOK, Joined
<1>7. UsesAreMembers'
  <2> SUFFICES ASSUME NEW i \in InvitationIds
               PROVE  /\ invitation'[i].uses = Cardinality({v \in Joined' : joinedBy'[v] = i})
                      /\ invitation'[i].uses <= invitation'[i].max
    BY DEF UsesAreMembers
  <2> DEFINE came == {v \in Joined : joinedBy[v] = i}
  <2>1. /\ invitation[i].uses = Cardinality(came) /\ invitation[i].uses <= invitation[i].max
        /\ IsFiniteSet(came) /\ u \notin came
    BY <1>1, FormationAssumption, FS_Subset DEF FormationInv, UsesAreMembers, Joined
  <2>2. CASE i = code
    <3>1. {v \in Joined' : joinedBy'[v] = i} = came \cup {u}
      BY <1>4, <1>6, <2>2
    <3>2. invitation[i].uses < invitation[i].max
      BY <1>1, <2>2, FormationAssumption DEF Redeemable, InvitationIds
    <3> HIDE DEF came
    <3>3. Cardinality(came \cup {u}) = Cardinality(came) + 1
      BY <2>1, FS_AddElement
    <3>4. /\ invitation'[i].uses = invitation[i].uses + 1 /\ invitation'[i].max = invitation[i].max
          /\ invitation[i].uses \in Nat /\ invitation[i].max \in Nat
      BY <1>5, <2>2
    <3>5. invitation'[i].uses = Cardinality(came \cup {u})
      BY <2>1, <3>3, <3>4
    <3>6. invitation'[i].uses <= invitation'[i].max
      BY <3>2, <3>4
    <3> QED
      BY <3>1, <3>5, <3>6
  <2>3. CASE i # code
    <3>1. {v \in Joined' : joinedBy'[v] = i} = came
      BY <1>4, <1>6, <2>3
    <3> QED
      BY <1>5, <2>1, <2>3, <3>1
  <2> QED
    BY <2>2, <2>3
<1>8. Unissued'
  <2>1. \A i \in InvitationIds : i = code => invitation[i].status = "ACTIVE"
    BY <1>1, FormationAssumption DEF Redeemable, InvitationIds
  <2> QED
    BY <1>5, <2>1 DEF FormationInv, Unissued
<1>9. FormationOK'
  BY <1>1, <1>4, <1>5 DEF FormationInv, FormationOK
<1>10. NotFormed' /\ LockedRows'
  BY <1>1 DEF NotFormed, LockedRows, FormationInv
<1> QED
  BY <1>4, <1>7, <1>8, <1>9, <1>10 DEF FormationInv

\* lock.
LEMMA LockKeeps ==
    ASSUME FormationInv, Lock
    PROVE  FormationInv'
<1> DEFINE t == group.terms
           n == Cardinality(slots)
<1>1. /\ group.status = "DRAFT" /\ Schedulable(t, slots)
      /\ SumFunctionOnSet([u \in Joined |-> plan[u].units], Joined) = n
      /\ cycles' = RotationSchedule(t, slots)
      /\ plan' = [u \in Users |-> IF u \in Joined THEN LockedPlan(plan[u], t, n) ELSE plan[u]]
      /\ group' = [group EXCEPT !.status = "LOCKED"]
      /\ UNCHANGED <<slots, invitation, opened, joinedBy, verified>>
  BY DEF Lock, AcceptsMembers
<1>2. Joined' = Joined /\ Joined \subseteq Users
  BY <1>1 DEF Joined
<1>3. /\ group' \in [status: {"none", "DRAFT", "LOCKED"}, listed: BOOLEAN, terms: Terms]
      /\ group'.terms = t /\ group'.status = "LOCKED"
  BY <1>1 DEF FormationInv, FormationOK
<1>4. t.unit \in Nat /\ n \in Nat
  BY TermsType, FS_CardinalityType DEF FormationInv, FormationOK, SlotsOwned
<1>5. ASSUME NEW p \in [units: Nat, perCycle: Nat, total: Nat, entitlement: Nat]
      PROVE  /\ LockedPlan(p, t, n) \in [units: Nat, perCycle: Nat, total: Nat, entitlement: Nat]
             /\ LockedPlan(p, t, n).units = p.units /\ LockedPlan(p, t, n).perCycle = p.perCycle
             /\ LockedPlan(LockedPlan(p, t, n), t, n) = LockedPlan(p, t, n)
  <2> HIDE DEF t, n
  <2>1. p.perCycle * n \in Nat /\ t.unit * n * p.units \in Nat
    <3>1. t.unit * n \in Nat
      BY <1>4
    <3> QED
      BY <1>4, <3>1
  <2> QED
    BY <2>1 DEF LockedPlan
<1>6. /\ plan' \in [Users -> [units: Nat, perCycle: Nat, total: Nat, entitlement: Nat]]
      /\ \A u \in Joined : /\ plan'[u].units = plan[u].units /\ plan'[u].perCycle = plan[u].perCycle
                           /\ plan'[u] = LockedPlan(plan'[u], t, n)
  <2>1. \A u \in Users : plan[u] \in [units: Nat, perCycle: Nat, total: Nat, entitlement: Nat]
    BY DEF FormationInv, FormationOK
  <2> HIDE DEF t, n
  <2> QED
    BY <1>1, <1>2, <1>5, <2>1
<1>7. FormationOK'
  BY <1>1, <1>3, <1>6 DEF FormationInv, FormationOK
<1>8. WithinTerms'
  BY <1>1, <1>2, <1>3, <1>6 DEF FormationInv, WithinTerms
<1>9. SlotsOwned' /\ PlansPriced' /\ UsesAreMembers' /\ Unissued' /\ NotFormed'
  <2>1. SlotsOwned' /\ Unissued' /\ NotFormed'
    BY <1>1, <1>2, <1>3 DEF FormationInv, SlotsOwned, Unissued, NotFormed
  <2>2. PlansPriced'
    <3>1. \A u \in Joined : plan[u].perCycle = t.unit * plan[u].units
      BY DEF FormationInv, PlansPriced
    <3>2. \A u \in Joined : plan'[u].perCycle = t.unit * plan'[u].units
      BY <1>6, <3>1
    <3> QED
      BY <1>2, <1>3, <3>2 DEF PlansPriced
  <2>3. UsesAreMembers'
    BY <1>1, <1>2 DEF FormationInv, UsesAreMembers
  <2> QED
    BY <2>1, <2>2, <2>3
<1>10. LockedRows'
  <2>1. [u \in Joined |-> plan'[u].units] = [u \in Joined |-> plan[u].units]
    BY <1>6
  <2> QED
    BY <1>1, <1>2, <1>3, <1>6, <2>1 DEF LockedRows
<1> QED
  BY <1>7, <1>8, <1>9, <1>10 DEF FormationInv

\* A step that changes no use, no maximum and no member keeps the invariant,
\* if what it issues is new.
LEMMA InvitationsKept ==
    ASSUME FormationInv, UNCHANGED <<group, slots, plan, opened, joinedBy, cycles, verified>>,
           group.status # "none",
           invitation' \in [InvitationIds -> [by: Users \cup {None}, status: {"none", "ACTIVE", "REVOKED"},
                                              uses: Nat, max: Nat, expired: BOOLEAN]],
           \A i \in InvitationIds :
               /\ invitation'[i].uses = invitation[i].uses
               /\ invitation'[i].max = invitation[i].max \/ invitation[i].uses = 0
               /\ invitation'[i].status = "none" => invitation[i].status = "none"
    PROVE  FormationInv'
<1>1. Joined' = Joined /\ WithinTerms' /\ SlotsOwned' /\ PlansPriced' /\ LockedRows'
  BY RowsKept
<1>2. UsesAreMembers'
  <2>1. \A i \in InvitationIds : invitation'[i].max \in Nat
    OBVIOUS
  <2> QED
    BY <1>1, <2>1 DEF FormationInv, UsesAreMembers
<1>3. Unissued' /\ NotFormed' /\ FormationOK'
  BY DEF FormationInv, Unissued, NotFormed, FormationOK
<1> QED
  BY <1>1, <1>2, <1>3 DEF FormationInv

\* Every step of the formation keeps the invariant.
LEMMA NextFormationInv == FormationInv /\ [FormationNext]_formationVars => FormationInv'
<1> SUFFICES ASSUME FormationInv, [FormationNext]_formationVars PROVE FormationInv'
  OBVIOUS
<1>0. invitation \in [InvitationIds -> [by: Users \cup {None}, status: {"none", "ACTIVE", "REVOKED"},
                                        uses: Nat, max: Nat, expired: BOOLEAN]]
  BY DEF FormationInv, FormationOK
<1>1. ASSUME NEW u \in Users, NEW code \in 0 .. MaxInvitations, OpenLink(u, code)
      PROVE  FormationInv'
  <2>1. /\ opened' = [opened EXCEPT ![u] = code]
        /\ UNCHANGED <<group, slots, plan, invitation, joinedBy, cycles, verified>>
    BY <1>1 DEF OpenLink
  <2>2. opened' \in [Users -> -1 .. MaxInvitations]
    BY <2>1, FormationAssumption DEF FormationInv, FormationOK
  <2>3. Joined' = Joined /\ WithinTerms' /\ SlotsOwned' /\ PlansPriced' /\ LockedRows'
    BY <2>1, RowsKept
  <2> QED
    BY <2>1, <2>2, <2>3 DEF FormationInv, FormationOK, UsesAreMembers, Unissued, NotFormed
<1>2. ASSUME NEW listed \in BOOLEAN, SetListing(listed)
      PROVE  FormationInv'
  <2>1. /\ group' = [group EXCEPT !.listed = listed]
        /\ UNCHANGED <<slots, plan, invitation, opened, joinedBy, cycles, verified>>
    BY <1>2 DEF SetListing
  <2>2. /\ group' \in [status: {"none", "DRAFT", "LOCKED"}, listed: BOOLEAN, terms: Terms]
        /\ group'.terms = group.terms /\ group'.status = group.status
    BY <2>1 DEF FormationInv, FormationOK
  <2>3. Joined' = Joined /\ WithinTerms' /\ SlotsOwned' /\ PlansPriced' /\ LockedRows'
    BY <2>1, <2>2, RowsKept
  <2> QED
    BY <2>1, <2>2, <2>3 DEF FormationInv, FormationOK, UsesAreMembers, Unissued, NotFormed
<1>3. ASSUME NEW u \in Users, NEW max \in {1, 2}, CreateInvitation(u, max)
      PROVE  FormationInv'
  <2>1. PICK i \in InvitationIds : /\ invitation[i].status = "none"
                                   /\ invitation' = [invitation EXCEPT ![i] = Issue(i, u, max)]
    BY <1>3 DEF CreateInvitation, NextInvitation
  <2>2. /\ Issue(i, u, max) \in [by: Users \cup {None}, status: {"none", "ACTIVE", "REVOKED"},
                                 uses: Nat, max: Nat, expired: BOOLEAN]
        /\ Issue(i, u, max).uses = 0 /\ invitation[i].uses = 0 /\ Issue(i, u, max).status = "ACTIVE"
    BY <2>1, IssueType DEF FormationInv, Unissued
  <2>3. group.status # "none" /\ UNCHANGED <<group, slots, plan, opened, joinedBy, cycles, verified>>
    BY <1>3 DEF CreateInvitation, AcceptsMembers
  <2>4. /\ invitation' \in [InvitationIds -> [by: Users \cup {None}, status: {"none", "ACTIVE", "REVOKED"},
                                              uses: Nat, max: Nat, expired: BOOLEAN]]
        /\ \A j \in InvitationIds :
               /\ invitation'[j].uses = invitation[j].uses
               /\ invitation'[j].max = invitation[j].max \/ invitation[j].uses = 0
               /\ invitation'[j].status = "none" => invitation[j].status = "none"
    BY <1>0, <2>1, <2>2
  <2> QED
    BY <2>3, <2>4, InvitationsKept
<1>4. ASSUME NEW i \in InvitationIds, RevokeInvitation(i) \/ InvitationExpires(i)
      PROVE  FormationInv'
  <2>1. /\ \/ invitation' = [invitation EXCEPT ![i].status = "REVOKED"]
           \/ invitation' = [invitation EXCEPT ![i].expired = TRUE]
        /\ invitation[i].status = "ACTIVE"
        /\ UNCHANGED <<group, slots, plan, opened, joinedBy, cycles, verified>>
    BY <1>4 DEF RevokeInvitation, InvitationExpires
  <2>2. group.status # "none"
    BY <2>1 DEF FormationInv, NotFormed, NoInvitation
  <2>3. /\ invitation' \in [InvitationIds -> [by: Users \cup {None}, status: {"none", "ACTIVE", "REVOKED"},
                                              uses: Nat, max: Nat, expired: BOOLEAN]]
        /\ \A j \in InvitationIds :
               /\ invitation'[j].uses = invitation[j].uses
               /\ invitation'[j].max = invitation[j].max
               /\ invitation'[j].status = "none" => invitation[j].status = "none"
    <3>1. CASE invitation' = [invitation EXCEPT ![i] = [invitation[i] EXCEPT !.status = "REVOKED"]]
      BY <1>0, <2>1, <3>1
    <3>2. CASE invitation' = [invitation EXCEPT ![i] = [invitation[i] EXCEPT !.expired = TRUE]]
      BY <1>0, <2>1, <3>2
    <3> QED
      BY <1>0, <2>1, <3>1, <3>2
  <2> QED
    BY <2>1, <2>2, <2>3, InvitationsKept
<1>5. CASE VerificationChanges \/ UNCHANGED formationVars
  <2>1. UNCHANGED <<group, slots, plan, invitation, opened, joinedBy, cycles>> /\ verified' \in BOOLEAN
    BY <1>5 DEF VerificationChanges, formationVars, FormationInv, FormationOK
  <2>2. Joined' = Joined /\ WithinTerms' /\ SlotsOwned' /\ PlansPriced' /\ LockedRows'
    BY <2>1, RowsKept
  <2> QED
    BY <2>1, <2>2 DEF FormationInv, FormationOK, UsesAreMembers, Unissued, NotFormed
<1> QED
  BY <1>1, <1>2, <1>3, <1>4, <1>5, CreateKeeps, JoinKeeps, LockKeeps DEF FormationNext

\* The parts of FormationInv hold in every reachable state.
THEOREM FormationInvariantHolds == FormationSpec => []FormationInv
<1> QED
  BY InitFormationInv, NextFormationInv, PTL DEF FormationSpec

\* AjoFormation is type correct (AjoGroupsService, GroupInvitationsService).
THEOREM FormationsAreTyped == FormationSpec => []FormationOK
<1>1. FormationInv => FormationOK
  BY DEF FormationInv
<1> QED
  BY <1>1, FormationInvariantHolds, PTL

\* However many users open, share and use links, a group never outgrows its
\* terms, and its positions stay without a gap (join).
THEOREM GroupsStayWithinTerms == FormationSpec => []WithinTerms
<1>1. FormationInv => WithinTerms
  BY DEF FormationInv
<1> QED
  BY <1>1, FormationInvariantHolds, PTL

\* No invitation admits more members than it was issued for, and its count of
\* uses is the members it admitted (join, isRedeemable).
THEOREM LinksAdmitTheirMembers == FormationSpec => []UsesAreMembers
<1>1. FormationInv => UsesAreMembers
  BY DEF FormationInv
<1> QED
  BY <1>1, FormationInvariantHolds, PTL

\* What the plans of a locked group put in is what its turns pay out
\* (lock, reconcileFlexibleAjo).
THEOREM PlansAlwaysReconcile == FormationSpec => []Reconciles
<1>1. FormationInv => Reconciles
  BY PlansReconcile
<1> QED
  BY <1>1, FormationInvariantHolds, PTL

\* Turns fall on later and later days within the terms' dates, on days the
\* calendar has (generateRotationSchedule, addFrequency).
THEOREM TurnsAlwaysAdvance == FormationSpec => []TurnsAdvance
<1>1. FormationInv => TurnsAdvance
  BY ScheduleAdvances
<1> QED
  BY <1>1, FormationInvariantHolds, PTL
=============================================================================
