---------------------------- MODULE AjoFormation ----------------------------
(***************************************************************************)
(* An Ajo group from its creation to the lock of its rotation.             *)
(*                                                                         *)
(*   AjoGroupsService.create / join / setListing / lock                    *)
(*   GroupInvitationsService.create / revoke / resolveGroup                *)
(*   ajo-schedule, ajo-policy, group-invitation-policy, flexible-ajo       *)
(*                                                                         *)
(* Every operation that writes is one serializable transaction; opening a  *)
(* link only reads, and joining by it comes later.  Dates are a month      *)
(* (counted from a January) and a day; the offsets that turn a due date    *)
(* into windows, the profile, codes and digests are data nothing here      *)
(* compares, and the years have no 29th of February.                       *)
(* The rows that lock creates are where module AjoRotation starts.  The    *)
(* stage guards of the controllers come before an action and are module    *)
(* Kyc's; only the check that join itself makes is here.                   *)
(***************************************************************************)
EXTENDS Integers, Sequences, FiniteSets, Functions

CONSTANTS
    Users,
    Creator,         \* who creates the group and administers it
    Terms,           \* what a creator may ask for
    MaxInvitations,  \* bound: invitations ever issued
    MaxLive,         \* MAX_LIVE_INVITATIONS_PER_MEMBER
    None

MonthLengths == <<31, 28, 31, 30, 31, 30, 31, 31, 30, 31, 30, 31>>
MonthLength(m) == MonthLengths[((m - 1) % 12) + 1]
Dates == {d \in [month: 1 .. 24, day: 1 .. 31] : d.day <= MonthLength(d.month)}

\* The limits on Terms are those of CreateAjoGroupDto.
ASSUME FormationAssumption ==
    /\ IsFiniteSet(Users) /\ Creator \in Users /\ None \notin Users
    /\ MaxInvitations \in Nat \ {0} /\ MaxLive \in Nat
    /\ Terms \subseteq [start: Dates, end: Dates, frequency: {"DAILY", "WEEKLY", "MONTHLY"},
                        maxMembers: Nat \ {0, 1}, maxSlots: Nat, min: Nat, max: Nat, unit: Nat]

VARIABLES
    group,       \* ajo_groups: status, listing and terms
    slots,       \* ajo_slots: who holds each position, as [position, owner]
    plan,        \* ajo_contribution_plans by member
    invitation,  \* group_invitations
    opened,      \* the code each user's link resolved to, 0 for the public one
    joinedBy,    \* how each member was admitted
    cycles,      \* ajo_cycles with their payout schedule
    verified     \* the administrator's identity verification (module Kyc)

formationVars == <<group, slots, plan, invitation, opened, joinedBy, cycles, verified>>

InvitationIds == 1 .. MaxInvitations
NoPlan == [units |-> 0, perCycle |-> 0, total |-> 0, entitlement |-> 0]
NoInvitation == [by |-> None, status |-> "none", uses |-> 0, max |-> 0, expired |-> FALSE]

\* Type correctness.
FormationOK ==
    /\ group \in [status: {"none", "DRAFT", "LOCKED"}, listed: BOOLEAN, terms: Terms]
    /\ slots \subseteq [position: Nat \ {0}, owner: Users]
    /\ plan \in [Users -> [units: Nat, perCycle: Nat, total: Nat, entitlement: Nat]]
    /\ invitation \in [InvitationIds -> [by: Users \cup {None}, status: {"none", "ACTIVE", "REVOKED"},
                                         uses: Nat, max: Nat, expired: BOOLEAN]]
    /\ opened \in [Users -> -1 .. MaxInvitations]
    /\ joinedBy \in [Users -> -1 .. MaxInvitations]
    /\ verified \in BOOLEAN

FormationInit ==
    /\ \E t \in Terms : group = [status |-> "none", listed |-> FALSE, terms |-> t]
    /\ slots = {}
    /\ plan = [u \in Users |-> NoPlan]
    /\ invitation = [i \in InvitationIds |-> NoInvitation]
    /\ opened = [u \in Users |-> -1]
    /\ joinedBy = [u \in Users |-> -1]
    /\ cycles = {}
    /\ verified = TRUE

-----------------------------------------------------------------------------
(* The calendar of ajo-schedule.                                           *)

\* The days of the months before m.
DaysBefore(m) == SumFunctionOnSet([n \in 1 .. m - 1 |-> MonthLength(n)], 1 .. m - 1)
DayNumber(date) == DaysBefore(date.month) + date.day

\* Mutant of DueDay: a day the month does not have rolls into the next one.
DueDayRolls(t, index) ==
    CASE t.frequency = "DAILY" -> DayNumber(t.start) + index
      [] t.frequency = "WEEKLY" -> DayNumber(t.start) + 7 * index
      [] t.frequency = "MONTHLY" -> DayNumber([t.start EXCEPT !.month = @ + index])

\* addFrequency: the months are counted from the start date, and a day the
\* month does not have becomes its last.
DueDay(t, index) ==
    CASE t.frequency = "DAILY" -> DayNumber(t.start) + index
      [] t.frequency = "WEEKLY" -> DayNumber(t.start) + 7 * index
      [] t.frequency = "MONTHLY" ->
            LET m == t.start.month + index  last == MonthLength(m) IN
            DayNumber([month |-> m, day |-> IF t.start.day <= last THEN t.start.day ELSE last])

\* assertAjoGroupBounds.
WithinBounds(t) ==
    /\ t.maxSlots \in 2 .. 1000
    /\ DayNumber(t.start) < DayNumber(t.end)
    /\ DayNumber(t.end) <= DayNumber([t.start EXCEPT !.month = @ + 12])

\* generateRotationSchedule: refused unless the positions are 1 to n, n is at
\* least 2 and every turn falls before the end date; position p is paid in
\* cycle p what n slots contribute.
Schedulable(t, S) ==
    /\ Cardinality(S) \in 2 .. 1000 /\ t.unit > 0
    /\ {s.position : s \in S} = 1 .. Cardinality(S)
    /\ \A index \in 0 .. Cardinality(S) - 1 : DueDay(t, index) <= DayNumber(t.end)
RotationSchedule(t, S) ==
    {[sequence |-> p, due |-> DueDay(t, p - 1), payout |-> t.unit * Cardinality(S)]
        : p \in 1 .. Cardinality(S)}

-----------------------------------------------------------------------------
(* Members and slots.                                                      *)

Joined == {u \in Users : joinedBy[u] # -1}
AcceptsMembers == group.status = "DRAFT"

\* resolveMaxSlotsPerMember and assertSlotCapacity, at creation; join checks
\* the group's limits again.
PerMember(t, n) == n >= t.min /\ n <= t.max

\* Mutant of NewSlots: positions continue from the number of members, not of slots.
SlotsFromMembers(u, n) == {[position |-> Cardinality(Joined) + k, owner |-> u] : k \in 1 .. n}

\* The member row, its slots after the existing ones, and its plan.
NewSlots(u, n) == {[position |-> Cardinality(slots) + k, owner |-> u] : k \in 1 .. n}
Enter(u, n, by) ==
    /\ slots' = slots \cup NewSlots(u, n)
    /\ plan' = [plan EXCEPT ![u] = [units |-> n, perCycle |-> group.terms.unit * n, total |-> 0,
                                    entitlement |-> group.terms.unit * n]]
    /\ joinedBy' = [joinedBy EXCEPT ![u] = by]

NextInvitation(i) == invitation[i].status = "none" /\ \A j \in 1 .. i - 1 : invitation[j].status # "none"
Issue(i, u, max) == [by |-> u, status |-> "ACTIVE", uses |-> 0, max |-> max, expired |-> FALSE]

\* What the group's first invitation may admit.
FirstUses(t, n) == t.maxSlots - n

\* create: the group, its administrator and an invitation for what is left.
Create(n) ==
    LET t == group.terms IN
    /\ group.status = "none"
    /\ WithinBounds(t)
    /\ t.max <= t.maxSlots /\ t.min <= t.max /\ PerMember(t, n) /\ n <= t.maxSlots
    /\ group' = [group EXCEPT !.status = "DRAFT"]
    /\ Enter(Creator, n, 0)
    /\ invitation' = [invitation EXCEPT ![1] = Issue(1, Creator, FirstUses(t, n))]
    /\ UNCHANGED <<opened, cycles, verified>>

\* Mutant of Redeemable: uses are not counted against the maximum.
RedeemableForever(i) == invitation[i].status = "ACTIVE" /\ ~invitation[i].expired

\* effectiveInvitationStatus = ACTIVE.
Redeemable(i) ==
    /\ invitation[i].status = "ACTIVE" /\ ~invitation[i].expired
    /\ invitation[i].uses < invitation[i].max

\* resolveGroup: what a link is good for when it is opened.
OpenLink(u, code) ==
    /\ u \notin Joined /\ AcceptsMembers
    /\ IF code = 0 THEN group.listed ELSE Redeemable(code)
    /\ opened' = [opened EXCEPT ![u] = code]
    /\ UNCHANGED <<group, slots, plan, invitation, joinedBy, cycles, verified>>

\* join, with the code of a link opened earlier: everything is looked at again.
Join(u, n) ==
    LET t == group.terms  code == opened[u] IN
    /\ u \notin Joined /\ code # -1
    /\ AcceptsMembers /\ verified
    /\ IF code = 0 THEN group.listed ELSE Redeemable(code)
    /\ Cardinality(slots) + n <= t.maxSlots
    /\ Cardinality(Joined) < t.maxMembers
    /\ PerMember(t, n)
    /\ Enter(u, n, code)
    /\ invitation' = IF code = 0 THEN invitation ELSE [invitation EXCEPT ![code].uses = @ + 1]
    /\ UNCHANGED <<group, opened, cycles, verified>>

\* setListing, by the administrator; unlisting is always allowed.
SetListing(listed) ==
    /\ group.status # "none" /\ group.listed # listed
    /\ listed => AcceptsMembers
    /\ group' = [group EXCEPT !.listed = listed]
    /\ UNCHANGED <<slots, plan, invitation, opened, joinedBy, cycles, verified>>

\* GroupInvitationsService.create, within the issuer's allowance.
Live(u) == {i \in InvitationIds : /\ invitation[i].by = u /\ invitation[i].status = "ACTIVE"
                                  /\ ~invitation[i].expired}
CreateInvitation(u, max) ==
    /\ u \in Joined /\ AcceptsMembers
    /\ Cardinality(Live(u)) < MaxLive
    /\ \E i \in InvitationIds :
        NextInvitation(i) /\ invitation' = [invitation EXCEPT ![i] = Issue(i, u, max)]
    /\ UNCHANGED <<group, slots, plan, opened, joinedBy, cycles, verified>>

\* GroupInvitationsService.revoke, by its issuer.
RevokeInvitation(i) ==
    /\ invitation[i].status = "ACTIVE"
    /\ invitation' = [invitation EXCEPT ![i].status = "REVOKED"]
    /\ UNCHANGED <<group, slots, plan, opened, joinedBy, cycles, verified>>

\* Fourteen days pass, or the start date for the first invitation.
InvitationExpires(i) ==
    /\ invitation[i].status = "ACTIVE" /\ ~invitation[i].expired
    /\ invitation' = [invitation EXCEPT ![i].expired = TRUE]
    /\ UNCHANGED <<group, slots, plan, opened, joinedBy, cycles, verified>>

\* Mutant of LockedPlan: a plan expects one contribution per slot, not per cycle.
LockedPlanPerSlot(p, t, n) ==
    [p EXCEPT !.total = p.perCycle * p.units, !.entitlement = t.unit * n * p.units]

\* lock: the schedule, the plans' totals and the status in one transaction.
LockedPlan(p, t, n) ==
    [p EXCEPT !.total = p.perCycle * n, !.entitlement = t.unit * n * p.units]
Lock ==
    LET t == group.terms  n == Cardinality(slots) IN
    /\ AcceptsMembers
    /\ Schedulable(t, slots)
    /\ Cardinality(Joined) <= t.maxMembers
    /\ SumFunctionOnSet([u \in Joined |-> plan[u].units], Joined) = n
    /\ cycles' = RotationSchedule(t, slots)
    /\ plan' = [u \in Users |-> IF u \in Joined THEN LockedPlan(plan[u], t, n) ELSE plan[u]]
    /\ group' = [group EXCEPT !.status = "LOCKED"]
    /\ UNCHANGED <<slots, invitation, opened, joinedBy, verified>>

\* assertOrganiserVerified reads a stage that reviews may change (external).
VerificationChanges ==
    /\ group.status # "LOCKED"
    /\ verified' = ~verified
    /\ UNCHANGED <<group, slots, plan, invitation, opened, joinedBy, cycles>>

FormationNext ==
    \/ \E n \in 1 .. group.terms.maxSlots : Create(n) \/ \E u \in Users : Join(u, n)
    \/ \E u \in Users, code \in 0 .. MaxInvitations : OpenLink(u, code)
    \/ \E listed \in BOOLEAN : SetListing(listed)
    \/ \E u \in Users, max \in {1, 2} : CreateInvitation(u, max)
    \/ \E i \in InvitationIds : RevokeInvitation(i) \/ InvitationExpires(i)
    \/ Lock \/ VerificationChanges

FormationSpec == FormationInit /\ [][FormationNext]_formationVars

-----------------------------------------------------------------------------
\* Whatever order links are opened, used, revoked and unlisted in, the group
\* keeps to its terms and its positions are 1 to n without a gap, which lock
\* needs to accept them at all (join, generateRotationSchedule).
WithinTerms ==
    LET t == group.terms IN
    /\ Cardinality(slots) <= t.maxSlots
    /\ Cardinality(Joined) <= t.maxMembers
    /\ {s.position : s \in slots} = 1 .. Cardinality(slots)
    /\ \A u \in Joined : /\ PerMember(t, plan[u].units)
                         /\ Cardinality({s \in slots : s.owner = u}) = plan[u].units

\* Every member but the creator is one use of one invitation or came through
\* the listing, and no link admits more than it was issued for.
UsesAreMembers ==
    \A i \in InvitationIds :
        /\ invitation[i].uses = Cardinality({u \in Joined : joinedBy[u] = i})
        /\ invitation[i].uses <= invitation[i].max

\* reconcileFlexibleAjo over the locked rows: what members will put in over
\* all cycles is what all turns pay out, and each member takes out what the
\* turns of his slots pay.
Reconciles ==
    group.status = "LOCKED" =>
        /\ SumFunctionOnSet([u \in Joined |-> plan[u].total], Joined)
             = SumFunctionOnSet([c \in cycles |-> c.payout], cycles)
        /\ \A u \in Joined :
              LET mine == {s \in slots : s.owner = u}
                  turn(s) == CHOOSE c \in cycles : c.sequence = s.position
              IN plan[u].entitlement = SumFunctionOnSet([s \in mine |-> turn(s).payout], mine)

\* Turns fall on later and later days, none before the start or after the end,
\* also where a month has no such day (addFrequency).
TurnsAdvance ==
    /\ \A c, d \in cycles : c.sequence < d.sequence => c.due < d.due
    /\ \A c \in cycles : c.due \in DayNumber(group.terms.start) .. DayNumber(group.terms.end)
    /\ group.terms.frequency = "MONTHLY" =>
          \A c \in cycles : \E day \in 1 .. 31 :
              c.due = DayNumber([month |-> group.terms.start.month + c.sequence - 1, day |-> day])
              /\ day <= MonthLength(group.terms.start.month + c.sequence - 1)
=============================================================================
