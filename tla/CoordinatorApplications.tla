---------------------- MODULE CoordinatorApplications -----------------------
(***************************************************************************)
(* FoodCoordinatorApplicationsService over module Kyc: the applications of *)
(* the account's owner to coordinate food programmes.                      *)
(*                                                                         *)
(* Submitting is guarded by the evidence, approving by the stored status   *)
(* and tier of the KYC profile.  Statuses no code writes (SUBMITTED,       *)
(* MANUAL_REVIEW, REVOKED, EXPIRED) are left out, and of the details only  *)
(* whether they suffice to submit is kept.                                 *)
(***************************************************************************)
EXTENDS Kyc

CONSTANT MaxApplications   \* bound: applications ever created

ASSUME ApplicationsAssumption == MaxApplications \in Nat

VARIABLES
    applications,   \* food_coordinator_applications in the order of creation
    editing,        \* the ones an update has found editable and not yet written
    coordinator     \* status of food_coordinator_profiles

applicationVars == <<kycVars, applications, editing, coordinator>>

ApplicationStatuses ==
    {"DRAFT", "AUTOMATED_REVIEW", "MORE_INFORMATION_REQUIRED", "REJECTED", "APPROVED", "SUSPENDED"}

\* Type correctness.
ApplicationsOK ==
    /\ KycTypeOK
    /\ applications \in Seq([status: ApplicationStatuses, ready: BOOLEAN])
    /\ editing \subseteq DOMAIN applications
    /\ coordinator \in {"absent", "VERIFIED", "REQUIRES_REVIEW"}

ApplicationsInit == KycInit /\ applications = <<>> /\ editing = {} /\ coordinator = "absent"

Editable(a) == a.status \in {"DRAFT", "MORE_INFORMATION_REQUIRED"}
Moves(i, status) == applications' = [applications EXCEPT ![i].status = status]
KycUnchanged == UNCHANGED <<details, profile, checks, rejected>>

\* create: the look for an active application, then the insert.
BeginCreate(r) ==
    /\ At(r, "idle")
    /\ \A i \in DOMAIN applications : applications[i].status = "REJECTED"
    /\ Len(applications) + Cardinality({q \in Requests : At(q, "apply")}) < MaxApplications
    /\ Go(r, "apply")
    /\ KycUnchanged /\ UNCHANGED <<applications, editing, coordinator>>
Create(r, ready) ==
    /\ At(r, "apply")
    /\ applications' = Append(applications, [status |-> "DRAFT", ready |-> ready])
    /\ Finish(r)
    /\ KycUnchanged /\ UNCHANGED <<editing, coordinator>>

\* update, by which missing consent and settlement details are given: the look,
\* then the write by id, which asks no status again and writes none.
BeginUpdate(i) ==
    /\ Editable(applications[i])
    /\ editing' = editing \cup {i}
    /\ KycUnchanged /\ UNCHANGED <<request, applications, coordinator>>
Update(i) ==
    /\ i \in editing
    /\ applications' = [applications EXCEPT ![i].ready = TRUE]
    /\ editing' = editing \ {i}
    /\ KycUnchanged /\ UNCHANGED <<request, coordinator>>

\* submit: the stage guard of the controller, then the transaction.
BeginSubmit(r) ==
    /\ At(r, "idle") /\ Level >= 3
    /\ Go(r, "submit")
    /\ KycUnchanged /\ UNCHANGED <<applications, editing, coordinator>>
Submit(r, i) ==
    /\ At(r, "submit")
    /\ IF Editable(applications[i]) /\ applications[i].ready
       THEN Moves(i, "AUTOMATED_REVIEW")
       ELSE UNCHANGED applications
    /\ Finish(r)
    /\ KycUnchanged /\ UNCHANGED <<editing, coordinator>>

\* requestInformation and reject.
ReviewTransition(i, to) ==
    /\ applications[i].status \notin {"DRAFT", "APPROVED"}
    /\ Moves(i, to)
    /\ KycUnchanged /\ UNCHANGED <<request, editing, coordinator>>

\* approve, on the stored status and tier.
Approve(i) ==
    /\ applications[i].status = "AUTOMATED_REVIEW"
    /\ profile.status = "VERIFIED" /\ profile.level = 3
    /\ Moves(i, "APPROVED")
    /\ coordinator' = "VERIFIED"
    /\ KycUnchanged /\ UNCHANGED <<request, editing>>

\* Mutant of Suspend: the coordinator profile is left as it is.
SuspendApplicationOnly(i) ==
    /\ applications[i].status = "APPROVED"
    /\ Moves(i, "SUSPENDED")
    /\ KycUnchanged /\ UNCHANGED <<request, editing, coordinator>>

\* suspend.
Suspend(i) ==
    /\ applications[i].status = "APPROVED"
    /\ Moves(i, "SUSPENDED")
    /\ coordinator' = IF coordinator = "absent" THEN "absent" ELSE "REQUIRES_REVIEW"
    /\ KycUnchanged /\ UNCHANGED <<request, editing>>

ApplicationStep ==
    \/ \E r \in Requests :
        \/ BeginCreate(r)
        \/ \E ready \in BOOLEAN : Create(r, ready)
        \/ BeginSubmit(r)
        \/ \E i \in DOMAIN applications : Submit(r, i)
    \/ \E i \in DOMAIN applications :
        \/ BeginUpdate(i) \/ Update(i) \/ Approve(i) \/ Suspend(i)
        \/ \E to \in {"MORE_INFORMATION_REQUIRED", "REJECTED"} : ReviewTransition(i, to)

ApplicationsNext ==
    \/ KycNext /\ UNCHANGED <<applications, editing, coordinator>>
    \/ ApplicationStep

ApplicationsSpec == ApplicationsInit /\ [][ApplicationsNext]_applicationVars

-----------------------------------------------------------------------------
\* Whoever may collect money as a coordinator does so on an application that is
\* still approved: no review, suspension or second application leaves the
\* profile VERIFIED behind (approve, suspend and reviewTransition write both
\* rows in one transaction, or neither).
CoordinatorIsApproved ==
    coordinator = "VERIFIED" => \E i \in DOMAIN applications : applications[i].status = "APPROVED"
=============================================================================
