-------------------------------- MODULE MCKyc -------------------------------
(* An instance of CoordinatorApplications (and with it Kyc) for TLC: two    *)
(* interchangeable requests in flight.                                     *)
EXTENDS CoordinatorApplications

Interchangeable == Permutations(Requests)

\* Bound: while there are two applications or one is being updated, the owner's
\* requests are about them; the verification, which reads no application, runs
\* beside one application that rests, or none.
VerificationRests ==
    \/ Len(applications) < 2 /\ editing = {}
    \/ \A r \in Requests : request[r].at \in {"idle", "apply", "submit"}
=============================================================================
