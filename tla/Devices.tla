------------------------------- MODULE Devices -------------------------------
(***************************************************************************)
(* DevicesService: which installation of the app holds which push token.   *)
(*                                                                         *)
(* A row of devices is named by its user and the installation's            *)
(* fingerprint.  A row without a token and no row at all are alike to every *)
(* operation but the list, so both are Unset; a registration that brings no *)
(* token changes nothing that is kept here.                                *)
(***************************************************************************)
EXTENDS Integers, FiniteSets, Sequences

CONSTANTS
    PhoneUsers,     \* users of the app
    Fingerprints,   \* installations of the app
    Tokens,         \* push tokens that have the shape of one
    Unset           \* no token

ASSUME DevicesAssumption == Unset \notin Tokens

VARIABLE device     \* pushToken of each row

Rows == PhoneUsers \X Fingerprints
DevicesOK == device \in [Rows -> Tokens \cup {Unset}]
DevicesInit == device = [row \in Rows |-> Unset]

\* Mutant of OlderClaims: a user's own other installations keep their claim.
OlderClaimsOfOthers(row, token) == {q \in Rows : device[q] = token /\ q[1] # row[1]}

\* The rows whose claim on a token a registration under `row' releases.
OlderClaims(row, token) == {q \in Rows : device[q] = token /\ q # row}

\* register: older claims are released and the row takes the token in one
\* serializable transaction.
Register(u, f, token) ==
    device' = [q \in Rows |->
        IF q = <<u, f>> THEN token
        ELSE IF q \in OlderClaims(<<u, f>>, token) THEN Unset ELSE device[q]]

\* deregister: the row is kept, its ability to receive is not.
Deregister(u, f) == device' = [device EXCEPT ![<<u, f>>] = Unset]

\* releaseUnregisteredToken, whoever holds the token by now.
ReleaseUnregisteredToken(token) ==
    device' = [q \in Rows |-> IF device[q] = token THEN Unset ELSE device[q]]

\* pushTokensFor.
PushTokensFor(u) == {device[q] : q \in {r \in Rows : r[1] = u}} \ {Unset}

-----------------------------------------------------------------------------
\* A push token is claimed by one installation of one user at a time, across
\* phones that change hands, restored apps and releases of dead tokens: two rows
\* holding it would both look deliverable, and one would show a person's
\* notifications to somebody else.
OneClaim ==
    \A q, r \in Rows : device[q] = device[r] /\ device[q] # Unset => q = r
=============================================================================
