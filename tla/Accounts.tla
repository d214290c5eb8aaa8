------------------------------ MODULE Accounts ------------------------------
(***************************************************************************)
(* Accounts and the ways into them, on top of Sessions.                    *)
(*                                                                         *)
(*   AuthService.register / verifyEmail / resendVerification / login       *)
(*   PasswordlessService.requestCode / resendCode / verifyCode             *)
(*   PasswordResetService.requestReset / completeReset                     *)
(*   GoogleOAuthService.completeSignIn                                     *)
(*   StaffInviteService.invite / revoke / accept                           *)
(*   AuthController.acceptStaffInvite, AccessTokenGuard                    *)
(*                                                                         *)
(* Every way in ends in a session that is created after the transaction    *)
(* that proved the identity, and several handlers decide on rows they read *)
(* before their transaction.  A request stands at the step it has still to *)
(* do; one that never goes on has crashed.  A code, a password or a token  *)
(* is guessed right or wrong; an answer given to an unknown or ineligible  *)
(* address (a decoy) changes nothing and is no action.  Profiles, phones,  *)
(* consents, the referral link (module Referrals) and audit rows are data  *)
(* that no guard here reads.                                               *)
(***************************************************************************)
EXTENDS Sessions

CONSTANTS
    Requests,       \* requests in the air at once
    MaxChallenges,  \* the largest budget of one-time codes, of staff
    MaxInvites,     \* invitations and of passwords
    MaxPasswords,
    MaxAttempts     \* VERIFICATION_MAX_ATTEMPTS

ASSUME AccountBounds ==
    /\ MaxChallenges \in Nat /\ MaxInvites \in Nat
    /\ \A b \in Budgets : /\ b.challenges \in 0 .. MaxChallenges
                          /\ b.invites \in 0 .. MaxInvites
                          /\ b.passwords \in 1 .. MaxPasswords
    /\ MaxPasswords \in Nat \ {0} /\ MaxAttempts \in Nat \ {0}

VARIABLES
    user,       \* users, with credential, Google identity and role
    challenge,  \* account_verification_challenges, channel EMAIL
    invite,     \* staff_invites
    req         \* what each request has still to do

accountVars == <<session, token, held, suspicious, handoff, budget, user, challenge, invite, req>>

ChallengeIds == 1 .. MaxChallenges
InviteIds == 1 .. MaxInvites
Purposes == {"ACCOUNT_VERIFICATION", "LOGIN", "PASSWORD_RESET"}
Steps == {"idle", "session", "recheck", "code", "link", "create", "invite", "revoke", "accept"}

NoUser == [status |-> "none", verified |-> FALSE, password |-> 0, google |-> FALSE, role |-> "none"]
NoChallenge == [of |-> None, purpose |-> "LOGIN", status |-> "none", attempts |-> 0,
                cooling |-> FALSE, expired |-> FALSE]
NoInvite == [email |-> None, status |-> "none", expired |-> FALSE, accepted |-> FALSE]
Idle == [at |-> "idle", user |-> None, proof |-> <<"none", 0>>]

\* Type correctness of every table and request.
AccountsOK ==
    /\ SessionsOK
    /\ user \in [Emails -> [status: {"none", "PENDING_VERIFICATION", "ACTIVE", "SUSPENDED"},
                            verified: BOOLEAN, password: 0 .. MaxPasswords, google: BOOLEAN,
                            role: {"none", "MEMBER", "STAFF"}]]
    /\ challenge \in [ChallengeIds -> [of: Emails \cup {None}, purpose: Purposes,
                                       status: {"none", "open", "consumed", "invalidated"},
                                       attempts: 0 .. MaxAttempts, cooling: BOOLEAN,
                                       expired: BOOLEAN]]
    /\ invite \in [InviteIds -> [email: Emails \cup {None}, accepted: BOOLEAN, expired: BOOLEAN,
                                 status: {"none", "PENDING", "ACCEPTED", "REVOKED"}]]
    /\ \A r \in Requests : req[r].at \in Steps /\ req[r].user \in Emails \cup {None}

AccountsInit ==
    /\ SessionsInit
    /\ user = [e \in Emails |-> NoUser]
    /\ challenge = [c \in ChallengeIds |-> NoChallenge]
    /\ invite = [i \in InviteIds |-> NoInvite]
    /\ req = [r \in Requests |-> Idle]

Begin(r, at, e, proof) ==
    /\ req[r] = Idle /\ Cardinality({q \in Requests : req[q] # Idle}) < budget.requests
    /\ req' = [req EXCEPT ![r] = [at |-> at, user |-> e, proof |-> proof]]
Continue(r, at) == req' = [req EXCEPT ![r].at = at]
Finish(r) == req' = [req EXCEPT ![r] = Idle]

(***************************************************************************)
(* One-time codes.                                                         *)
(***************************************************************************)
Open(e, purposes) == {c \in ChallengeIds : /\ challenge[c].of = e
                                           /\ challenge[c].status = "open"
                                           /\ challenge[c].purpose \in purposes}
Newest(C) == CHOOSE c \in C : \A d \in C : d <= c
Cooling(C) == C # {} /\ challenge[Newest(C)].cooling

\* Mutant of NewChallenge: open codes are not invalidated.
NewChallengeKeepsOld(e, purpose, purposes) ==
    \E c \in ChallengeIds :
        /\ c <= budget.challenges
        /\ challenge[c].status = "none" /\ \A d \in 1 .. c - 1 : challenge[d].status # "none"
        /\ challenge' = [challenge EXCEPT ![c] = [of |-> e, purpose |-> purpose, status |-> "open",
                                                  attempts |-> 0, cooling |-> TRUE,
                                                  expired |-> FALSE]]

\* newChallenge of the three services, and the updateMany before the insert:
\* the open codes of the given purposes are invalidated.
NewChallenge(e, purpose, purposes) ==
    \E c \in ChallengeIds :
        /\ c <= budget.challenges
        /\ challenge[c].status = "none" /\ \A d \in 1 .. c - 1 : challenge[d].status # "none"
        /\ challenge' = [d \in ChallengeIds |->
                            IF d = c THEN [of |-> e, purpose |-> purpose, status |-> "open",
                                           attempts |-> 0, cooling |-> TRUE, expired |-> FALSE]
                            ELSE IF d \in Open(e, purposes)
                                 THEN [challenge[d] EXCEPT !.status = "invalidated"]
                                 ELSE challenge[d]]

\* validateChallenge: the code is still worth comparing.
Redeemable(c) ==
    challenge[c].status = "open" /\ ~challenge[c].expired /\ challenge[c].attempts < MaxAttempts

\* Mutant of Consume: the code stays redeemable.
ConsumeNot(c) == UNCHANGED challenge

\* The code is spent.
Consume(c) == challenge' = [challenge EXCEPT ![c].status = "consumed"]

\* A wrong code: the last attempt it may cost invalidates the challenge.
WrongCode(c) ==
    LET attempts == challenge[c].attempts + 1 IN
    /\ Redeemable(c)
    /\ challenge' = [challenge EXCEPT ![c].attempts = attempts,
                                      ![c].status = IF attempts >= MaxAttempts
                                                    THEN "invalidated" ELSE @]
    /\ UNCHANGED <<sessionVars, user, invite, req>>

\* Time, while something reads it: the cooldown passes before the code expires.
CooldownEnds(c) ==
    /\ challenge[c].cooling
    /\ challenge[c].status = "open" \/ (challenge[c].status = "invalidated" /\ challenge[c].purpose = "LOGIN")
    /\ challenge' = [challenge EXCEPT ![c].cooling = FALSE]
    /\ UNCHANGED <<sessionVars, user, invite, req>>
CodeExpires(c) ==
    /\ challenge[c].status = "open" /\ ~challenge[c].cooling /\ ~challenge[c].expired
    /\ challenge' = [challenge EXCEPT ![c].expired = TRUE]
    /\ UNCHANGED <<sessionVars, user, invite, req>>

(***************************************************************************)
(* Members: AuthService.                                                   *)
(***************************************************************************)
\* register: one transaction creates the account with its code; a taken
\* address is a unique-constraint conflict.
Register(e) ==
    /\ user[e].status = "none"
    /\ user' = [user EXCEPT ![e] = [status |-> "PENDING_VERIFICATION", verified |-> FALSE,
                                    password |-> 1, google |-> FALSE, role |-> "MEMBER"]]
    /\ NewChallenge(e, "ACCOUNT_VERIFICATION", {})
    /\ UNCHANGED <<sessionVars, invite, req>>

\* verifyEmail takes the newest open code of the user, whatever its purpose.
VerifyTarget(e) ==
    LET open == Open(e, Purposes) IN
    IF user[e].status = "none" \/ (user[e].verified /\ user[e].status = "ACTIVE") \/ open = {}
    THEN {} ELSE {Newest(open)}
VerifyEmail(r, e) ==
    \E c \in VerifyTarget(e) :
        /\ Redeemable(c)
        /\ Consume(c)
        /\ user' = [user EXCEPT ![e].status = "ACTIVE", ![e].verified = TRUE]
        /\ Begin(r, "session", e, <<"code", c>>)
        /\ UNCHANGED <<sessionVars, invite>>
VerifyEmailWrong(e) == \E c \in VerifyTarget(e) : WrongCode(c)

\* resendVerification also closes the user's open codes of other purposes.
ResendVerification(e) ==
    /\ user[e].status # "none" /\ ~user[e].verified
    /\ ~Cooling(Open(e, Purposes))
    /\ NewChallenge(e, "ACCOUNT_VERIFICATION", Purposes)
    /\ UNCHANGED <<sessionVars, user, invite, req>>

\* Mutant of Login: anyone who is not suspended may enter.
LoginUnverified(r, e) ==
    /\ user[e].password # 0 /\ user[e].status # "SUSPENDED"
    /\ Begin(r, "session", e, <<"password", user[e].password>>)
    /\ UNCHANGED <<sessionVars, user, challenge, invite>>

\* login, up to the comparison with the password hash it has read.
Login(r, e) ==
    /\ user[e].password # 0 /\ user[e].status = "ACTIVE"
    /\ Begin(r, "session", e, <<"password", user[e].password>>)
    /\ UNCHANGED <<sessionVars, user, challenge, invite>>

\* The last step of every way in; only Google serves mobile clients through
\* a handoff.
StartSession(r) ==
    /\ req[r].at = "session"
    /\ \E mobile \in {FALSE, req[r].proof[1] = "google"} :
          CreateSession(req[r].user, req[r].proof, mobile)
    /\ Finish(r)
    /\ UNCHANGED <<user, challenge, invite>>

(***************************************************************************)
(* Staff sign-in: PasswordlessService.                                     *)
(***************************************************************************)
Eligible(e) == user[e].status = "ACTIVE" /\ user[e].role = "STAFF"

\* The reads before the transaction: requestCode answers with the open code
\* while it cools down, resendCode looks only at the code it is given.
RequestCode(r, e) ==
    /\ Eligible(e) /\ ~Cooling(Open(e, {"LOGIN"}))
    /\ Begin(r, "code", e, <<"LOGIN", 0>>)
    /\ UNCHANGED <<sessionVars, user, challenge, invite>>
ResendCode(r, c) ==
    /\ challenge[c].purpose = "LOGIN" /\ challenge[c].status \in {"open", "invalidated"}
    /\ ~challenge[c].cooling
    /\ Begin(r, "code", challenge[c].of, <<"LOGIN", 0>>)
    /\ UNCHANGED <<sessionVars, user, challenge, invite>>

\* verifyCode: the code is spent first, eligibility is looked at afterwards.
VerifyCode(r, c) ==
    /\ challenge[c].purpose = "LOGIN" /\ Redeemable(c)
    /\ Consume(c)
    /\ Begin(r, "recheck", challenge[c].of, <<"code", c>>)
    /\ UNCHANGED <<sessionVars, user, invite>>
VerifyCodeWrong(c) == challenge[c].purpose = "LOGIN" /\ WrongCode(c)
Recheck(r) ==
    /\ req[r].at = "recheck"
    /\ IF Eligible(req[r].user) THEN Continue(r, "session") ELSE Finish(r)
    /\ UNCHANGED <<sessionVars, user, challenge, invite>>

(***************************************************************************)
(* Password reset.                                                         *)
(***************************************************************************)
RequestReset(r, e) ==
    /\ user[e].password # 0 /\ user[e].status \in {"PENDING_VERIFICATION", "ACTIVE"}
    /\ ~Cooling(Open(e, {"PASSWORD_RESET"}))
    /\ Begin(r, "code", e, <<"PASSWORD_RESET", 0>>)
    /\ UNCHANGED <<sessionVars, user, challenge, invite>>

\* The transaction of requestCode, resendCode and requestReset.
IssueCode(r) ==
    LET purpose == req[r].proof[1] IN
    /\ req[r].at = "code"
    /\ NewChallenge(req[r].user, purpose, {purpose})
    /\ Finish(r)
    /\ UNCHANGED <<sessionVars, user, invite>>

\* completeReset: code, password, account and sessions in one transaction;
\* the account becomes ACTIVE whatever it was.
CompleteReset(c) ==
    LET e == challenge[c].of IN
    /\ challenge[c].purpose = "PASSWORD_RESET" /\ Redeemable(c)
    /\ user[e].password < budget.passwords
    /\ Consume(c)
    /\ user' = [user EXCEPT ![e].password = @ + 1, ![e].status = "ACTIVE", ![e].verified = TRUE]
    /\ EndSessions(e)
    /\ UNCHANGED <<invite, req>>
CompleteResetWrong(c) == challenge[c].purpose = "PASSWORD_RESET" /\ WrongCode(c)

(***************************************************************************)
(* Google: the account is looked up, then linked or created.               *)
(***************************************************************************)
GoogleSignIn(r, e) ==
    /\ user[e].status # "SUSPENDED"
    /\ user[e].google => user[e].status = "ACTIVE"
    /\ Begin(r, IF user[e].google THEN "session"
                ELSE IF user[e].status # "none" THEN "link" ELSE "create", e, <<"google", 0>>)
    /\ UNCHANGED <<sessionVars, user, challenge, invite>>

\* The link completes a pending verification; the identity is unique.
GoogleLink(r) ==
    LET e == req[r].user IN
    /\ req[r].at = "link"
    /\ IF user[e].google
       THEN Finish(r) /\ UNCHANGED user
       ELSE /\ user' = [user EXCEPT ![e].google = TRUE, ![e].status = "ACTIVE", ![e].verified = TRUE]
            /\ Continue(r, "session")
    /\ UNCHANGED <<sessionVars, challenge, invite>>

\* The new account has no password, role or ledger accounts.
GoogleCreate(r) ==
    LET e == req[r].user IN
    /\ req[r].at = "create"
    /\ IF user[e].status # "none"
       THEN Finish(r) /\ UNCHANGED user
       ELSE /\ user' = [user EXCEPT ![e] = [status |-> "ACTIVE", verified |-> TRUE, password |-> 0,
                                            google |-> TRUE, role |-> "none"]]
            /\ Continue(r, "session")
    /\ UNCHANGED <<sessionVars, challenge, invite>>

(***************************************************************************)
(* Staff invitations.                                                      *)
(***************************************************************************)
\* invite: the address must be free when it is looked up; the transaction
\* supersedes what is pending for it.
Invite(r, e) ==
    /\ user[e].status = "none"
    /\ Begin(r, "invite", e, <<"invite", 0>>)
    /\ UNCHANGED <<sessionVars, user, challenge, invite>>
SendInvite(r) ==
    /\ req[r].at = "invite"
    /\ \E i \in InviteIds :
        /\ i <= budget.invites
        /\ invite[i].status = "none" /\ \A j \in 1 .. i - 1 : invite[j].status # "none"
        /\ invite' = [j \in InviteIds |->
              IF j = i THEN [email |-> req[r].user, status |-> "PENDING", expired |-> FALSE,
                             accepted |-> FALSE]
              ELSE IF invite[j].email = req[r].user /\ invite[j].status = "PENDING"
                   THEN [invite[j] EXCEPT !.status = "REVOKED"] ELSE invite[j]]
    /\ Finish(r)
    /\ UNCHANGED <<sessionVars, user, challenge>>

\* revoke reads the status, then writes by id.
Revoke(r, i) ==
    /\ invite[i].status = "PENDING"
    /\ Begin(r, "revoke", invite[i].email, <<"invite", i>>)
    /\ UNCHANGED <<sessionVars, user, challenge, invite>>
WriteRevoked(r) ==
    /\ req[r].at = "revoke"
    /\ invite' = [invite EXCEPT ![req[r].proof[2]].status = "REVOKED"]
    /\ Finish(r)
    /\ UNCHANGED <<sessionVars, user, challenge>>

\* accept: findLiveInvite, then a transaction that looks again.
Accept(r, i) ==
    /\ invite[i].status = "PENDING" /\ ~invite[i].expired
    /\ Begin(r, "accept", invite[i].email, <<"invite", i>>)
    /\ UNCHANGED <<sessionVars, user, challenge, invite>>
StillAcceptable(i) ==
    /\ invite[i].status = "PENDING" /\ ~invite[i].expired
    /\ user[invite[i].email].status = "none"
AcceptInvite(r) ==
    LET i == req[r].proof[2] IN
    /\ req[r].at = "accept"
    /\ IF StillAcceptable(i)
       THEN /\ user' = [user EXCEPT ![req[r].user] = [status |-> "ACTIVE", verified |-> TRUE,
                                                      password |-> 1, google |-> FALSE,
                                                      role |-> "STAFF"]]
            /\ invite' = [invite EXCEPT ![i].status = "ACCEPTED", ![i].accepted = TRUE]
            /\ Continue(r, "session")
       ELSE Finish(r) /\ UNCHANGED <<user, invite>>
    /\ UNCHANGED <<sessionVars, challenge>>
InviteExpires(i) ==
    /\ invite[i].status = "PENDING" /\ ~invite[i].expired
    /\ invite' = [invite EXCEPT ![i].expired = TRUE]
    /\ UNCHANGED <<sessionVars, user, challenge, req>>

\* No code here suspends an account: it is done in the database.
Suspend(e) ==
    /\ user[e].status = "ACTIVE"
    /\ user' = [user EXCEPT ![e].status = "SUSPENDED"]
    /\ UNCHANGED <<sessionVars, challenge, invite, req>>

\* The guard of every authenticated route, here of logout and logoutAll.
Authenticated(s) == LiveSession(s) /\ user[session[s].user].status = "ACTIVE"

SessionStep ==
    \/ SessionsNext
    \/ \E s \in SessionIds : Authenticated(s) /\ (Logout(s) \/ LogoutAll(s))

AccountsNext ==
    \/ SessionStep /\ UNCHANGED <<user, challenge, invite, req>>
    \/ \E e \in Emails : Register(e) \/ VerifyEmailWrong(e) \/ ResendVerification(e) \/ Suspend(e)
    \/ \E c \in ChallengeIds : \/ VerifyCodeWrong(c) \/ CompleteReset(c) \/ CompleteResetWrong(c)
                               \/ CooldownEnds(c) \/ CodeExpires(c)
    \/ \E i \in InviteIds : InviteExpires(i)
    \/ \E r \in Requests :
        \/ \E e \in Emails : \/ VerifyEmail(r, e) \/ Login(r, e) \/ RequestCode(r, e)
                             \/ RequestReset(r, e) \/ GoogleSignIn(r, e) \/ Invite(r, e)
        \/ \E c \in ChallengeIds : ResendCode(r, c) \/ VerifyCode(r, c)
        \/ \E i \in InviteIds : Revoke(r, i) \/ Accept(r, i)
        \/ StartSession(r) \/ Recheck(r) \/ IssueCode(r) \/ GoogleLink(r) \/ GoogleCreate(r)
        \/ SendInvite(r) \/ WriteRevoked(r) \/ AcceptInvite(r)

AccountsSpec == AccountsInit /\ [][AccountsNext]_accountVars

(***************************************************************************)
(* Properties.                                                             *)
(***************************************************************************)
\* However refreshes, retries and lost responses interleave, an ACTIVE session
\* has exactly one token that still works, and it is the one refresh compares
\* with: no fork of the chain (AuthService.refresh).
OneChain ==
    \A s \in SessionIds : session[s].status = "ACTIVE" =>
        {t \in TokenIds : token[t].of = s /\ ~token[t].consumed /\ ~token[t].revoked}
            = {session[s].current}

\* A client that presents the last token it received, again if a response was
\* lost and the grace window is open, can always go on and is never taken for
\* a thief (undeliveredReplacement).
ClientCanGoOn ==
    \A s \in SessionIds \ suspicious :
        (session[s].status = "ACTIVE" /\ held[s] # 0) =>
            held[s] = session[s].current \/ Undelivered(held[s]) \/ token[held[s]].late

\* Whichever of the concurrent requests, resends and verifications comes
\* first, a user never has two codes of one purpose that could be redeemed.
OneOpenChallenge ==
    \A e \in Emails, p \in Purposes : Cardinality(Open(e, {p})) <= 1

\* A one-time code or invitation opens one session at most, however many
\* requests present it at once, and an address is invited into one account.
ProofSpentOnce ==
    LET spent(x) == Cardinality({s \in SessionIds : session[s].proof = x})
                    + Cardinality({r \in Requests : req[r].at \in {"recheck", "session"}
                                                    /\ req[r].proof = x}) IN
    /\ \A c \in ChallengeIds : spent(<<"code", c>>) <= 1
    /\ \A i \in InviteIds : spent(<<"invite", i>>) <= 1
    /\ \A e \in Emails : Cardinality({i \in InviteIds : invite[i].email = e /\ invite[i].accepted}) <= 1

\* Every session belongs to an account whose mailbox was proved, by whatever
\* way it was entered; the check and the session are separate steps.
SessionsAreVerified ==
    \A s \in SessionIds : session[s].status # "none" => user[session[s].user].verified
=============================================================================
