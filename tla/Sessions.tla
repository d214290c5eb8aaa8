------------------------------ MODULE Sessions ------------------------------
(***************************************************************************)
(* Sessions and their rotating refresh tokens.                             *)
(*                                                                         *)
(*   AuthService.createSession / refresh / undeliveredReplacement /        *)
(*     logout / logoutAll / revokeSessions                                 *)
(*   PasswordResetService.completeReset, its revocation of sessions        *)
(*   GoogleOAuthService.createHandoff / redeemHandoff                      *)
(*                                                                         *)
(* A refresh is one serializable transaction; its response may be lost,    *)
(* which leaves the client with the token it presented.  Time is three     *)
(* monotone facts about a token: it expired, the grace window after its    *)
(* consumption is over, and (a session lives as long as its newest token)  *)
(* the session expired.  Raw tokens, hashes and signed access tokens are   *)
(* the token's number.                                                     *)
(***************************************************************************)
EXTENDS Naturals, FiniteSets

CONSTANTS
    Emails,       \* accounts are known by their address
    Budgets,      \* bounds: rows of each kind that may ever be created, as
                  \* [sessions, tokens, challenges, invites, passwords,
                  \* requests] records
    MaxSessions,  \* the largest budget of sessions and of tokens
    MaxTokens,
    None

ASSUME SessionBounds ==
    /\ MaxSessions \in Nat /\ MaxTokens \in Nat /\ None \notin Emails
    /\ \A b \in Budgets : b.sessions \in 0 .. MaxSessions /\ b.tokens \in 0 .. MaxTokens

VARIABLES
    session,     \* sessions
    token,       \* refresh_tokens
    held,        \* the token its client last received, 0 if none
    suspicious,  \* sessions for which a token was presented that the client
                 \* no longer held, or after its grace window
    budget,      \* the bounds of this behaviour
    handoff      \* sessions whose tokens wait in memory for a one-time code

sessionVars == <<session, token, held, suspicious, handoff, budget>>

SessionIds == 1 .. MaxSessions
TokenIds == 1 .. MaxTokens

NoSession == [user |-> None, status |-> "none", current |-> 0, proof |-> <<"none", 0>>]
NoToken == [of |-> 0, consumed |-> FALSE, revoked |-> FALSE, expired |-> FALSE,
            late |-> FALSE, next |-> 0]

SessionsOK ==
    /\ \A s \in SessionIds :
          /\ session[s].user \in Emails \cup {None}
          /\ session[s].status \in {"none", "ACTIVE", "REVOKED", "COMPROMISED"}
          /\ session[s].current \in 0 .. MaxTokens
    /\ token \in [TokenIds -> [of: 0 .. MaxSessions, consumed: BOOLEAN, revoked: BOOLEAN,
                               expired: BOOLEAN, late: BOOLEAN, next: 0 .. MaxTokens]]
    /\ held \in [SessionIds -> 0 .. MaxTokens]
    /\ suspicious \subseteq SessionIds
    /\ handoff \subseteq SessionIds

SessionsInit ==
    /\ session = [s \in SessionIds |-> NoSession]
    /\ token = [t \in TokenIds |-> NoToken]
    /\ held = [s \in SessionIds |-> 0]
    /\ suspicious = {}
    /\ handoff = {}
    /\ budget \in Budgets

\* Rows are numbered in the order of their creation.
FreeSession(s) ==
    s <= budget.sessions /\ session[s].status = "none" /\ \A q \in 1 .. s - 1 : session[q].status # "none"
FreeToken(t) == t <= budget.tokens /\ token[t].of = 0 /\ \A q \in 1 .. t - 1 : token[q].of # 0

\* createSession: one insert of the session and its first token.  A mobile
\* sign-in keeps the pair in memory behind a one-time code (createHandoff).
CreateSession(u, proof, mobile) ==
    \E s \in SessionIds, t \in TokenIds :
        /\ FreeSession(s) /\ FreeToken(t)
        /\ session' = [session EXCEPT ![s] = [user |-> u, status |-> "ACTIVE",
                                              current |-> t, proof |-> proof]]
        /\ token' = [token EXCEPT ![t] = [NoToken EXCEPT !.of = s]]
        /\ held' = [held EXCEPT ![s] = IF mobile THEN 0 ELSE t]
        /\ handoff' = IF mobile THEN handoff \cup {s} ELSE handoff
        /\ UNCHANGED <<suspicious, budget>>

\* redeemHandoff: the entry is deleted as it is read.
RedeemHandoff(s) ==
    /\ s \in handoff
    /\ handoff' = handoff \ {s}
    /\ held' = [held EXCEPT ![s] = session[s].current]
    /\ UNCHANGED <<session, token, suspicious, budget>>

\* pruneHandoffs drops what is older than its five minutes; a restart drops
\* the whole map.
LoseHandoff(s) ==
    /\ s \in handoff
    /\ handoff' = handoff \ {s}
    /\ UNCHANGED <<session, token, held, suspicious, budget>>

\* The first test of refresh: what it answers 'invalid' without a write.
Usable(t) == token[t].of # 0 /\ ~token[t].revoked /\ ~token[t].expired

\* undeliveredReplacement: t was rotated within the grace window into the
\* token that is still the session's, and that one was never presented.
Undelivered(t) ==
    LET n == token[t].next IN
    /\ token[t].consumed /\ n # 0
    /\ ~token[t].late
    /\ ~token[n].consumed /\ ~token[n].revoked
    /\ session[token[t].of].current = n

\* Someone other than the client's last known state presents t.
Suspect(t) ==
    IF t = held[token[t].of] /\ ~token[t].late THEN suspicious ELSE suspicious \cup {token[t].of}

\* Mutant of Rotated: a replacement that was not delivered stays valid.
RotatedKeepsOld(t, n) ==
    [token EXCEPT ![n] = [NoToken EXCEPT !.of = token[t].of],
                  ![t].consumed = TRUE, ![t].next = n]

\* Mutant of Rotated: after a retry t still points at its first replacement.
RotatedKeepsNext(t, n) ==
    [x \in TokenIds |->
        CASE x = n -> [NoToken EXCEPT !.of = token[t].of]
          [] x = t -> [token[t] EXCEPT !.consumed = TRUE, !.next = IF @ = 0 THEN n ELSE @]
          [] Undelivered(t) /\ x = token[t].next -> [token[x] EXCEPT !.revoked = TRUE]
          [] OTHER -> token[x]]

\* The tokens after t was rotated into n: t is consumed and points at n, and
\* an undelivered replacement of t is retired.
Rotated(t, n) ==
    [x \in TokenIds |->
        CASE x = n -> [NoToken EXCEPT !.of = token[t].of]
          [] x = t -> [token[t] EXCEPT !.consumed = TRUE, !.next = n]
          [] Undelivered(t) /\ x = token[t].next -> [token[x] EXCEPT !.revoked = TRUE]
          [] OTHER -> token[x]]

\* refresh, 'rotated': a new token becomes the session's current one.
RefreshRotates(t, delivered) ==
    LET s == token[t].of IN
    /\ Usable(t)
    /\ Undelivered(t) \/ (~token[t].consumed /\ session[s].current = t)
    /\ session[s].status = "ACTIVE"
    /\ \E n \in TokenIds :
        /\ FreeToken(n)
        /\ token' = Rotated(t, n)
        /\ session' = [session EXCEPT ![s].current = n]
        /\ held' = [held EXCEPT ![s] = IF delivered THEN n ELSE @]
    /\ suspicious' = Suspect(t)
    /\ UNCHANGED <<handoff, budget>>

\* refresh, 'compromised': the session and every token of it are revoked.
RefreshReused(t) ==
    LET s == token[t].of IN
    /\ Usable(t) /\ ~Undelivered(t)
    /\ token[t].consumed \/ session[s].current # t
    /\ session' = [session EXCEPT ![s].status = "COMPROMISED"]
    /\ token' = [x \in TokenIds |-> IF token[x].of = s THEN [token[x] EXCEPT !.revoked = TRUE]
                                    ELSE token[x]]
    /\ suspicious' = Suspect(t)
    /\ UNCHANGED <<held, handoff, budget>>

\* refresh, 'invalid' after a retry: the session has ended (a password reset
\* leaves its tokens alone), and the retirement of the replacement commits.
RefreshEnded(t) ==
    LET s == token[t].of IN
    /\ Usable(t) /\ Undelivered(t)
    /\ session[s].status # "ACTIVE"
    /\ token' = [token EXCEPT ![token[t].next].revoked = TRUE]
    /\ suspicious' = Suspect(t)
    /\ UNCHANGED <<session, held, handoff, budget>>

\* revokeSessions over the ACTIVE sessions among S.
RevokeSessions(S) ==
    LET ids == {s \in S : session[s].status = "ACTIVE"} IN
    /\ ids # {}
    /\ session' = [s \in SessionIds |-> IF s \in ids THEN [session[s] EXCEPT !.status = "REVOKED"]
                                        ELSE session[s]]
    /\ token' = [t \in TokenIds |-> IF token[t].of \in ids THEN [token[t] EXCEPT !.revoked = TRUE]
                                    ELSE token[t]]
    /\ UNCHANGED <<held, suspicious, handoff, budget>>

\* logout and logoutAll, called behind an ACTIVE, unexpired session.
LiveSession(s) == session[s].status = "ACTIVE" /\ ~token[session[s].current].expired
Logout(s) == LiveSession(s) /\ RevokeSessions({s})
LogoutAll(s) == LiveSession(s) /\ RevokeSessions({q \in SessionIds : session[q].user = session[s].user})

\* What completeReset does to the sessions of u: their tokens are not touched.
EndSessions(u) ==
    /\ session' = [s \in SessionIds |->
                      IF session[s].user = u /\ session[s].status = "ACTIVE"
                      THEN [session[s] EXCEPT !.status = "REVOKED"] ELSE session[s]]
    /\ UNCHANGED <<token, held, suspicious, handoff, budget>>

\* Time, while it still matters to the token: the tokens of one session expire
\* in the order they were issued.
GraceEnds(t) ==
    /\ Usable(t) /\ token[t].consumed /\ ~token[t].late
    /\ token' = [token EXCEPT ![t].late = TRUE]
    /\ UNCHANGED <<session, held, suspicious, handoff, budget>>
TokenExpires(t) ==
    /\ Usable(t)
    /\ \A q \in 1 .. t - 1 : token[q].of = token[t].of => ~Usable(q)
    /\ token' = [token EXCEPT ![t].expired = TRUE]
    /\ UNCHANGED <<session, held, suspicious, handoff, budget>>

SessionsNext ==
    \/ \E t \in TokenIds :
        \/ \E delivered \in BOOLEAN : RefreshRotates(t, delivered)
        \/ RefreshReused(t) \/ RefreshEnded(t) \/ GraceEnds(t) \/ TokenExpires(t)
    \/ \E s \in SessionIds : RedeemHandoff(s) \/ LoseHandoff(s)
=============================================================================
