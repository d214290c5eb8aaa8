---------------------------- MODULE Notifications ----------------------------
(***************************************************************************)
(* TransactionalNotificationService over module Devices, for one user's    *)
(* notifications: emails that are sent under a dedupe key (deliver), and   *)
(* product notifications that go to the inbox and to the phone (notify),   *)
(* with NotificationPreferencesService and NotificationFeedService.        *)
(*                                                                         *)
(* Every call may be repeated, run beside its repetition, and die between  *)
(* any two of its statements.  Emails are account mail, which has no topic *)
(* and is never suppressed; notify has one topic.  SMS shares deliver.     *)
(***************************************************************************)
EXTENDS Devices

CONSTANTS
    Calls,       \* calls in flight
    Owner,       \* the user the notifications are for
    Emails,      \* dedupe keys of emails
    Events,      \* dedupe keys of product notifications
    DayLength,   \* minutes of a day
    Quiet        \* the quiet hours somebody may choose

ASSUME NotificationsAssumption ==
    /\ Owner \in PhoneUsers /\ DayLength \in Nat \ {0}
    /\ Quiet \in [start: 0 .. DayLength - 1, end: 0 .. DayLength - 1]

VARIABLES
    preference,  \* of the topic, on each channel
    minute,      \* the local minute of the day
    email,       \* status of the notification row of each email
    inbox,       \* status of the in-app row of each event
    call,        \* what each call is doing
    sends,       \* history: how often the email provider was called
    accepted     \* history: emails the provider has accepted

noticeVars == <<preference, minute, email, inbox, call, sends, accepted>>

Channels == {"IN_APP", "PUSH"}
Preferences == {"absent", "disabled", "quiet hours"}
Places == {"idle", "look", "create", "send", "sent", "refused",
           "in-app", "insert", "push", "tokens", "provider", "release"}
Idle == [at |-> "idle", key |-> Unset, tokens |-> {}]

NoticesOK ==
    /\ DevicesOK
    /\ preference \in [Channels -> Preferences]
    /\ minute \in 0 .. DayLength - 1
    /\ email \in [Emails -> {"none", "PENDING", "SENT", "FAILED"}]
    /\ inbox \in [Events -> {"none", "unread", "read"}]
    /\ call \in [Calls -> [at: Places, key: Emails \cup Events \cup {Unset},
                           tokens: SUBSET Tokens]]
    /\ sends \in [Emails -> Nat] /\ accepted \subseteq Emails

NoticesInit ==
    /\ DevicesInit
    /\ preference = [ch \in Channels |-> "absent"]
    /\ minute = 0
    /\ email = [k \in Emails |-> "none"]
    /\ inbox = [k \in Events |-> "none"]
    /\ call = [c \in Calls |-> Idle]
    /\ sends = [k \in Emails |-> 0] /\ accepted = {}

-----------------------------------------------------------------------------
(* What a person allows.                                                   *)

\* isWithinQuietHours: the hours may span midnight.
IsWithinQuietHours(m, start, end) ==
    IF start = end THEN TRUE
    ELSE IF start < end THEN m >= start /\ m < end
    ELSE m >= start \/ m < end

\* suppressionFor and decideDelivery: with no stored preference the answer is
\* to send.
Suppressed(channel) ==
    \/ preference[channel] = "disabled"
    \/ preference[channel] = "quiet hours" /\ IsWithinQuietHours(minute, Quiet.start, Quiet.end)

\* NotificationPreferencesService.update, whose quiet hours have both ends.
UpdatePreference(channel, to) ==
    /\ preference' = [preference EXCEPT ![channel] = to]
    /\ UNCHANGED <<device, minute, email, inbox, call, sends, accepted>>

TimePasses ==
    /\ minute' = (minute + 1) % DayLength
    /\ UNCHANGED <<device, preference, email, inbox, call, sends, accepted>>

-----------------------------------------------------------------------------
(* Calls.                                                                  *)

At(c, place) == call[c].at = place
Go(c, place) == call' = [call EXCEPT ![c].at = place]
Finish(c) == call' = [call EXCEPT ![c] = Idle]
Start(c, place, key) ==
    /\ At(c, "idle")
    /\ call' = [call EXCEPT ![c] = [at |-> place, key |-> key, tokens |-> {}]]
    /\ UNCHANGED <<device, preference, minute, email, inbox, sends, accepted>>

\* sendEmail, and deliver up to the look for an earlier row...
SendEmail(c, k) == Start(c, "look", k)
Look(c) ==
    /\ At(c, "look")
    /\ IF email[call[c].key] = "none" THEN Go(c, "create") ELSE Finish(c)
    /\ UNCHANGED <<device, preference, minute, email, inbox, sends, accepted>>

\* Mutant of Create: the unique key is not enforced.
CreateOver(c) ==
    /\ At(c, "create")
    /\ email' = [email EXCEPT ![call[c].key] = "PENDING"]
    /\ Go(c, "send")
    /\ UNCHANGED <<device, preference, minute, inbox, sends, accepted>>

\* ...the insert, which fails when a row has appeared since...
Create(c) ==
    /\ At(c, "create")
    /\ IF email[call[c].key] = "none"
       THEN email' = [email EXCEPT ![call[c].key] = "PENDING"] /\ Go(c, "send")
       ELSE UNCHANGED email /\ Finish(c)
    /\ UNCHANGED <<device, preference, minute, inbox, sends, accepted>>
\* ...the provider's answer, which may be lost although it accepted...
Send(c, takes, answered) ==
    /\ At(c, "send")
    /\ sends' = [sends EXCEPT ![call[c].key] = @ + 1]
    /\ accepted' = IF takes THEN accepted \cup {call[c].key} ELSE accepted
    /\ Go(c, IF takes /\ answered THEN "sent" ELSE "refused")
    /\ UNCHANGED <<device, preference, minute, email, inbox>>
\* ...and its record; when SENT cannot be written, FAILED is.
Record(c, written) ==
    /\ call[c].at \in {"sent", "refused"}
    /\ IF At(c, "sent") /\ ~written
       THEN UNCHANGED email /\ Go(c, "refused")
       ELSE /\ email' = [email EXCEPT ![call[c].key] = IF At(c, "sent") THEN "SENT" ELSE "FAILED"]
            /\ Finish(c)
    /\ UNCHANGED <<device, preference, minute, inbox, sends, accepted>>

\* notify: is the inbox allowed...
Notify(c, k) == Start(c, "in-app", k)
DecideInApp(c) ==
    /\ At(c, "in-app")
    /\ Go(c, IF Suppressed("IN_APP") THEN "push" ELSE "insert")
    /\ UNCHANGED <<device, preference, minute, email, inbox, sends, accepted>>
\* ...the row, or the row that is there already; any other failure of the insert
\* is passed over too...
Insert(status) == IF status = "none" THEN "unread" ELSE status
InsertInApp(c) ==
    /\ At(c, "insert")
    /\ \E failed \in BOOLEAN :
        inbox' = [inbox EXCEPT ![call[c].key] = IF failed THEN @ ELSE Insert(@)]
    /\ Go(c, "push")
    /\ UNCHANGED <<device, preference, minute, email, sends, accepted>>
\* ...is a push allowed...
DecidePush(c) ==
    /\ At(c, "push")
    /\ IF Suppressed("PUSH") THEN Finish(c) ELSE Go(c, "tokens")
    /\ UNCHANGED <<device, preference, minute, email, inbox, sends, accepted>>
\* ...where to...
ReadTokens(c) ==
    /\ At(c, "tokens")
    /\ IF PushTokensFor(Owner) = {} THEN Finish(c)
       ELSE call' = [call EXCEPT ![c].at = "provider", ![c].tokens = PushTokensFor(Owner)]
    /\ UNCHANGED <<device, preference, minute, email, inbox, sends, accepted>>
\* ...what the provider says of each token: the dead ones are released.
Push(c, dead) ==
    /\ At(c, "provider") /\ dead \subseteq call[c].tokens
    /\ IF dead = {} THEN Finish(c)
       ELSE call' = [call EXCEPT ![c].at = "release", ![c].tokens = dead]
    /\ UNCHANGED <<device, preference, minute, email, inbox, sends, accepted>>
Release(c, token) ==
    /\ At(c, "release") /\ token \in call[c].tokens
    /\ ReleaseUnregisteredToken(token)
    /\ IF call[c].tokens = {token} THEN Finish(c)
       ELSE call' = [call EXCEPT ![c].tokens = @ \ {token}]
    /\ UNCHANGED <<preference, minute, email, inbox, sends, accepted>>

\* The process dies, and the call with it.
Crash(c) ==
    /\ ~At(c, "idle")
    /\ Finish(c)
    /\ UNCHANGED <<device, preference, minute, email, inbox, sends, accepted>>

\* NotificationFeedService: markRead, markAllRead.
MarkRead(S) ==
    /\ inbox' = [k \in Events |-> IF k \in S /\ inbox[k] = "unread" THEN "read" ELSE inbox[k]]
    /\ UNCHANGED <<device, preference, minute, email, call, sends, accepted>>

NoticesNext ==
    \/ \E u \in PhoneUsers, f \in Fingerprints :
        /\ Deregister(u, f) \/ \E t \in Tokens : Register(u, f, t)
        /\ UNCHANGED noticeVars
    \/ \E ch \in Channels, p \in Preferences : UpdatePreference(ch, p)
    \/ TimePasses
    \/ \E c \in Calls :
        \/ \E k \in Emails : SendEmail(c, k)
        \/ Look(c) \/ Create(c)
        \/ \E takes, answered \in BOOLEAN : Send(c, takes, answered)
        \/ \E written \in BOOLEAN : Record(c, written)
        \/ \E k \in Events : Notify(c, k)
        \/ DecideInApp(c) \/ InsertInApp(c) \/ DecidePush(c) \/ ReadTokens(c)
        \/ \E dead \in SUBSET Tokens : Push(c, dead)
        \/ \E t \in Tokens : Release(c, t)
        \/ Crash(c)
    \/ \E k \in Events : MarkRead({k})
    \/ MarkRead(Events)

-----------------------------------------------------------------------------
(* Properties.                                                             *)

\* An email goes to the provider at most once under its key, however often it is
\* asked for, at once or again after a failure or a crash, and is recorded as
\* SENT only if the provider took it: the row is inserted before the provider is
\* called, and its unique key lets one call through (deliver).
EmailedOnce ==
    \A k \in Emails : sends[k] <= 1 /\ (email[k] = "SENT" => k \in accepted)
=============================================================================
