------------------------------ MODULE AdminFeed ------------------------------
(***************************************************************************)
(* AdminNotificationService: the bell of the staff console, which sync     *)
(* rebuilds from what is outstanding on the platform.                      *)
(*                                                                         *)
(* The subjects are of one type (KYC profiles, inquiries and invitations   *)
(* have rows, sets and statements of their own that never meet).  sync     *)
(* raises what it found one row at a time and resolves the rest in one     *)
(* statement; requests of several staff members may overlap.               *)
(***************************************************************************)
EXTENDS Integers, FiniteSets

CONSTANTS
    Subjects,
    Sweeps,      \* requests to sync that may be in flight
    Staff,       \* readers of the feed
    Permitted,   \* those whose role or permission shows them this type
    Take         \* how many subjects one sync reads

ASSUME AdminFeedAssumption == Take \in Nat /\ IsFiniteSet(Subjects)

VARIABLES
    outstanding, \* subjects that wait for somebody
    bell,        \* admin_notifications of each subject
    seen,        \* admin_notification_reads: who has read which
    reading,     \* what markAllRead of each reader has found unread
    sweep,       \* what each sync found, and what it has yet to raise
    alone,       \* history: sweeps that nothing has run beside so far
    settled      \* history: such a sweep was the last thing that happened

feedVars == <<outstanding, bell, seen, reading, sweep, alone, settled>>

Asleep == [at |-> "idle", found |-> {}, left |-> {}]

FeedOK ==
    /\ outstanding \subseteq Subjects
    /\ bell \in [Subjects -> {"none", "open", "resolved"}]
    /\ seen \in [Staff -> SUBSET Subjects] /\ reading \in [Staff -> SUBSET Subjects]
    /\ sweep \in [Sweeps -> [at: {"idle", "raise"}, found: SUBSET Subjects, left: SUBSET Subjects]]
    /\ alone \subseteq Sweeps /\ settled \in BOOLEAN

FeedInit ==
    /\ outstanding = {}
    /\ bell = [s \in Subjects |-> "none"]
    /\ seen = [p \in Staff |-> {}] /\ reading = [p \in Staff |-> {}]
    /\ sweep = [w \in Sweeps |-> Asleep]
    /\ alone = {} /\ settled = FALSE

Least(n) == IF n < Take THEN n ELSE Take

\* A subject comes to wait for somebody, or is handled.
Change(s) ==
    /\ outstanding' = IF s \in outstanding THEN outstanding \ {s} ELSE outstanding \cup {s}
    /\ alone' = {} /\ settled' = FALSE
    /\ UNCHANGED <<bell, seen, reading, sweep>>

\* sync reads what is outstanding, up to its limit.
SyncRead(w, S) ==
    /\ sweep[w].at = "idle"
    /\ S \subseteq outstanding /\ Cardinality(S) = Least(Cardinality(outstanding))
    /\ sweep' = [sweep EXCEPT ![w] = [at |-> "raise", found |-> S, left |-> S]]
    /\ alone' = IF \E v \in Sweeps : sweep[v].at # "idle" THEN {} ELSE {w}
    /\ settled' = FALSE
    /\ UNCHANGED <<outstanding, bell, seen, reading>>

\* Mutant of Raised: a row that was resolved is not opened again.
RaisedOnce(status) == IF status = "none" THEN "open" ELSE status

\* raise: the upsert opens the row again.
Raised(status) == "open"
Raise(w, s) ==
    /\ s \in sweep[w].left
    /\ bell' = [bell EXCEPT ![s] = Raised(@)]
    /\ sweep' = [sweep EXCEPT ![w].left = @ \ {s}]
    /\ UNCHANGED <<outstanding, seen, reading, alone, settled>>

\* resolveHandled: the open rows of subjects that were not found.
ResolveHandled(w) ==
    /\ sweep[w].at = "raise" /\ sweep[w].left = {}
    /\ bell' = [s \in Subjects |->
        IF bell[s] = "open" /\ s \notin sweep[w].found THEN "resolved" ELSE bell[s]]
    /\ sweep' = [sweep EXCEPT ![w] = Asleep]
    /\ settled' = (w \in alone)
    /\ UNCHANGED <<outstanding, seen, reading, alone>>

\* visibilityFilter: the open rows of the types a reader may see.
Visible(p) == {s \in Subjects : bell[s] = "open" /\ p \in Permitted}
FeedUnchanged == UNCHANGED <<outstanding, bell, sweep, alone, settled>>

\* markRead, which asks only that the row exists.
MarkOneRead(p, s) ==
    /\ bell[s] # "none"
    /\ seen' = [seen EXCEPT ![p] = @ \cup {s}]
    /\ FeedUnchanged /\ UNCHANGED reading
\* markAllRead: what is visible and unread is found, then marked.
FindUnread(p) ==
    /\ reading[p] = {} /\ Visible(p) \ seen[p] # {}
    /\ reading' = [reading EXCEPT ![p] = Visible(p) \ seen[p]]
    /\ FeedUnchanged /\ UNCHANGED seen
MarkFound(p) ==
    /\ reading[p] # {}
    /\ seen' = [seen EXCEPT ![p] = @ \cup reading[p]]
    /\ reading' = [reading EXCEPT ![p] = {}]
    /\ FeedUnchanged

FeedNext ==
    \/ \E p \in Staff :
        \/ \E s \in Subjects : MarkOneRead(p, s)
        \/ FindUnread(p) \/ MarkFound(p)
    \/ \E s \in Subjects : Change(s)
    \/ \E w \in Sweeps :
        \/ \E S \in SUBSET Subjects : SyncRead(w, S)
        \/ \E s \in Subjects : Raise(w, s)
        \/ ResolveHandled(w)

-----------------------------------------------------------------------------
\* After a sync that nothing ran beside, the bell shows exactly what is
\* outstanding, whatever earlier syncs raised or resolved on sets that were
\* stale by then; as long as one sync reads all there is.
BellIsCurrent ==
    settled /\ Cardinality(outstanding) <= Take =>
        {s \in Subjects : bell[s] = "open"} = outstanding
=============================================================================
