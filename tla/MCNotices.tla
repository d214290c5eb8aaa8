------------------------------ MODULE MCNotices ------------------------------
(* An instance of Notices for TLC: two users and two installations that a    *)
(* token wanders between, two calls, an email, an event, quiet hours that    *)
(* span midnight in a day of three minutes; three subjects of which a sync   *)
(* reads two, two syncs.                                                     *)
EXTENDS Notices, TLC

QuietOverMidnight == [start |-> 2, end |-> 1]
Interchangeable == Permutations(Calls) \cup Permutations(Sweeps) \cup Permutations(Subjects)

\* The members' and the staff's side share no variable and no property reads
\* both, so one of them may rest in its initial state while the other runs.
OneSideRests == FeedInit \/ NoticesInit

\* isWithinQuietHours agrees with counting minutes round the clock, for every
\* choice of hours.
ASSUME QuietHoursAreAnInterval ==
    \A m, start, end \in 0 .. 7 : start # end =>
        (IsWithinQuietHours(m, start, end) <=> (m - start + 8) % 8 < (end - start + 8) % 8)
=============================================================================
