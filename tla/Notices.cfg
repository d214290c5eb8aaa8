SPECIFICATION MessagesSpec
CONSTANTS
    PhoneUsers = {u1, u2}
    Fingerprints = {f1, f2}
    Tokens = {t1}
    Unset = Unset
    Calls = {c1, c2}
    Owner = u1
    Emails = {m1}
    Events = {e1}
    DayLength = 3
    Quiet <- QuietOverMidnight
    Subjects = {s1, s2, s3}
    Sweeps = {w1, w2}
    Staff = {p1}
    Permitted = {p1}
    Take = 2
SYMMETRY Interchangeable
CONSTRAINT OneSideRests
CHECK_DEADLOCK FALSE
INVARIANT OneClaim
INVARIANT EmailedOnce
INVARIANT BellIsCurrent
