----------------------------- MODULE MCReferrals -----------------------------
(* Instances of Referrals for TLC: one referrer with a referral made at    *)
(* sign-up, whose user makes two deposits, and two referrals bound to the  *)
(* first campaign.                                                         *)
EXTENDS Referrals

CONSTANTS r1, r2, r3, d1, d2, d3, d4, ann

MCReferrerOf == [r \in Referrals |-> ann]
MCReferralOf == [d \in Deposits |-> IF d = d4 THEN r3 ELSE IF d = d3 THEN r2 ELSE r1]
FirstUnbound == [r \in Referrals |-> IF r = r1 THEN Unbound ELSE 1]
=============================================================================
