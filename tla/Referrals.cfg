SPECIFICATION ReferralsSpec
CONSTANTS
    r1 = r1
    r2 = r2
    r3 = r3
    d1 = d1
    d2 = d2
    d3 = d3
    d4 = d4
    ann = ann
    Unbound = Unbound
    Referrals = {r1, r2, r3}
    Deposits = {d1, d2, d3, d4}
    ReferrerOf <- MCReferrerOf
    ReferralOf <- MCReferralOf
    CampaignOf <- FirstUnbound
    Campaigns = {1, 2}
    MaxRewards = 1
    MaxDrops = 1
CHECK_DEADLOCK FALSE
INVARIANT BoundCapHeld
INVARIANT RewardsTraceable
