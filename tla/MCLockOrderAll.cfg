SPECIFICATION LockSpec
CONSTANTS
    Proc = {p1, p2}
    Member = {1, 2, 3}
    Kinds = {"ledger", "settle", "transfer", "redeem", "referral", "consent",
             "merge", "mergeTwo", "autoEarn", "journey"}
CHECK_DEADLOCK FALSE
INVARIANTS
    NoDeadlock
