SPECIFICATION FairSpec
CONSTANTS
    a1 = a1
    k1 = k1
    k2 = k2
    Account = {a1}
    Guest = {g1}
    Character = {k1, k2}
    CharacterAccount <- OneAccount
    Connection = {c1, c2}
    None = None
    MaxTime = 3
INVARIANTS ControlAgreement
PROPERTIES HitsUnderLease NotEvicted ImplementsControl ExpiredLeaseEnds
