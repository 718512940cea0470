CONSTANTS
    m1 = m1
    m2 = m2
    m3 = m3
    n1 = n1
    Nodes = {m1, n1}
    Masternodes = {m1, m2, m3}
    Payees = {m1, m2}
    Better <- BetterByScore
    Required = 2
    Total = 2
    VoteAhead = 1
    ScheduleAhead = 1
    MaxAhead = 2
    StorageLimit = 0
    None = None
    OtherVotes <- SignedVotes
    MaxOthers = 2
    Forgeable <- ForgedVotes
    MaxTip = 2
    MaxEvents = 1
SPECIFICATION Spec
INVARIANTS VotesAreBooked PayeesAgree
PROPERTY EnforcedStays
CHECK_DEADLOCK FALSE
