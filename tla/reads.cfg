CONSTANTS
    c1 = c1
    c2 = c2
    c3 = c3
    me = me
    other = other
    p1 = p1
    p2 = p2
    p3 = p3
    Cards = {c1, c2, c3}
    Accounts = {a1, a2}
    Users = {me, other}
    Viewer = me
    ChannelsOf <- MCChannelsOf
    PlanOf <- MCPlanOf
    Inactive = {p3}
    Images <- MCImages
    LinkStatuses = {1, 403, 404, 538}
    VoucherLists <- MCVoucherLists
    Balances <- MCBalances
    MAX_INACTIVE = 1
    Now = 9
    MaxChanges = 1
SPECIFICATION MCSpec
INVARIANTS
    TypeOK
    RefusedOnlyIfChanged
    FullyLinkedIfQuiet
    SameInEveryView
    TargetOfAShownVoucher
    RewardIsShown
    OnlyOldVouchersDropped
    TierImageShownWithHero
CHECK_DEADLOCK FALSE
