SPECIFICATION FairSpec
CONSTANTS
    c1 = c1
    c2 = c2
    d1 = d1
    d2 = d2
    send = send
    advance = advance
    note = note
    k1 = k1
    k2 = k2
    Call = {c1}
    Decision = {d1}
    Action = {send, advance, note}
    Key = {k1, k2}
    PolicyGated = {send}
    ReviewGated = {advance}
    Policies <- MCPolicies
    Requests <- MCFewRequests
    Faulty = {}
PROPERTY
    ApprovedActionContinues
