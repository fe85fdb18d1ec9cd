SPECIFICATION Spec
CONSTANTS
    upper = upper
    lower = lower
    key = key
    None = None
    Email = {upper, lower}
    Name = {n1, n2}
    Key = {key}
    Norm <- OneKey
    Task = {k1, k2}
    MaxTokens = 3
    MaxWindows = 2
    MaxAccounts = 2
SYMMETRY Symmetry
CHECK_DEADLOCK FALSE
INVARIANTS LatestLinkWorks MailsBounded SessionsHaveTheirUser
PROPERTIES OnlyNewestLinkOnce DeadLinksStayDead
