SPECIFICATION Spec
CONSTANTS
    f1 = f1
    f2 = f2
    MCStarted = {p1, p2}
    e1 = e1
    e2 = e2
    e3 = e3
    None = None
    NewRequests = {r1, r2}
    Requests <- MCRequests
    Founders <- MCFounders
    Emails <- MCEmails
    EmailOf <- MCEmailOf
    Started <- MCStarted
    OwnerOf <- MCOwnerOf
SYMMETRY Symmetry
CHECK_DEADLOCK FALSE
INVARIANTS
    TypeOK
    MembersWithinTenant
    EveryUserHasHome
    RolesAreUnambiguous
    GrantedInTenant
    RefusalsAreTrue
PROPERTY
    RequestsAreAtomic
