SPECIFICATION Spec
CONSTANTS
    NONE = NONE
    u1 = u1
    u2 = u2
    d1 = d1
    a1 = a1
    k1 = k1
    User = {u1, u2}
    Dept = {d1}
    App = {a1}
    Dataset = {k1}
    Seed = u1
    SeedApp = {a1}
    Custom = {"OPS"}
    CodeLists = {{}, {"USER"}, {"OPS"}, {"USER", "PLATFORM_ADMIN"}}
    MaxRole = 4
    MaxWrites = 2
INVARIANTS
    RolesAreAsked
    
PROPERTIES
    LockedOutOnlyBySelf
    NewRoleGivesNothing
    
