SPECIFICATION Spec
CONSTANTS
    Users = {alice, bob}
    GrantIds = {g1, g2, g3, g4}
    Requests = {r1}
    GrantRoles = {"helpdesk", "admin"}
    Channels = {"scim"}
    MaxTime = 2
    NoGrant = NoGrant
    NoUser = NoUser
SYMMETRY Symmetry
INVARIANTS TypeOK CacheAgrees LeaverHoldsNoRole
PROPERTIES LastAdminCheckIsExact RevocationsHold
