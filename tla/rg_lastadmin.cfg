SPECIFICATION Spec
CONSTANTS
    Users = {alice, bob}
    GrantIds = {g1, g2, g3}
    Requests = {r1, r2}
    GrantRoles = {"helpdesk", "admin"}
    Channels = {}
    MaxTime = 2
    NoGrant = NoGrant
    NoUser = NoUser
SYMMETRY Symmetry
PROPERTY LastAdminStays

