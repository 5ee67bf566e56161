SPECIFICATION Spec
CONSTANTS
    Users = {alice, bob}
    GrantIds = {g1, g2}
    Requests = {r1, r2}
    GrantRoles = {"helpdesk", "admin"}
    Channels = {"scim", "console"}
    MaxTime = 2
    NoGrant = NoGrant
    NoUser = NoUser
SYMMETRY Symmetry
INVARIANTS OneLiveGrant
PROPERTIES RolesComeFromGrants
