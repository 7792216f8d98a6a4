SPECIFICATION Spec
CONSTANTS
    Users = {"u"}
    Browsers = {"b"}
    Emails = {"e"}
    Roles = {"staff"}
    Perms = {"view", "edit"}
    Granted <- MCGranted
    Variable <- MCVariable
    Pages = {"home"}
    Home = "home"
    PermTTL = 1
    MissTTL = 2
    ChangeTTL = 1
    MaxWork = 3
    MaxSaves = 1
    MaxTime = 2
INVARIANTS TypeOK IdentityIsOwn RightsEndWithAccount AccountsCanLogIn
PROPERTIES PermissionsRecent NotModifiedIsTrue
CHECK_DEADLOCK FALSE
