SPECIFICATION Spec
CONSTANTS
    Users = {}
    Browsers = {"b"}
    Emails = {}
    Roles = {}
    Perms = {"view"}
    Granted <- Readers
    Variable = {}
    Pages = {"home", "child"}
    Home = "home"
    PermTTL = 3
    MissTTL = 0
    ChangeTTL = 1
    MaxWork = 0
    MaxSaves = 3
    MaxTime = 2
PROPERTY NotModifiedIsTrue
CHECK_DEADLOCK FALSE
