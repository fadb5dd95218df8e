SPECIFICATION Spec
CONSTANTS
    ip = ip
    email = email
    Requests = {r1}
    Keys <- LoginKeys
    Limit <- LoginLimit
    Window <- LoginWindow
    Routes <- LoginRoutes
INVARIANT
    KeysExpire
