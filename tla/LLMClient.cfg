\* Two clients with three accounts and three attempts, or with a key of their own.
SPECIFICATION Spec
CONSTANTS
    Clients = {c1, c2}
    k1 = k1
    k2 = k2
    k3 = k3
    e1 = e1
    e2 = e2
    own = own
    u1 = u1
    u2 = u2
    default = default
    m1 = m1
    m2 = m2
    Keys = {k1, k2, k3, e1, e2, own}
    Urls = {u1, u2, default}
    Models = {m1, m2}
    ApiKeys = {None, own}
    Pool <- MCPool
    EnvKeys <- MCEnvKeys
    Default <- MCDefault
    MaxAttempts = 2
    None = None
    MaxChats = 2
INVARIANTS
    TypeOK
    RequestIsOfOneAccount
    LoneClientTriesEveryAccount
CHECK_DEADLOCK FALSE
