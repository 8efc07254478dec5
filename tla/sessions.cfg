SPECIFICATION Spec
CONSTANTS
    Name = {admin}
    Admin = admin
    Db = {default, other}
    Default = default
    OpenLog = {other}
    Token = {t1}
    Request = {r1, r2}
    admin = admin
    default = default
    other = other
    t1 = t1
    r1 = r1
    r2 = r2
    TTL = 1
    MaxClock = 1
    MaxHash = 2
INVARIANTS TokensAreKept RevokedIsRevoked ScopeIsKept
PROPERTIES OldCredentialsAreRefused ExpiredIsSwept
