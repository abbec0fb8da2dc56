CONSTANTS
    Password = {p1, p2}
    Unacceptable = Unacceptable
    Attempt = {a1, a2}
    Token = {k1, k2, k3}
    Free = Free
    AttemptLimit = 2
    Window = 2
    SessionLimit = 2
    Lifetime = 2
    MaxTime = 4
    MaxRevision = 2
    MaxAdmins = 1
SPECIFICATION Spec
SYMMETRY AuthSymmetry
INVARIANTS
    AuthInv
    LoginRateIsBounded
    SessionsMatchAccount
PROPERTIES
    InvalidTokensStayInvalid
