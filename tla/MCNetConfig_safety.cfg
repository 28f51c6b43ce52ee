CONSTANTS
    Profile = {p1, p2}
    Default = Default
    Client = {k1, k2}
    Forms = {k1}
    Unknown = Unknown
    NoRequest = NoRequest
    NoConsent = NoConsent
    MaxAsks = 2
SPECIFICATION Spec
INVARIANT TypeOK
PROPERTY TeardownConsented
