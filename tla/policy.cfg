SPECIFICATION Spec
CONSTANTS
    Settings <- MCSettings
    Requests <- MCRequests
    MaxRows = 2
    None = None
INVARIANTS
    TypeOK
    OnlyPermitted
    RestrictionsKept
    LifetimeAsAsked
    DefaultsAccepted
