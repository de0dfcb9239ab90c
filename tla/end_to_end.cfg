SYMMETRY Interchangeable
VIEW WhatMatters
CONSTRAINT LogComplete
SPECIFICATION Spec
CONSTANTS
    Procs = {timer, user}
    Timer = timer
    Terminal = {user}
    Ttl = 1
    MinWindow = 0
    KeyReady = TRUE
    MaxKeys = 1
    MaxKills = 1
    Absent = Absent
    Torn = Torn
    Workers = {w1, w2}
    MaxCerts = 2
    None = None
    Lost = Lost
INVARIANTS
    TypeOK
    OneExpiry
    InstalledIsAudited
PROPERTY
    ImplementsClient
