SPECIFICATION Spec
CONSTANTS
    Procs = {user}
    Timer = timer
    Terminal = {user}
    Ttl = 2
    MinWindow = 1
    KeyReady = FALSE
    MaxKeys = 3
    MaxKills = 2
    Absent = Absent
    Torn = Torn
INVARIANTS
    TypeOK
    InstalledCertFits
PROPERTY
    ValidCertSurvives
