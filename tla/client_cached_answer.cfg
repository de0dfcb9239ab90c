SPECIFICATION FairSpec
CONSTANTS
    Procs = {timer}
    Timer = timer
    Terminal = {}
    Ttl = 2
    MinWindow = 1
    KeyReady = TRUE
    MaxKeys = 1
    MaxKills = 0
    Absent = Absent
    Torn = Torn
PROPERTY
    CertificateReturns
