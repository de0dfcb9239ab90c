SPECIFICATION FairSpec
CONSTANTS
    Procs = {timer, user}
    Timer = timer
    Terminal = {user}
    Ttl = 4
    MinWindow = 1
    KeyReady = TRUE
    MaxKeys = 2
    MaxKills = 2
    Absent = Absent
    Torn = Torn
INVARIANTS
    InstalledCertFits
    NothingLeftTorn
    SshStartsReady
PROPERTIES
    ValidCertSurvives
    TimerRecovers
    EnrollRecovers
