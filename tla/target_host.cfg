SPECIFICATION FairSpec
CONSTANTS
    Lifecycle <- MCLifecycle
    Capital <- MCCapital
    Ignored <- MCIgnored
    NoFile = NoFile
    Pids = {1, 2, 3}
    Users = {"rocky", "root"}
    Keys <- MCKeys
    Lives = {1, 2}
    StageFiles <- MCStageFiles
    Period = 3
    Accuracy = 1
    MaxFailed = 1
    MaxOverdue = 12
    None = None
INVARIANTS
    TypeOK
    OverdueBounded
    LoginDecision
PROPERTIES
    OnlyExpiredEnded
    ExpiredSessionsEnd
