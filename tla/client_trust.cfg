SPECIFICATION FairSpec
CONSTANTS
    Bundles <- MCBundles
    Procs = {timer, user}
    Importers = {user}
    Hosts = {h1}
    Patterns = {"*.plant"}
    MaxAdded = 1
    MaxEvents = 1
    Absent = Absent
    Torn = Torn
INVARIANTS
    TypeOK
    BundleFits
    LinesKept
    OneBlock
    StaysSmall
PROPERTIES
    TrustFollowsCa
    ImportRecovers
