SPECIFICATION Spec
CONSTANTS
    Ttls <- ProfileTtls
    Period = 15
    Accuracy = 1
    MinWindow = 15
    LocalOffset = 0
    MaxTries = 12
    Floor <- Expired
INVARIANTS
    TypeOK
    AsksBeforeExpiry
