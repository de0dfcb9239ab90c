SPECIFICATION Spec
CONSTANTS
    Ttls <- Production
    Period = 15
    Accuracy = 1
    MinWindow = 15
    LocalOffset = 480
    MaxTries = 0
    Floor <- LongExpired
INVARIANT
    RenewedBeforeExpiry
