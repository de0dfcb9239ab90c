SPECIFICATION Spec
CONSTANTS
    Workers = {w1, w2}
    CertTypes = {"user", "host"}
    Subjects = {s1}
    Grants = {g1}
    Callers = {timer, admin}
    None = None
    MaxCerts = 2
    SerialCallers = TRUE
SYMMETRY Interchangeable
INVARIANTS
    TypeOK
    IdempotentAnswers
PROPERTY
    ImplementsPromise
