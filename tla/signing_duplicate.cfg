SPECIFICATION Spec
CONSTANTS
    Workers = {w1, w2}
    CertTypes = {"user"}
    Subjects = {s1}
    Grants = {g1}
    Callers = {timer}
    None = None
    MaxCerts = 2
    SerialCallers = FALSE
INVARIANT
    IdempotentAnswers
