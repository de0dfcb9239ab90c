SPECIFICATION Spec
CONSTANTS
    Workers = {w1, w2}
    CertTypes = {"user"}
    Subjects = {s1}
    Grants = {g1, g2}
    Callers = {timer, admin}
    None = None
    MaxCerts = 2
    SerialCallers = FALSE
SYMMETRY Interchangeable
VIEW WhatMatters
INVARIANTS
    GrantsWhatWasAsked
    AuditCoversAnswers
    OneCertPerThread
PROPERTY
    SettledForever
