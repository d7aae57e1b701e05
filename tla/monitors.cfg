SPECIFICATION WebSpec
CONSTANTS
    d1 = d1
    d2 = d2
    n1 = n1
    q1 = q1
    None = None
    Devices = {d1, d2}
    Seeded = {d1, d2}
    Edited = {d1}
    Limit = 1
    Rounds = 2
    MaxFailures = 1
    Nvrs = {n1}
    SeededNvrs = {n1}
    Requests = {q1}
    s1 = s1
    s2 = s2
    g1 = g1
    Setters = {s1, s2}
    Getters = {g1}
    Targets = {"main", "sub", "third"}
    Tags <- SomeTags
    Fields = {"width", "height", "rate"}
    Paired = {"width", "height"}
    Payloads <- SomePayloads
    Default = "default"
    Factory = "factory"
    MaxLosses = 1
INVARIANTS
    MonitorTypesOK
    OnlyFailedRoundsLinger
    OutageConsistent
    NvrRecordingDated
    AnswersTrue
    ShownAsSet
PROPERTIES
    OutageKept
    PingGoesOn
    NvrReadingsKept
    NvrGoesOn
CHECK_DEADLOCK FALSE
