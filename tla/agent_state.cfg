SPECIFICATION AgentSpec
CONSTANTS
    NoValue = NoValue
    e1 = e1
    e2 = e2
    e3 = e3
    status = status
    inService = inService
    outOfService = outOfService
    Events <- AllEvents
    TimeOf <- Times
    Attributes <- OneAttribute
    Says <- Said
    Cassettes <- TwoCassettes
    NotesOf <- Notes
    DenominationOf <- Denominations
    DefaultDenomination <- Defaults
    Attempts = 2
    MaxBeats = 2
    MaxClock = 6
    c1 = c1
    c2 = c2
    Invalid = Invalid
    EmptyTable = EmptyTable
    DefaultSettings = DefaultSettings
    Nothing = Nothing
    Raised = Raised
    w1 = w1
    w2 = w2
    Configs = {c1, c2}
    Workers = {w1, w2}
    Lifetime = 2
    MaxEdits = 3
    Backups = 3
    MaxBytes = 1
    MaxStamp = 3
    MaxKills = 1
INVARIANTS
    TypesOK
    RowIsReplay
    TotalsAgree
    ConflictHasCause
    CrashDumpKept
PROPERTIES
    BeatsNotLost
    PromiseKept
    EventSettled
    BoundedStaleness
    ConfigAdopted
    CapReached
    OldestFirst
CHECK_DEADLOCK FALSE
