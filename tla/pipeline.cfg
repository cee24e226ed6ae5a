\* One invocation after another, of two users in a session each, with every
\* kind of command, directory list and rule; packages come and go meanwhile.
SPECIFICATION Spec
CONSTANTS
    Procs = {p1}
    Callers <- MCCallers
    CommandLines <- MCCommandLines
    Configs <- MCConfigs
    Files <- MCFiles
    Names <- MCNames
    Begins <- MCBegins
    Nul = "nul"
    Other = Other
    Error = Error
    All = All
    Nil = Nil
    NotUtf8 = NotUtf8
    MaxClock = 2
INVARIANTS
    PipelineInv
    ExecAuthorised
    ExecutedIsMatched
    PathFaithful
    AuditTrail
PROPERTIES
    FirstRuleDecides
