CONSTANTS
    c1 = c1
    c2 = c2
    Client <- Clients
    Action <- Actions
    Requests <- Asked
    Policies <- Installable
SPECIFICATION MCSpec
INVARIANTS
    AnswersAreAudited
    KillSwitchHolds
PROPERTIES
    ConnectionsEnd
    EscalationIsMonotone
