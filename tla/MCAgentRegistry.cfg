SPECIFICATION Spec
CONSTANTS
    Accounts = {deployer, other}
    AgentIds = {oracle, risk}
    NoAgent = NoAgent
    Outcomes = {TRUE, FALSE}
    MaxEvents = 7
INVARIANT TypeOK
INVARIANT Reproducible
INVARIANT DriftBounded
PROPERTY OutcomesPayOff
CHECK_DEADLOCK FALSE
